-------------------------- MODULE ErrorController --------------------------
(***************************************************************************)
(* tap::errors::ErrorController: the errors raised and not removed since,  *)
(* in a deque of modm.  An error is its description, file and line.        *)
(***************************************************************************)
EXTENDS Integers, SequencesExt

CONSTANTS Errors, ERROR_LIST_MAX_SIZE

VARIABLES
    errorList, \* front first
    raised     \* history: for each error the number of the RAISE_ERROR that
               \*   put it in the list, 0 if it is not there; renumbered so
               \*   that the oldest one is 1

(* The numbers when an error is no longer in the list. *)
Without(error) ==
    [e \in Errors |-> IF e = error THEN 0
                      ELSE IF raised[e] > raised[error] THEN raised[e] - 1 ELSE raised[e]]

vars == <<errorList, raised>>

Init == errorList = <<>> /\ raised = [e \in Errors |-> 0]

(* A full list loses its oldest error. *)
addToErrorList(error) ==
    LET full == Len(errorList) >= ERROR_LIST_MAX_SIZE
        list == IF full THEN Tail(errorList) ELSE errorList
        others == IF full THEN Without(Head(errorList)) ELSE raised IN
    /\ error \notin Range(errorList)
    /\ errorList' = Append(list, error)
    /\ raised' = [others EXCEPT ![error] = Len(list) + 1]

AddAgain(error) == error \in Range(errorList) /\ UNCHANGED vars

(* Mutant: the loop stops once it has found the error. *)
RotatedToIndex(list, index) ==
    LET turned[i \in 0 .. index + 1] ==
            IF i = 0 THEN list
            ELSE IF i = index + 1 THEN Tail(turned[i - 1])
            ELSE Append(Tail(turned[i - 1]), Head(turned[i - 1]))
    IN  turned[index + 1]

(* One full turn of the list that leaves out the element at index. *)
Rotated(list, index) ==
    LET turned[i \in 0 .. Len(list)] ==
            IF i = 0 THEN list
            ELSE IF i = index + 1 THEN Tail(turned[i - 1])
            ELSE Append(Tail(turned[i - 1]), Head(turned[i - 1]))
    IN  turned[Len(list)]

removeSystemErrorAtIndex(index) ==
    /\ index < Len(errorList)
    /\ errorList' = IF index = 0 THEN Tail(errorList)
                    ELSE IF index = Len(errorList) - 1 THEN Front(errorList)
                    ELSE Rotated(errorList, index)
    /\ raised' = Without(errorList[index + 1])

removeAllSystemErrors ==
    /\ errorList' = <<>>
    /\ raised' = [e \in Errors |-> 0]

Next ==
    \/ \E e \in Errors : addToErrorList(e) \/ AddAgain(e)
    \/ \E index \in 0 .. ERROR_LIST_MAX_SIZE : removeSystemErrorAtIndex(index)
    \/ removeAllSystemErrors

Spec == Init /\ [][Next]_vars

-----------------------------------------------------------------------------
(***************************************************************************)
(* However errors are raised, pushed out and removed by their index, the   *)
(* list holds the errors that were raised and not removed, none of them    *)
(* twice, the oldest one at index 0: the index that the terminal printed   *)
(* is the one it removes.                                                  *)
(***************************************************************************)
OldestFirst ==
    /\ Len(errorList) <= ERROR_LIST_MAX_SIZE
    /\ \A k \in DOMAIN errorList : raised[errorList[k]] = k
    /\ \A e \in Errors : raised[e] # 0 => e \in Range(errorList)
=============================================================================
