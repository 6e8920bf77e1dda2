-------------------------------- MODULE Table --------------------------------
(***************************************************************************)
(* What a table builder promises (spec.md 4.3 and 8), with no blocks,     *)
(* handles or bytes: entries are accepted in increasing key order while   *)
(* the table is open and its status ok; the status may turn to an error   *)
(* at any write and then stays so; finish() or abandon() closes the       *)
(* table once.  contents is what a reader of the finished file sees:      *)
(* exactly the accepted entries when finish() returned ok, and nothing    *)
(* promised ("none") otherwise.                                           *)
(***************************************************************************)
EXTENDS Naturals, Sequences, SequencesExt, Comparator

CONSTANTS Keys, Values, MaxEntries

VARIABLES entries, status, phase, contents

vars == <<entries, status, phase, contents>>

Init ==
    /\ entries = <<>>
    /\ status = "ok"
    /\ phase = "open"
    /\ contents = "none"

(* The status after a step that writes: an error may occur, and stays.    *)
NextStatus == IF status = "ok" THEN {"ok", "error"} ELSE {"error"}

Add(k, v) ==
    /\ phase = "open"
    /\ status = "ok"
    /\ IF entries = <<>> THEN TRUE ELSE LexLess(Last(entries).key, k)
    /\ Len(entries) < MaxEntries
    /\ entries' = Append(entries, [key |-> k, value |-> v])
    /\ status' \in NextStatus
    /\ UNCHANGED <<phase, contents>>

(* A write of buffered entries fails.                                      *)
Fail ==
    /\ phase = "open"
    /\ status = "ok"
    /\ status' = "error"
    /\ UNCHANGED <<entries, phase, contents>>

Finish ==
    /\ phase = "open"
    /\ phase' = "finished"
    /\ status' \in NextStatus
    /\ contents' = IF status' = "ok" THEN entries ELSE "none"
    /\ UNCHANGED entries

Abandon ==
    /\ phase = "open"
    /\ phase' = "abandoned"
    /\ UNCHANGED <<entries, status, contents>>

Next ==
    \/ \E k \in Keys, v \in Values : Add(k, v)
    \/ Fail
    \/ Finish
    \/ Abandon

Spec == Init /\ [][Next]_vars

=============================================================================
