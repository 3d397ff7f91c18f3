------------------------------ MODULE Delivery ------------------------------
(***************************************************************************)
(* What the download promises, without threads, channels or memory:        *)
(* within one run of the program every chunk is accepted at most once and  *)
(* only for a piece that has no file yet; a file is created by the step    *)
(* that accepts the last chunk of its piece, is completed at most once and *)
(* is never touched again, in this run or in a later one.                  *)
(***************************************************************************)
CONSTANTS Pieces, Blocks

VARIABLES
    got,    \* the chunks accepted in this run of the program
    file    \* the file of each piece

vars == <<got, file>>

Init == got = {} /\ file = [p \in Pieces |-> "absent"]

\* The last chunk of a piece creates its file, unless the file system refuses.
Accept(p, b) ==
    /\ <<p, b>> \notin got
    /\ file[p] = "absent"
    /\ got' = got \cup {<<p, b>>}
    /\ \/ file' = file
       \/ /\ \A c \in Blocks : <<p, c>> \in got'
          /\ file' = [file EXCEPT ![p] = "partial"]

Finish(p) ==
    /\ \A b \in Blocks : <<p, b>> \in got
    /\ file[p] = "partial"
    /\ \E result \in {"good", "bad"} : file' = [file EXCEPT ![p] = result]
    /\ UNCHANGED got

\* The process ends or is killed: what is in memory is lost, files stay.
Forget == got # {} /\ got' = {} /\ UNCHANGED file

Next ==
    \/ \E p \in Pieces : Finish(p) \/ \E b \in Blocks : Accept(p, b)
    \/ Forget

Spec == Init /\ [][Next]_vars
=============================================================================
