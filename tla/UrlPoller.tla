------------------------------ MODULE UrlPoller ------------------------------
(***************************************************************************)
(* from_url.py: asks a back end for its last id, then again and again for  *)
(* the danmaku after the last one seen, and adds each of them.  The back   *)
(* end, which numbers danmaku as they come, is external.                   *)
(***************************************************************************)
EXTENDS DanmakuApi, FiniteSets, SequencesExt

VARIABLES
    program,         \* where main() is; "off": not running
    last,            \* last_danmaku_id
    base,            \* the value that it began with
    batch            \* the records of the answer that are still to be added

vars == <<offered, tried, shown, program, last, base, batch>>

TypeOK ==
    /\ program \in {"off", "starting", "polling", "posting"}
    /\ last \in Ids \cup {0}
    /\ base \in Ids \cup {0}
    /\ batch \in Seq(Ids)
    /\ batch # <<>> => program = "posting"

Init ==
    /\ program = "off"
    /\ last = 0
    /\ base = 0
    /\ batch = <<>>

-----------------------------------------------------------------------------
Launch ==
    /\ program = "off"
    /\ program' = "starting"
    /\ UNCHANGED <<offered, tried, shown, last, base, batch>>

\* ?action=getlastid
GetLastId ==
    /\ program = "starting"
    /\ program' = "polling"
    /\ last' = Cardinality(offered)
    /\ base' = last'
    /\ UNCHANGED <<offered, tried, shown, batch>>

\* Mutant of Poll: asks from the last id on.
PollFromLast ==
    /\ program = "polling"
    /\ program' = "posting"
    /\ batch' \in SetToSeqs({d \in offered : d >= last})
    /\ UNCHANGED <<offered, tried, shown, last, base>>

\* ?action=getdanmaku&start=..., whose records may come in any order.
Poll ==
    /\ program = "polling"
    /\ program' = "posting"
    /\ batch' \in SetToSeqs({d \in offered : d >= last + 1})
    /\ UNCHANGED <<offered, tried, shown, last, base>>

\* Mutant of Post: the last id is what the back end has by then.
PostSkips ==
    /\ program = "posting"
    /\ batch # <<>>
    /\ AddDanmaku(Head(batch))
    /\ last' = Cardinality(offered)
    /\ batch' = Tail(batch)
    /\ UNCHANGED <<offered, program, base>>

\* The last id advances whether or not the danmaku was added.
Post ==
    /\ program = "posting"
    /\ batch # <<>>
    /\ AddDanmaku(Head(batch))
    /\ last' = IF Head(batch) > last THEN Head(batch) ELSE last
    /\ batch' = Tail(batch)
    /\ UNCHANGED <<offered, program, base>>

Sleep ==
    /\ program = "posting"
    /\ batch = <<>>
    /\ program' = "polling"
    /\ UNCHANGED <<offered, tried, shown, last, base, batch>>

\* The back end cannot be reached or its answer is no JSON, which nothing
\* catches; or the program is interrupted.
Dies ==
    /\ program # "off"
    /\ program' = "off"
    /\ batch' = <<>>
    /\ UNCHANGED <<offered, tried, shown, last, base>>

\* The back end gets a danmaku and numbers it.
Publish ==
    /\ Offer(Cardinality(offered) + 1)
    /\ UNCHANGED <<program, last, base, batch>>

Step == GetLastId \/ Poll \/ Post \/ Sleep

Next == Launch \/ Step \/ Dies \/ (Cardinality(offered) < Cardinality(Ids) /\ Publish)

\* The program runs, and the back end and the danmaku program answer or fail.
Fairness == WF_vars(Step)

-----------------------------------------------------------------------------
\* Whatever the back end gets after the program has asked for its last id is
\* added or tried to be, in whatever order records come and failures happen, as
\* long as the program runs.
TriesAll ==
    \A d \in Ids :
        (program \in {"polling", "posting"} /\ d \in offered /\ d > base)
            ~> (d \in tried \/ program = "off")
=============================================================================
