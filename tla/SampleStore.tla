---------------------------- MODULE SampleStore ----------------------------
(***************************************************************************)
(* stage_09_sqlite3/main.cpp: open, create, delete, three inserts and a    *)
(* query, each a transaction of its own on a database that outlives the    *)
(* process.  Every call to SQLite may fail, and the process may be killed  *)
(* and started again.                                                      *)
(***************************************************************************)
EXTENDS Naturals, Sequences, FiniteSets

CONSTANT Runs       \* how often the program is started: bounds the run

VARIABLES
    pc,
    run,        \* which run of the program this is
    exists,     \* the table was created
    samples,    \* its rows, in the order of their ids
    lastId,     \* AUTOINCREMENT: no id is used twice
    inserted,   \* inserts tried in this run
    refused,    \* inserts of this run that failed
    shown       \* rows printed in this run

storeVars == <<run, exists, samples, lastId, inserted, refused, shown>>

vars == <<pc, storeVars>>

Init ==
    /\ pc = "start"
    /\ run = 1
    /\ exists = FALSE
    /\ samples = <<>>
    /\ lastId = 0
    /\ inserted = 0
    /\ refused = {}
    /\ shown = <<>>

Fails(place) ==
    /\ pc = place
    /\ pc' = "ended"
    /\ UNCHANGED storeVars

open_database ==
    /\ pc = "start"
    /\ pc' = "create"
    /\ UNCHANGED storeVars

create_table ==
    /\ pc = "create"
    /\ exists' = TRUE
    /\ pc' = "delete"
    /\ UNCHANGED <<run, samples, lastId, inserted, refused, shown>>

(* Mutant: the rows of earlier runs are kept. *)
KeepsRows == UNCHANGED samples

DeletesRows == samples' = <<>>

delete_samples ==
    /\ pc = "delete"
    /\ DeletesRows
    /\ pc' = "insert"
    /\ UNCHANGED <<run, exists, lastId, inserted, refused, shown>>

(* insert_sample, whose result main ignores. *)
insert_sample(ok) ==
    /\ pc = "insert"
    /\ inserted < 3
    /\ inserted' = inserted + 1
    /\ IF ok
           THEN /\ samples' = Append(samples, [id |-> lastId + 1, run |-> run, n |-> inserted'])
                /\ lastId' = lastId + 1
                /\ UNCHANGED refused
           ELSE /\ refused' = refused \cup {inserted'}
                /\ UNCHANGED <<samples, lastId>>
    /\ UNCHANGED <<pc, run, exists, shown>>

prepare_query ==
    /\ pc = "insert"
    /\ inserted = 3
    /\ pc' = "query"
    /\ UNCHANGED storeVars

(* sqlite3_step: the next row in the order of id. *)
query_row ==
    /\ pc = "query"
    /\ Len(shown) < Len(samples)
    /\ shown' = Append(shown, samples[Len(shown) + 1])
    /\ UNCHANGED <<pc, run, exists, samples, lastId, inserted, refused>>

query_done ==
    /\ pc = "query"
    /\ Len(shown) = Len(samples)
    /\ pc' = "finished"
    /\ UNCHANGED storeVars

close_database == Fails("finished")

(* The process is killed, or has ended, and is started again. *)
StartAgain ==
    /\ pc # "start"
    /\ run < Runs
    /\ run' = run + 1
    /\ pc' = "start"
    /\ inserted' = 0
    /\ refused' = {}
    /\ shown' = <<>>
    /\ UNCHANGED <<exists, samples, lastId>>

OwnStep ==
    \/ open_database \/ create_table \/ delete_samples
    \/ \E ok \in BOOLEAN : insert_sample(ok)
    \/ prepare_query \/ query_row \/ query_done \/ close_database
    \/ \E place \in {"start", "create", "delete", "query"} : Fails(place)

Next == OwnStep \/ StartAgain

(* What a run that got as far as the query has printed are its own         *)
(* samples, each once and in order, all but those refused, whatever        *)
(* earlier runs left behind when they were killed (main, query_samples).   *)
ShowsThisRun ==
    /\ \A j \in DOMAIN shown : shown[j].run = run /\ shown[j].n \notin refused
    /\ \A j, k \in DOMAIN shown : j < k => shown[j].n < shown[k].n /\ shown[j].id < shown[k].id
    /\ pc = "finished" => Len(shown) + Cardinality(refused) = 3
=============================================================================
