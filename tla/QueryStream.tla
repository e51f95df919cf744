----------------------------- MODULE QueryStream -----------------------------
(***************************************************************************)
(* One statement streamed to one client: the driver task that governs,     *)
(* plans and executes it on the CPU runtime, the bounded channel it fills, *)
(* the JoinSet that watches the driver, and the response stream the client *)
(* reads (crates/hydrofoil: query.rs, query_service.rs, server.rs,         *)
(* stream.rs, planner/governed_lineage.rs).                                *)
(*                                                                         *)
(* Both surfaces use the pipeline: "connect" (RunQuery, for browsers) and  *)
(* "flight" (do_get).  An action is what a task does up to its next await  *)
(* or its next access of the channel.  A batch is the number of its turn   *)
(* in the plan's output and counts one row.                                *)
(***************************************************************************)
EXTENDS Naturals, Sequences

CONSTANTS
    Capacity,    \* the channel's buffer: 2 for RunQuery, 100 for do_get
    MaxLimit,    \* QueryAppState.query_max_limit, the row cap of RunQuery
    MaxBatches   \* bound: batches a plan may yield

ASSUME StreamConstants ==
    /\ Capacity \in Nat \ {0}
    /\ MaxLimit \in Nat
    /\ MaxBatches \in Nat

VARIABLES
    query,     \* the request and what policy says of it
    driver,    \* the driver task: where it is and the item it is sending
    chan,      \* items sent and not yet received
    joined,    \* the JoinSet has reported the driver's end
    reader,    \* what the client has seen of the response stream
    got,       \* the items the client received, in order
    yielded,   \* history: batches the plan has yielded
    exhausted, \* history: the plan's stream ended by itself
    started    \* history: the lineage START event was emitted

streamVars == <<query, driver, chan, joined, reader, got, yielded, exhausted, started>>

Batches == [kind : {"batch"}, n : 1..MaxBatches]
Error   == [kind |-> "error",  n |-> 0]
Schema  == [kind |-> "schema", n |-> 0]
Items   == Batches \cup {Error, Schema}

Queries == [surface   : {"connect", "flight"},
            statement : {"query", "dml", "ddl"},
            verdict   : {"allow", "deny", "unbound"},
            limit     : 0..MaxBatches]

Ended == {"finished", "panicked", "aborted"}
PCs   == {"plan", "authorize", "lower", "execute", "poll", "send"} \cup Ended

At(pc)         == driver.pc = pc
Goto(pc)       == driver' = [driver EXCEPT !.pc = pc]
Sending(item)  == driver' = [pc |-> "send", item |-> item]

StreamInit ==
    /\ query \in Queries
    /\ driver = [pc |-> "plan", item |-> Schema]
    /\ chan = <<>> /\ got = <<>>
    /\ joined = FALSE /\ started = FALSE /\ exhausted = FALSE
    /\ reader = "waiting"
    /\ yielded = 0

------------------------------------------------------------------------------
(* The request: planning, the DDL/DML gate and, on "connect", the row cap. *)

Admitted == \/ query.statement = "query"
            \/ query.statement = "dml" /\ query.surface = "flight"

RowCap == IF query.surface = "flight" THEN MaxBatches
          ELSE IF query.limit < MaxLimit THEN query.limit ELSE MaxLimit

(* Logical planning succeeds and the gate lets the statement through.      *)
PlanQuery ==
    /\ At("plan") /\ Admitted
    /\ Goto("authorize")
    /\ reader' = "reading"
    /\ UNCHANGED <<query, chan, joined, got, yielded, exhausted, started>>

(* Planning failed or the gate refused: the request fails, nothing streams.*)
Refuse ==
    /\ At("plan")
    /\ Goto("finished")
    /\ reader' = "refused"
    /\ UNCHANGED <<query, chan, joined, got, yielded, exhausted, started>>

------------------------------------------------------------------------------
(* The driver task. *)

\* Mutant: lineage begins before the policy decision.
AuthorizeLate ==
    /\ At("authorize")
    /\ started' \in BOOLEAN
    /\ IF query.verdict = "allow" THEN Goto("lower") ELSE Sending(Error)
    /\ UNCHANGED <<query, chan, joined, reader, got, yielded, exhausted>>

(* Policy first: a denial leaves before any lineage run is begun.          *)
Authorize ==
    /\ At("authorize")
    /\ IF query.verdict = "allow" THEN Goto("lower") ELSE Sending(Error)
    /\ UNCHANGED <<query, chan, joined, reader, got, yielded, exhausted, started>>

(* START is emitted when lineage is wired and the plan reads or writes a   *)
(* dataset; physical planning may fail after it.                           *)
Lower ==
    /\ At("lower")
    /\ \/ Goto("execute")
       \/ Sending(Error)
    /\ started' \in BOOLEAN
    /\ UNCHANGED <<query, chan, joined, reader, got, yielded, exhausted>>

(* The Flight encoder sends the schema before it polls the plan.           *)
Execute ==
    /\ At("execute")
    /\ \/ Sending(Error)
       \/ IF query.surface = "flight" THEN Sending(Schema) ELSE Goto("poll")
    /\ UNCHANGED <<query, chan, joined, reader, got, yielded, exhausted, started>>

(* The plan yields a batch, which encodes or not.                          *)
Yield ==
    /\ At("poll") /\ yielded < RowCap
    /\ yielded' = yielded + 1
    /\ Sending([kind |-> "batch", n |-> yielded']) \/ Sending(Error)
    /\ UNCHANGED <<query, chan, joined, reader, got, exhausted, started>>

PlanFails ==
    /\ At("poll")
    /\ Sending(Error)
    /\ UNCHANGED <<query, chan, joined, reader, got, yielded, exhausted, started>>

(* The plan is done: RunQuery sends the schema alone if it sent no batch.  *)
Exhaust ==
    /\ At("poll")
    /\ exhausted' = TRUE
    /\ IF query.surface = "connect" /\ yielded = 0 THEN Sending(Schema) ELSE Goto("finished")
    /\ UNCHANGED <<query, chan, joined, reader, got, yielded, started>>

\* Mutant: a detached task whose sender never learns that the receiver is gone.
NeverGone == FALSE

ReceiverGone == reader \in {"dropped", "unwound"}

\* Mutant: the error is logged and the driver goes on polling the plan.
SendPastErrors ==
    /\ At("send") /\ ~ReceiverGone /\ Len(chan) < Capacity
    /\ chan' = Append(chan, driver.item)
    /\ Goto(IF exhausted THEN "finished" ELSE "poll")
    /\ UNCHANGED <<query, joined, reader, got, yielded, exhausted, started>>

\* Mutant: an unbounded channel.
SendUnbounded ==
    /\ At("send") /\ ~ReceiverGone
    /\ chan' = Append(chan, driver.item)
    /\ Goto(IF driver.item = Error \/ exhausted THEN "finished" ELSE "poll")
    /\ UNCHANGED <<query, joined, reader, got, yielded, exhausted, started>>

(* tx.send succeeds: the driver stops after an error or the last schema.   *)
Send ==
    /\ At("send") /\ ~ReceiverGone /\ Len(chan) < Capacity
    /\ chan' = Append(chan, driver.item)
    /\ Goto(IF driver.item = Error \/ exhausted THEN "finished" ELSE "poll")
    /\ UNCHANGED <<query, joined, reader, got, yielded, exhausted, started>>

(* tx.send fails: the output is gone and the plan is cancelled.            *)
SendFails ==
    /\ At("send") /\ ReceiverGone
    /\ Goto("finished")
    /\ UNCHANGED <<query, chan, joined, reader, got, yielded, exhausted, started>>

Panic ==
    /\ driver.pc \in {"authorize", "lower", "execute", "poll"}
    /\ Goto("panicked")
    /\ UNCHANGED <<query, chan, joined, reader, got, yielded, exhausted, started>>

(* Dropping the response stream drops the JoinSet, which aborts its task.  *)
Abort ==
    /\ ReceiverGone /\ driver.pc \notin Ended
    /\ Goto("aborted")
    /\ UNCHANGED <<query, chan, joined, reader, got, yielded, exhausted, started>>

(* The task's future, and its sender with it, is dropped before the JoinSet*)
(* learns of the end.                                                      *)
Join ==
    /\ driver.pc \in Ended /\ reader # "refused" /\ ~joined
    /\ joined' = TRUE
    /\ UNCHANGED <<query, driver, chan, reader, got, yielded, exhausted, started>>

------------------------------------------------------------------------------
(* The response stream: select(rx_stream, check_stream), either side first.*)

Receive ==
    /\ reader = "reading" /\ chan # <<>>
    /\ got' = Append(got, Head(chan))
    /\ chan' = Tail(chan)
    /\ UNCHANGED <<query, driver, joined, reader, yielded, exhausted, started>>

(* rx_stream is at its end: nothing buffered and every sender dropped, the *)
(* builder's own by build().                                               *)
RxAtEnd == chan = <<>> /\ driver.pc \in Ended

\* Mutant: a ReceiverStream without check: the response ends with the channel.
CheckAbsent == TRUE

(* check_stream is at its end: the driver is joined and did not panic.     *)
CheckAtEnd == joined /\ driver.pc = "finished"

EndOfStream ==
    /\ reader = "reading" /\ RxAtEnd /\ CheckAtEnd
    /\ reader' = "ended"
    /\ UNCHANGED <<query, driver, chan, joined, got, yielded, exhausted, started>>

(* check resumes the driver's panic; items still buffered go with it.      *)
ResumePanic ==
    /\ reader = "reading" /\ joined /\ driver.pc = "panicked"
    /\ reader' = "unwound"
    /\ chan' = <<>>
    /\ UNCHANGED <<query, driver, joined, got, yielded, exhausted, started>>

(* The client goes away: the receiver and the JoinSet are dropped.         *)
Drop ==
    /\ reader = "reading"
    /\ reader' = "dropped"
    /\ chan' = <<>>
    /\ UNCHANGED <<query, driver, joined, got, yielded, exhausted, started>>

(* The client is done with the response.                                   *)
Over == reader \in {"refused", "ended", "unwound", "dropped"} /\ UNCHANGED streamVars

Drive == \/ PlanQuery \/ Refuse \/ Authorize \/ Lower \/ Execute \/ Yield \/ PlanFails
         \/ Exhaust \/ Send \/ SendFails \/ Panic \/ Abort
Poll  == Receive \/ EndOfStream \/ ResumePanic

StreamNext == Drive \/ Join \/ Poll \/ Drop \/ Over
StreamSpec == StreamInit /\ [][StreamNext]_streamVars

(* Both runtimes run a ready task, the plan answers every poll, and the    *)
(* transport polls the response until the client drops it.                 *)
StreamFairSpec == StreamSpec /\ WF_streamVars(Drive) /\ WF_streamVars(Join) /\ WF_streamVars(Poll)

------------------------------------------------------------------------------
StreamTypeOK ==
    /\ query \in Queries
    /\ driver \in [pc : PCs, item : Items]
    /\ chan \in Seq(Items) /\ got \in Seq(Items)
    /\ joined \in BOOLEAN /\ exhausted \in BOOLEAN /\ started \in BOOLEAN
    /\ reader \in {"waiting", "refused", "reading", "ended", "unwound", "dropped"}
    /\ yielded \in 0..MaxBatches

(* The batch the plan yields as its k-th is the k-th item of the response; *)
(* on Flight the schema goes before it.                                    *)
Lead        == IF query.surface = "flight" THEN 1 ELSE 0
BatchAt(i)  == [kind |-> "batch", n |-> i - Lead]
Flow        == got \o chan
StillRead   == reader \notin {"dropped", "unwound"}

(* Nothing is lost, repeated or reordered between the plan and a client    *)
(* that still reads: every item that was sent is the batch of its place,   *)
(* the schema in its one place, or an error as the very last item, after   *)
(* which the driver does no more (stream.rs:155-209,                       *)
(* query_service.rs:143-183).                                              *)
InOrder ==
    StillRead =>
        \A i \in 1..Len(Flow) :
            \/ Flow[i] = BatchAt(i) /\ i - Lead \in 1..yielded
            \/ Flow[i] = Schema /\ i = 1 /\ (query.surface = "flight" \/ yielded = 0)
            \/ Flow[i] = Error /\ i = Len(Flow) /\ driver.pc \in Ended

(* A response that ends without an error is the whole result: the plan was *)
(* exhausted, every batch it yielded was read, and the client learned the  *)
(* columns even when there was no batch.  A failure or a panic of the      *)
(* driver can never be taken for the end of the result (stream.rs:59-69,   *)
(* query_service.rs:110-111).                                              *)
EndIsWhole ==
    reader = "ended" =>
        /\ got # <<>>
        /\ got[Len(got)] # Error =>
              /\ exhausted
              /\ Len(got) = IF yielded = 0 THEN 1 ELSE yielded + Lead

(* A slow client holds the plan back: the driver is never more than the    *)
(* buffer and the batch in its hand ahead of what was read, and RunQuery   *)
(* never lets more rows through than its maximum (query.rs:99-107).        *)
HeldBack ==
    /\ Len(chan) <= Capacity
    /\ StillRead => yielded <= Len(got) + Capacity + 1
    /\ query.surface = "connect" => yielded <= MaxLimit

(* Policy comes first: for a statement that is not admitted, or that policy*)
(* does not allow, no lineage run is started and the plan yields nothing;  *)
(* all its client may ever read is the error (governed_lineage.rs:110-127).*)
GateBeforeData ==
    query.verdict # "allow" \/ ~Admitted =>
        /\ ~started
        /\ yielded = 0
        /\ \A i \in 1..Len(got) : got[i] = Error

ResponseEnds == reader = "reading" ~> reader # "reading"

DroppedStops == reader = "dropped" ~> driver.pc \in Ended

(* Every response the client keeps reading comes to an end: the last       *)
(* sender is dropped with the driver, and build() kept none of its own.  A *)
(* client that goes away stops the query: its driver ends, whatever the    *)
(* plan still had to yield (stream.rs:66, query_service.rs:168-172).       *)
QueryEnds == ResponseEnds /\ DroppedStops

==============================================================================
