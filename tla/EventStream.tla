----------------------------- MODULE EventStream -----------------------------
(***************************************************************************)
(* The events of one run, from the transactions that append them to the    *)
(* browser tabs that show them.                                            *)
(*                                                                         *)
(* Executors and requests append events under the lock of the run's row;   *)
(* they and the terminal status become visible when their transaction      *)
(* commits, not always in the same one.  A tab opens a stream; its         *)
(* generator polls the table and yields what is newer than the last event  *)
(* it has yielded.  Streams of an ended run stop, connections break, people*)
(* log out, the API process restarts; a tab then opens a new stream from   *)
(* the last event it received.                                             *)
(*                                                                         *)
(* An event is its sequence number.  Notifications only end the wait of a  *)
(* generator before its timeout does, so a wait is no step of its own.     *)
(* All tabs belong to one person: the limit of streams is per identity.    *)
(***************************************************************************)
EXTENDS Naturals, FiniteSets, Sequences, FiniteSetsExt

CONSTANTS
  Writer,      \* executors and requests with a transaction on the run
  Tab,
  Streams,     \* _SSE_MAX_PER_IDENTITY
  None,
  Page,        \* the limit of list_run_events
  MaxEvents,   \* bound: sequence numbers
  MaxFaults    \* bound: lost connections, reloads, restarts and logouts

ASSUME StreamAssumption ==
  /\ None \notin Nat \cup Tab
  /\ Page \in Nat \ {0}
  /\ {Streams, MaxEvents, MaxFaults} \subseteq Nat

VARIABLES
  hosted,   \* settings.is_hosted(): streams are tied to a session
  log,      \* the committed rows of research_run_events
  ended,    \* the committed status of the run is terminal
  tx,       \* the open transaction of each writer
  session,  \* the person's valid session, None after a logout
  slots,    \* _sse_counts of the person
  stream,   \* the generators in the API process
  tab,      \* the EventSource of each tab
  faults

\* As many generators as there are slots.
Stream == 1..Streams

vars == <<hosted, log, ended, tx, session, slots, stream, tab, faults>>

\* events: appended and not committed; ends: it has written a terminal status.
NoTx == [events |-> {}, ends |-> FALSE]
TxRow == [events: SUBSET Nat, ends: BOOLEAN]

\* pc: where the loop is; "opened" is a generator not started yet, "lost" a slot
\* whose generator never will be.  last: last_sequence.  frames: listed, not yielded.
\* token: the session it was opened with.  sawEnd: the status it has read.
NoStream == [pc |-> "free", tab |-> None, token |-> None, last |-> 0,
             frames |-> {}, sawEnd |-> FALSE]
StreamRow == [pc: {"free", "opened", "lost", "ready", "checked", "listed", "sending"},
              tab: Tab \cup {None}, token: Nat \cup {None}, last: Nat,
              frames: SUBSET Nat, sawEnd: BOOLEAN]

\* conn: its open connection.  got: the events it has received since it was
\* loaded; the last of them is lastId.
NewTab == [conn |-> None, got |-> <<>>, open |-> TRUE]
TabRow == [conn: Stream \cup {None}, got: Seq(Nat), open: BOOLEAN]

StreamTypeOK ==
  /\ hosted \in BOOLEAN /\ ended \in BOOLEAN
  /\ log \subseteq Nat
  /\ tx \in [Writer -> TxRow]
  /\ session \in Nat \cup {None}
  /\ slots \in Nat /\ faults \in 0..MaxFaults
  /\ stream \in [Stream -> StreamRow]
  /\ tab \in [Tab -> TabRow]

Init ==
  /\ hosted \in BOOLEAN
  /\ log = {} /\ ended = FALSE
  /\ tx = [w \in Writer |-> NoTx]
  /\ session = 0 /\ slots = 0 /\ faults = 0
  /\ stream = [s \in Stream |-> NoStream]
  /\ tab = [t \in Tab |-> NewTab]

-----------------------------------------------------------------------------
(* Writers.                                                                *)

\* _lock_run_for_write waits for the transaction that has the run's row.
LockFree(w) == \A v \in Writer \ {w} : tx[v] = NoTx

\* coalesce(max(sequence), 0), as the transaction of w sees the table.
LastSequence(w) == Max({0} \cup log \cup tx[w].events)

\* Mutant of AppendEvent: the number comes from a counter, without the lock.
AppendFromCounter(w) ==
  LET next == 1 + Max({0} \cup log \cup UNION {tx[v].events : v \in Writer}) IN
  /\ next <= MaxEvents
  /\ tx' = [tx EXCEPT ![w].events = @ \cup {next}]
  /\ UNCHANGED <<hosted, log, ended, session, slots, stream, tab, faults>>

AppendEvent(w) ==
  /\ LockFree(w)
  /\ LastSequence(w) < MaxEvents
  /\ tx' = [tx EXCEPT ![w].events = @ \cup {LastSequence(w) + 1}]
  /\ UNCHANGED <<hosted, log, ended, session, slots, stream, tab, faults>>

\* update_run_status with a terminal status.  The orchestrator commits it
\* before it appends the last event; the other paths do both in one transaction.
EndRun(w) ==
  /\ LockFree(w) /\ ~ended /\ ~tx[w].ends
  /\ tx' = [tx EXCEPT ![w].ends = TRUE]
  /\ UNCHANGED <<hosted, log, ended, session, slots, stream, tab, faults>>

Commit(w) ==
  /\ tx[w] # NoTx
  /\ log' = log \cup tx[w].events
  /\ ended' = (ended \/ tx[w].ends)
  /\ tx' = [tx EXCEPT ![w] = NoTx]
  /\ UNCHANGED <<hosted, session, slots, stream, tab, faults>>

Rollback(w) ==
  /\ tx[w] # NoTx
  /\ tx' = [tx EXCEPT ![w] = NoTx]
  /\ UNCHANGED <<hosted, log, ended, session, slots, stream, tab, faults>>

-----------------------------------------------------------------------------
(* stream_run_events.                                                      *)

LastId(t) == IF tab[t].got = <<>> THEN 0 ELSE tab[t].got[Len(tab[t].got)]

\* The session a request of the person carries.
Authorized == hosted => session # None

\* The request is authorized, takes a slot and returns a generator.  A refused
\* request changes nothing; the tab tries again.
Connect(t, s) ==
  /\ tab[t].open /\ tab[t].conn = None
  /\ Authorized
  /\ slots < Streams
  /\ stream[s].pc = "free"
  /\ slots' = slots + 1
  /\ stream' = [stream EXCEPT ![s] =
       [NoStream EXCEPT !.pc = "opened", !.tab = t, !.token = session, !.last = LastId(t)]]
  /\ tab' = [tab EXCEPT ![t].conn = s]
  /\ UNCHANGED <<hosted, log, ended, tx, session, faults>>

Connected(s) == stream[s].tab # None /\ tab[stream[s].tab].conn = s

\* The response is sent: its body begins to be read, and the loop is entered.
Start(s) ==
  /\ stream[s].pc = "opened"
  /\ stream' = [stream EXCEPT ![s].pc = "ready"]
  /\ UNCHANGED <<hosted, log, ended, tx, session, slots, tab, faults>>

\* The tab has gone before the body is read.  A generator that was not started
\* has no finally clause to run, so its slot stays taken.
NeverStarted(s) ==
  /\ stream[s].pc = "opened" /\ ~Connected(s)
  /\ stream' = [stream EXCEPT ![s] = [NoStream EXCEPT !.pc = "lost"]]
  /\ UNCHANGED <<hosted, log, ended, tx, session, slots, tab, faults>>

\* The finally clause; the EventSource sees the connection end.
Close(s) ==
  /\ stream' = [stream EXCEPT ![s] = NoStream]
  /\ slots' = slots - 1
  /\ tab' = IF Connected(s) THEN [tab EXCEPT ![stream[s].tab].conn = None] ELSE tab
  /\ UNCHANGED <<hosted, log, ended, tx, session, faults>>

\* Mutant of Refused: the session is looked at when the stream is opened only.
RefusedNever(s) == FALSE

\* The session is gone, or is not the one the stream was opened with.
Refused(s) == hosted /\ stream[s].token # session

\* Top of the loop.  Looking up the owner reads the run's row, and with it the
\* status this iteration will use.
Check(s) ==
  /\ stream[s].pc = "ready" /\ Connected(s) /\ ~Refused(s)
  /\ stream' = [stream EXCEPT ![s].pc = "checked", ![s].sawEnd = hosted /\ ended]
  /\ UNCHANGED <<hosted, log, ended, tx, session, slots, tab, faults>>

Refuse(s) ==
  /\ stream[s].pc = "ready" /\ Connected(s) /\ Refused(s)
  /\ Close(s)

\* Mutant of Cancelled: the slot is given back on the loop's own exits only.
CancelledUnreleased(s) ==
  /\ stream[s].pc \in {"ready", "sending"} /\ ~Connected(s)
  /\ stream' = [stream EXCEPT ![s] = NoStream]
  /\ UNCHANGED <<hosted, log, ended, tx, session, slots, tab, faults>>

\* The generator learns that nobody listens, at the top of its loop or by being
\* cancelled at one of its awaits.
Cancelled(s) ==
  /\ stream[s].pc \in {"ready", "sending"} /\ ~Connected(s)
  /\ Close(s)

\* list_run_events: the first events after the last one, Page at most.
Listed(s) ==
  LET newer == {e \in log : e > stream[s].last} IN
  {e \in newer : Cardinality({f \in newer : f < e}) < Page}

ListEvents(s) ==
  /\ stream[s].pc = "checked"
  /\ stream' = [stream EXCEPT ![s].pc = "listed", ![s].frames = Listed(s),
                              ![s].last = Max({@} \cup Listed(s))]
  /\ UNCHANGED <<hosted, log, ended, tx, session, slots, tab, faults>>

SeesEnd(s) == stream[s].sawEnd \/ (~hosted /\ ended)

\* Mutant of Drained: a terminal status ends the stream whatever was listed.
DrainedOrEnded(s) == stream[s].frames = {} \/ SeesEnd(s)

Drained(s) == stream[s].frames = {}

\* get_run: without the owner check the status is read now.
ReadStatus(s) ==
  /\ stream[s].pc = "listed"
  /\ IF Drained(s) /\ SeesEnd(s)
     THEN Close(s)
     ELSE /\ stream' = [stream EXCEPT ![s].pc = IF stream[s].frames = {} THEN "ready"
                                                ELSE "sending"]
          /\ UNCHANGED <<hosted, log, ended, tx, session, slots, tab, faults>>

\* One frame reaches the tab; after the last one the loop starts again.
Send(s) ==
  LET e == Min(stream[s].frames)
      rest == stream[s].frames \ {e}
  IN
  /\ stream[s].pc = "sending" /\ Connected(s)
  /\ tab' = [tab EXCEPT ![stream[s].tab].got = Append(@, e)]
  /\ stream' = [stream EXCEPT ![s].frames = rest,
                              ![s].pc = IF rest = {} THEN "ready" ELSE "sending"]
  /\ UNCHANGED <<hosted, log, ended, tx, session, slots, faults>>

-----------------------------------------------------------------------------
(* The tabs, the person and the API process.                               *)

Fault == faults < MaxFaults /\ faults' = faults + 1

\* The connection breaks: onerror closes the source.
Disconnect(t) ==
  /\ tab[t].conn # None
  /\ Fault
  /\ tab' = [tab EXCEPT ![t].conn = None]
  /\ UNCHANGED <<hosted, log, ended, tx, session, slots, stream>>

\* The page is loaded anew and replays from the start.
Reload(t) ==
  /\ tab[t].open /\ tab[t].got # <<>>
  /\ Fault
  /\ tab' = [tab EXCEPT ![t] = NewTab]
  /\ UNCHANGED <<hosted, log, ended, tx, session, slots, stream>>

Leave(t) ==
  /\ tab[t].open
  /\ tab' = [tab EXCEPT ![t] = [NewTab EXCEPT !.open = FALSE]]
  /\ UNCHANGED <<hosted, log, ended, tx, session, slots, stream, faults>>

Logout ==
  /\ hosted /\ session # None
  /\ Fault
  /\ session' = None
  /\ UNCHANGED <<hosted, log, ended, tx, slots, stream, tab>>

\* A new session: never the token of an earlier one.
Login ==
  /\ hosted /\ session = None
  /\ session' = faults
  /\ UNCHANGED <<hosted, log, ended, tx, slots, stream, tab, faults>>

\* The API process restarts: generators and counts are in its memory.
Restart ==
  /\ Fault
  /\ stream' = [s \in Stream |-> NoStream]
  /\ slots' = 0
  /\ tab' = [t \in Tab |-> [tab[t] EXCEPT !.conn = None]]
  /\ UNCHANGED <<hosted, log, ended, tx, session>>

-----------------------------------------------------------------------------

StreamStep(s) ==
  \/ Start(s) \/ NeverStarted(s)
  \/ Check(s) \/ Refuse(s) \/ Cancelled(s) \/ ListEvents(s) \/ ReadStatus(s) \/ Send(s)

Next ==
  \/ \E w \in Writer : AppendEvent(w) \/ EndRun(w) \/ Commit(w) \/ Rollback(w)
  \/ \E s \in Stream : StreamStep(s) \/ \E t \in Tab : Connect(t, s)
  \/ \E t \in Tab : Disconnect(t) \/ Reload(t) \/ Leave(t)
  \/ Logout \/ Login \/ Restart

Spec == Init /\ [][Next]_vars

\* The event loop serves every generator, waits end by their timeout, and a
\* tab that keeps trying gets a stream if one is free again and again.  Nothing
\* is assumed of writers, people and faults.
Fairness ==
  /\ \A s \in Stream : WF_vars(StreamStep(s))
  /\ \A t \in Tab : SF_vars(\E s \in Stream : Connect(t, s))

FairSpec == Spec /\ Fairness

-----------------------------------------------------------------------------
(* Properties.                                                             *)

\* However writers, pages, reconnects and rollbacks interleave, a tab has the
\* first events of the run, each once and in order, with none left out.
NoEventSkipped ==
  \A t \in Tab : /\ \A i \in 1..Len(tab[t].got) : tab[t].got[i] = i
                 /\ 1..Len(tab[t].got) \subseteq log

\* _sse_counts is the number of generators alive and of those that were dropped
\* before they were started: whichever way a started one ends, it gives its slot
\* back, and gives it back once.
SlotsCounted == slots = Cardinality({s \in Stream : stream[s].pc # "free"})

\* After a logout no stream of that session stays open.
LogoutEndsStreams ==
  \A s \in Stream :
    LET outdated == /\ hosted /\ stream[s].pc \notin {"free", "lost"}
                    /\ stream[s].token # session
    IN
    outdated ~> ~outdated

\* Every slot of the person was lost: no tab gets a stream until a restart.
LockedOut == \A s \in Stream : stream[s].pc = "lost"

\* Once the run has ended, every committed event reaches every tab that stays,
\* unless the person is locked out: a stream that stopped too early is made up
\* for by the next one, also when slots have been lost.
EndReaches(t, e) ==
  ended /\ e \in log ~>
    \/ e <= Len(tab[t].got) \/ ~tab[t].open
    \/ ~Authorized \/ LockedOut
=============================================================================
