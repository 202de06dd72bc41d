---------------------------- MODULE LambdaClips ----------------------------
(***************************************************************************)
(* The clip processor and the retry service written as Lambdas: a message  *)
(* stands for one highlight, and the handler that has dealt with it sends  *)
(* the message of the next one.  Handlers of one recording keep apart by   *)
(* an advisory lock, the order of the highlights, and the version of the   *)
(* row; the retry service takes none of them.  One recording.              *)
(***************************************************************************)
EXTENDS Naturals, FiniteSets

CONSTANTS
  Presses,    \* highlights of the recording, numbers in the order of their time
  Clips,      \* bound: clips Mux may make
  Calls,      \* slots for handlers in progress
  None,
  MaxLimits,  \* MAX_RATE_LIMIT_RETRIES
  MaxRetries, \* of the retry service
  MaxFaults   \* bound: things that go wrong outside the handlers, limits too

VARIABLES
  row,        \* recording_highlights (order 0: processing_order is NULL)
  usable,     \* the recording has an asset
  queue,      \* the messages
  lock,       \* the recording's advisory lock
  mux,        \* Mux: the clips
  call,
  faults,     \* how many things have gone wrong
  lost,       \* history: clips that no row got, or that were taken from theirs
  broken,     \* history: a step after which the next message may be missing
  crossed     \* history: the retry service turned to a row that another call had read

vars == <<row, usable, queue, lock, mux, call, faults, lost, broken, crossed>>

Passed == {"clip_created", "ready", "permanently_failed", "failed", "rate_limited"}
Terminal == {"clip_created", "ready", "permanently_failed"}
Row == [status : Passed \cup {"queued", "processing", "preparing", "deleted"},
        order : 0 .. Cardinality(Presses), asset : Clips \cup {None},
        retries : 0 .. MaxRetries + Cardinality(Calls), limits : 0 .. MaxLimits]
Message == [h : Presses, order : 1 .. Cardinality(Presses)]

Errors == {"limited", "refused", "failed"}
Call == [pc : {"idle", "turn", "lock", "read", "claim", "post", "record",
               "next", "error", "nextAfter", "retry", "again", "repost",
               "rerecord", "ask", "giveUp"},
         m : Message, read : Row, stale : BOOLEAN,
         err : Errors \cup {None}, clip : Clips \cup {None}]
NoRow == [status |-> "queued", order |-> 0, asset |-> None, retries |-> 0, limits |-> 0]
Idle == [pc |-> "idle", m |-> [h |-> 1, order |-> 1], read |-> NoRow,
         stale |-> FALSE, err |-> None, clip |-> None]

TypeOK ==
  /\ row \in [Presses -> Row]
  /\ usable \in BOOLEAN /\ broken \in BOOLEAN /\ crossed \in BOOLEAN
  /\ queue \subseteq Message
  /\ lock \in Calls \cup {None}
  /\ mux \in [Clips -> {"none", "preparing", "ready", "errored", "gone"}]
  /\ call \in [Calls -> Call]
  /\ lost \subseteq Clips
  /\ faults \in 0 .. MaxFaults

\* The rows wait in order, and the first has its message.
Init ==
  /\ row = [h \in Presses |-> [NoRow EXCEPT !.order = h]]
  /\ usable \in BOOLEAN
  /\ queue = {[h |-> 1, order |-> 1]}
  /\ lock = None
  /\ mux = [k \in Clips |-> "none"]
  /\ call = [c \in Calls |-> Idle]
  /\ faults = 0 /\ lost = {} /\ broken = FALSE /\ crossed = FALSE

-----------------------------------------------------------------------------
Go(c, new) == call' = [call EXCEPT ![c] = new]
At(c, pc) == [call[c] EXCEPT !.pc = pc]
Failing(c, e) == [Idle EXCEPT !.pc = "error", !.m = call[c].m, !.err = e]
Of(c) == call[c].m.h
Fine == UNCHANGED faults
Fault == faults < MaxFaults /\ faults' = faults + 1

\* A row that a transaction has written is locked until it ends.
Held(h) == \E c \in Calls : Of(c) = h /\ call[c].pc \in {"post", "record"}

\* Every write but the retry service's counts the row's version up.
Bumped(h) ==
  [d \in Calls |-> IF call[d].pc = "claim" /\ Of(d) = h
                   THEN [call[d] EXCEPT !.stale = TRUE] ELSE call[d]]
Unlocked(c) == IF lock = c THEN None ELSE lock
Unmade == {k \in Clips : mux[k] = "none"}

Receive(c, m, again) ==
  /\ call[c].pc = "idle" /\ m \in queue
  /\ IF again THEN Fault /\ UNCHANGED queue ELSE Fine /\ queue' = queue \ {m}
  /\ Go(c, [Idle EXCEPT !.pc = "turn", !.m = m])
  /\ UNCHANGED <<row, usable, lock, mux, lost, broken, crossed>>

\* requeue: the message goes back with a delay; if it cannot be sent, that is
\* an error like others.
Requeue(c) ==
  \/ queue' = queue \cup {call[c].m} /\ Go(c, Idle) /\ Fine
  \/ Go(c, Failing(c, "failed")) /\ UNCHANGED queue /\ Fault

\* hasPendingPredecessors: those that failed do not hold up the others.
Predecessors(n) == {h \in Presses : /\ row[h].order \in 1 .. n - 1
                                    /\ row[h].status \notin Passed \cup {"deleted"}}

Turn(c) ==
  /\ call[c].pc = "turn"
  /\ \/ Predecessors(call[c].m.order) # {} /\ Requeue(c)
     \/ /\ Predecessors(call[c].m.order) = {}
        /\ Go(c, At(c, "lock")) /\ UNCHANGED queue /\ Fine
  /\ UNCHANGED <<row, usable, lock, mux, lost, broken, crossed>>

Lock(c) ==
  /\ call[c].pc = "lock"
  /\ \/ lock # None /\ Requeue(c) /\ UNCHANGED lock
     \/ lock = None /\ lock' = c /\ Go(c, At(c, "read")) /\ UNCHANGED queue /\ Fine
  /\ UNCHANGED <<row, usable, mux, lost, broken, crossed>>

\* The row is read; one that is settled or gone is left, and the next one is
\* not sent for.
Skip(c) == Go(c, Idle) /\ lock' = Unlocked(c) /\ broken' = TRUE

Settled(s) == s \in Terminal \cup {"deleted"}

Read(c) ==
  LET r == row[Of(c)] IN
  /\ call[c].pc = "read"
  /\ IF Settled(r.status) THEN Skip(c)
     ELSE /\ Go(c, [At(c, "claim") EXCEPT !.read = r])
          /\ UNCHANGED <<lock, broken>>
  /\ UNCHANGED <<row, usable, queue, mux, faults, lost, crossed>>

\* setStatusProcessing, if the version is the one that was read.
Claim(c) ==
  /\ call[c].pc = "claim" /\ ~Held(Of(c))
  /\ IF call[c].stale \/ row[Of(c)].status = "deleted" THEN Skip(c)
     ELSE Go(c, At(c, "post")) /\ UNCHANGED <<lock, broken>>
  /\ UNCHANGED <<row, usable, queue, mux, faults, lost, crossed>>

\* reorderProcessingOrder: the orders that are left, closed up, by time.
ClosedUp(rows) ==
  [h \in Presses |->
     IF rows[h].order = 0 THEN rows[h]
     ELSE [rows[h] EXCEPT !.order = Cardinality({g \in 1 .. h : rows[g].order # 0})]]
GivenUp(h, status) ==
  ClosedUp([row EXCEPT ![h].status = status, ![h].order = 0])

\* createClipInMux, while the row is held: a clip the row has is asked about; a
\* recording without an asset ends it; or Mux makes a clip, or does not, or
\* its answer is lost.
PostNew(c) ==
  \/ \E k \in Unmade :
       /\ mux' = [mux EXCEPT ![k] = "preparing"]
       /\ \/ /\ Go(c, [At(c, "record") EXCEPT !.clip = k, !.read = NoRow])
             /\ UNCHANGED <<lock, lost>> /\ Fine
          \/ /\ Go(c, Failing(c, "failed")) /\ lock' = Unlocked(c)
             /\ lost' = lost \cup {k} /\ Fault
  \/ \E e \in Errors :
       /\ Go(c, Failing(c, e)) /\ lock' = Unlocked(c)
       /\ IF e = "limited" THEN Fault ELSE Fine
       /\ UNCHANGED <<mux, lost>>

\* Whether a row has a clip.  (The mutant: as its status says.)
ByStatus(r) == r.status = "clip_created"
HasClip(r) == r.asset # None
GoOn(c, h) == call' = [Bumped(h) EXCEPT ![c] = [Idle EXCEPT !.pc = "next", !.m = call[c].m]]

\* checkExistingClip: only a clip that is ready is written down, over the
\* processing that was claimed; a clip Mux has not, or no answer, is an error.
ExistingClip(c, h, k) ==
  /\ UNCHANGED <<mux, lost, broken>> /\ Fine
  /\ \/ /\ mux[k] \in {"preparing", "ready", "errored"}
        /\ row' = [row EXCEPT ![h].status =
                     IF mux[k] = "ready" THEN "ready" ELSE "processing"]
        /\ GoOn(c, h) /\ UNCHANGED lock
     \/ Go(c, Failing(c, "failed")) /\ lock' = Unlocked(c) /\ UNCHANGED row

Post(c) ==
  LET h == Of(c)
      r == call[c].read
  IN /\ call[c].pc = "post"
     /\ CASE HasClip(r) -> ExistingClip(c, h, r.asset)
          [] ~HasClip(r) /\ ~usable ->
                           /\ row' = GivenUp(h, "permanently_failed") /\ broken' = TRUE
                           /\ GoOn(c, h) /\ UNCHANGED <<lock, mux, lost>> /\ Fine
          [] OTHER -> PostNew(c) /\ UNCHANGED <<row, broken>>
     /\ UNCHANGED <<usable, queue, crossed>>

\* The clip is recorded, or the transaction fails and nothing is.
Record(c) ==
  LET h == Of(c) IN
  /\ call[c].pc = "record"
  /\ \/ /\ row' = [row EXCEPT ![h] = [@ EXCEPT !.status = "clip_created",
                                               !.asset = call[c].clip,
                                               !.retries = 0, !.limits = 0]]
        /\ GoOn(c, h) /\ UNCHANGED <<lock, lost>> /\ Fine
     \/ /\ Go(c, Failing(c, "failed")) /\ lock' = Unlocked(c) /\ Fault
        /\ lost' = lost \cup {call[c].clip} /\ UNCHANGED row
  /\ UNCHANGED <<usable, queue, mux, broken, crossed>>

\* enqueueNextHighlight: the first row behind this message's that waits.  (A
\* mutant: the one after it.)
Waiting == {h \in Presses : row[h].status = "queued" /\ row[h].order # 0}
FarBehind(n) == {h \in Waiting : row[h].order > n + 1}
Behind(n) == {h \in Waiting : row[h].order > n}
NextOf(S) == {h \in S : \A g \in S : row[h].order <= row[g].order}
SendNext(c) ==
  queue' = queue \cup {[h |-> h, order |-> row[h].order] :
                        h \in NextOf(Behind(call[c].m.order))}

EnqueueNext(c) ==
  /\ call[c].pc = "next"
  /\ lock' = Unlocked(c)
  /\ \/ SendNext(c) /\ Go(c, Idle) /\ Fine
     \/ Go(c, Failing(c, "failed")) /\ UNCHANGED queue /\ Fault
  /\ UNCHANGED <<row, usable, mux, lost, broken, crossed>>

EnqueueNextAfter(c) ==
  /\ call[c].pc = "nextAfter"
  /\ Go(c, Idle)
  /\ \/ SendNext(c) /\ UNCHANGED broken /\ Fine
     \/ broken' = TRUE /\ UNCHANGED queue /\ Fault
  /\ UNCHANGED <<row, usable, lock, mux, lost, crossed>>

\* A rate limit puts the message back, as long as they are not used up; any
\* other error is not tried again, the refusals of Mux for good.
Limited(h) == [row EXCEPT ![h].status = "rate_limited", ![h].limits = @ + 1]
NotRetried(h, e) == GivenUp(h, IF e = "failed" THEN "failed" ELSE "permanently_failed")

\* handleProcessingError, without the lock, whatever the row says by now.
HandleError(c) ==
  LET h == Of(c)
      r == row[h]
      go == [At(c, "nextAfter") EXCEPT !.err = None]
  IN /\ call[c].pc = "error" /\ ~Held(h)
     /\ CASE r.status = "deleted" ->
               Go(c, go) /\ UNCHANGED <<row, queue, broken>>
          [] r.status # "deleted" /\ call[c].err = "limited" /\ r.limits < MaxLimits ->
               /\ row' = Limited(h)
               /\ queue' = queue \cup {call[c].m}
               /\ call' = [Bumped(h) EXCEPT ![c] = go] /\ UNCHANGED broken
          [] OTHER ->
               /\ row' = NotRetried(h, call[c].err)
               /\ broken' = TRUE /\ UNCHANGED queue
               /\ call' = [Bumped(h) EXCEPT ![c] = go]
     /\ UNCHANGED <<usable, lock, mux, faults, lost, crossed>>

\* The handler stops, or throws: its transaction and its lock go, and the
\* message is seen again.
Crash(c) ==
  /\ call[c].pc # "idle" /\ Fault
  /\ Go(c, Idle) /\ lock' = Unlocked(c)
  /\ queue' = IF call[c].pc \in {"retry", "again", "repost", "rerecord", "ask",
                                     "giveUp"} THEN queue
              ELSE queue \cup {call[c].m}
  /\ lost' = lost \cup ({call[c].clip} \ {None})
  /\ UNCHANGED <<row, usable, mux, broken, crossed>>

-----------------------------------------------------------------------------
(* The retry service, given a row that its caller has read.                *)

Begin(c, h, pc) ==
  /\ call[c].pc = "idle"
  /\ pc \in {"retry", "giveUp"} => row[h].status = "failed"
  /\ pc = "giveUp" => row[h].retries >= MaxRetries
  /\ pc = "ask" => row[h].status = "preparing" /\ row[h].asset # None
  /\ Go(c, [Idle EXCEPT !.pc = pc, !.m.h = h, !.read = row[h]])
  /\ UNCHANGED <<row, usable, queue, lock, mux, faults, lost, broken, crossed>>

\* getRecordingHighlight finds the row.
There(h) == row[h].status # "deleted"

\* Another call has read the row and is still to write it.
InWork(c, h) ==
  \E d \in Calls \ {c} : /\ Of(d) = h
                         /\ call[d].pc \in {"claim", "post", "record", "retry", "again",
                                          "repost", "rerecord"}
Crosses(c, h) == crossed' = (crossed \/ InWork(c, h) \/ row[h] # call[c].read)

\* updateHighlightForRetry: the row forgets its clip.
Forgetful(r, n) == [r EXCEPT !.status = "preparing", !.asset = None, !.retries = n]

\* processFailedHighlight, of the row that was read.
Retry(c) ==
  LET h == Of(c)
      n == call[c].read.retries
  IN /\ call[c].pc = "retry" /\ ~Held(h)
     /\ IF n >= MaxRetries \/ row[h].status = "deleted"
        THEN Go(c, Idle) /\ UNCHANGED <<row, lost, crossed>>
        ELSE /\ row' = [row EXCEPT ![h] = Forgetful(@, n + 1)]
             /\ lost' = lost \cup ({call[c].read.asset} \ {None})
             /\ Go(c, [At(c, "again") EXCEPT !.read = Forgetful(row[h], n + 1)])
             /\ Crosses(c, h)
     /\ UNCHANGED <<usable, queue, lock, mux, faults, broken>>

\* markHighlightAsPermanentlyFailed, for who has read that the retries are used
\* up.
GiveUp(c) ==
  LET h == Of(c) IN
  /\ call[c].pc = "giveUp" /\ ~Held(h)
  /\ row' = IF row[h].status = "deleted" THEN row
            ELSE [row EXCEPT ![h].status = "permanently_failed"]
  /\ Go(c, Idle) /\ Crosses(c, h)
  /\ UNCHANGED <<usable, queue, lock, mux, faults, lost, broken>>

\* checkMuxAssetStatus: what Mux says of a clip, if it answers.
Heard(k) == {mux[k], "error"}

\* createVideoClip reads the row again: one that has a clip by now is asked
\* about (checkAndUpdateExistingClip).
Told(r, s) ==
  CASE s = "ready" -> [r EXCEPT !.status = "ready"]
    [] s = "errored" -> [r EXCEPT !.status = "failed"]
    [] s = "gone" -> [r EXCEPT !.status = "failed", !.asset = None]
    [] OTHER -> r

\* The recording must have its asset and, as it has here, a start, and the
\* highlight its moment.
Again(c) ==
  LET h == Of(c)
      r == row[h]
  IN /\ call[c].pc = "again" /\ ~Held(h)
     /\ IF There(h) /\ ~HasClip(r) /\ usable
        THEN Go(c, [At(c, "repost") EXCEPT !.read = r]) /\ UNCHANGED row
        ELSE /\ Go(c, Idle)
             /\ \/ HasClip(r) /\ \E s \in Heard(r.asset) :
                                   row' = [row EXCEPT ![h] = Told(r, s)]
                \/ ~HasClip(r) /\ UNCHANGED row
     /\ Crosses(c, h)
     /\ UNCHANGED <<usable, queue, lock, mux, faults, lost, broken>>

\* createMuxClip: Mux makes the clips of S.
CreateMuxClip(S) == mux' = [k \in Clips |-> IF k \in S THEN "preparing" ELSE mux[k]]

\* The clip is asked for; if it fails, handleFailedClipCreation counts the
\* retry once more, from the row that was read.
Repost(c) ==
  LET h == Of(c) IN
  /\ call[c].pc = "repost"
  /\ \/ \E k \in Unmade :
          /\ CreateMuxClip({k})
          /\ Go(c, [At(c, "rerecord") EXCEPT !.clip = k])
          /\ UNCHANGED <<row, lost, crossed>> /\ Fine
     \/ /\ ~Held(h)
        /\ \E S \in {{}} \cup {{k} : k \in Unmade} :
             /\ CreateMuxClip(S)
             /\ lost' = lost \cup S
             /\ IF S = {} THEN Fine ELSE Fault
        /\ row' = IF row[h].status = "deleted" THEN row
                  ELSE [row EXCEPT ![h] = [@ EXCEPT !.status = "failed", !.asset = None,
                                            !.retries = call[c].read.retries + 1]]
        /\ Go(c, Idle) /\ Crosses(c, h)
  /\ UNCHANGED <<usable, queue, lock, broken>>

Rerecord(c) ==
  LET h == Of(c)
      there == There(h)
  IN /\ call[c].pc = "rerecord" /\ ~Held(h)
     /\ row' = IF there THEN [row EXCEPT ![h] = [@ EXCEPT !.status = "preparing",
                                                           !.retries = 0,
                                                           !.asset = call[c].clip]]
               ELSE row
     /\ lost' = IF there THEN lost ELSE lost \cup {call[c].clip}
     /\ Go(c, Idle) /\ Crosses(c, h)
     /\ UNCHANGED <<usable, queue, lock, mux, faults, broken>>

\* markHighlightAsReady, markHighlightAsFailed, skipStillPreparingHighlight.
Marked(r, s) ==
  CASE s = "ready" -> [r EXCEPT !.status = "ready"]
    [] s = "errored" -> [r EXCEPT !.status = "failed"]
    [] OTHER -> r

\* processPreparingHighlight: the row is told what became of the clip that was
\* read; if Mux has lost it, or does not answer, the call ends.
Ask(c) ==
  LET h == Of(c) IN
  /\ call[c].pc = "ask" /\ ~Held(h)
  /\ \E s \in Heard(call[c].read.asset) :
       row' = IF There(h) THEN [row EXCEPT ![h] = Marked(@, s)] ELSE row
  /\ Go(c, Idle)
  /\ UNCHANGED <<usable, queue, lock, mux, faults, lost, broken, crossed>>

-----------------------------------------------------------------------------
(* Mux, and the rest of the system.                                        *)

Settle(k, s) ==
  /\ mux[k] = "preparing" /\ Fine
  /\ mux' = [mux EXCEPT ![k] = s]
  /\ UNCHANGED <<row, usable, queue, lock, call, lost, broken, crossed>>

Vanish(k) ==
  /\ mux[k] = "ready" /\ Fault
  /\ mux' = [mux EXCEPT ![k] = "gone"]
  /\ UNCHANGED <<row, usable, queue, lock, call, lost, broken, crossed>>

\* The highlight is deleted, its clip with it.
Delete(h) ==
  /\ row[h].status # "deleted" /\ ~Held(h) /\ Fault
  /\ row' = [row EXCEPT ![h] = [NoRow EXCEPT !.status = "deleted"]]
  /\ lost' = lost \cup ({row[h].asset} \ {None})
  /\ broken' = TRUE
  /\ UNCHANGED <<usable, queue, lock, mux, call, crossed>>

CallStep(c) ==
  \/ \E m \in queue, again \in BOOLEAN : Receive(c, m, again)
  \/ Turn(c) \/ Lock(c) \/ Read(c) \/ Claim(c) \/ Post(c) \/ Record(c)
  \/ EnqueueNext(c) \/ EnqueueNextAfter(c) \/ HandleError(c) \/ Crash(c)
  \/ \E h \in Presses : Begin(c, h, "retry") \/ Begin(c, h, "ask")
                          \/ Begin(c, h, "giveUp")
  \/ Retry(c) \/ Again(c) \/ Repost(c) \/ Rerecord(c) \/ Ask(c)
  \/ GiveUp(c)

Next ==
  \/ \E c \in Calls : CallStep(c)
  \/ \E k \in Clips : Vanish(k) \/ \E s \in {"ready", "errored"} : Settle(k, s)
  \/ \E h \in Presses : Delete(h)

-----------------------------------------------------------------------------
(* Properties.                                                             *)

\* Bound: behaviours of which neither property says anything more are left.
Telling == ~(broken /\ crossed)

\* "ALWAYS enqueue next highlight": while highlights wait, there is a message,
\* sent or being handled, for the first of them or one before it; unless a
\* highlight was given up (the orders close up under the message that is being
\* handled), or was found settled or deleted, or the message could not be sent.
ChainGoesOn ==
  (~broken /\ Waiting # {}) =>
    \E h \in NextOf(Waiting) :
      \/ \E m \in queue : m.order <= row[h].order
      \/ \E c \in Calls : /\ call[c].pc \in {"turn", "lock", "read", "claim", "post",
                                            "record", "next", "error", "nextAfter"}
                          /\ call[c].m.order <= row[h].order

Attached(k) == \E h \in Presses : row[h].asset = k
InHand(k) == \E c \in Calls : call[c].clip = k

\* A clip that Mux was made to produce, and still has, is on a row, or the
\* handler that made it is about to record it there; unless the answer or the
\* transaction was lost, the retry service took it from a row that said it had
\* failed, or the retry service and another call were at the row together (its
\* writes leave the version alone).
ClipsKept ==
  ~crossed => \A k \in Clips : mux[k] \in {"preparing", "ready"} =>
                Attached(k) \/ InHand(k) \/ k \in lost
=============================================================================
