------------------------ MODULE CourtServicesProofs -------------------------
(***************************************************************************)
(* The services of the courts, proved for every number of calls, sessions, *)
(* streams, users, places and clips: the Pis, the live recordings, the     *)
(* tournaments, the venues, the live streams, and the export of the clips  *)
(* filmed there.  A behaviour of MCServices is one service's, so that each *)
(* theorem is about its service's Init and Next; the invariants that carry *)
(* them stand beside the properties in the services' modules.              *)
(***************************************************************************)
EXTENDS MCServices, FiniteSetTheorems, TLAPS

\* A set whose members are all one has one at most.
LEMMA AtMostOne ==
  ASSUME NEW members, \A s, t \in members : s = t
  PROVE  Cardinality(members) <= 1
<1>1. CASE members = {}
  <2>1. Cardinality(members) = 0
    BY <1>1, FS_EmptySet
  <2> QED BY <2>1
<1>2. CASE members # {}
  <2> PICK s \in members : TRUE
    BY <1>2
  <2>1. members = {s}
    OBVIOUS
  <2>2. Cardinality(members) = 1
    BY <2>1, FS_Singleton
  <2> QED BY <2>2
<1> QED BY <1>1, <1>2

-----------------------------------------------------------------------------
(* The courts' Raspberry Pis: servers, live, told, call, crossed and       *)
(* crowded are v1 to v6.                                                   *)

PisInv == P!TypeOK /\ P!Remembered /\ P!CommandsTold

LEMMA PisBegin == P!Init => PisInv
<1> P!Idle \in P!Call /\ P!Idle.pc = "idle"
  BY DEF P!Call, P!Idle
<1>1. P!Init => P!TypeOK
  <2> SUFFICES ASSUME P!Init PROVE P!TypeOK
    OBVIOUS
  <2>1. v1 \in P!Servers /\ v2 \in BOOLEAN /\ v5 \in BOOLEAN /\ v6 \in BOOLEAN
    BY DEF P!Init, P!Servers
  <2>2. v3 \in [op : P!Ops \cup {None}, answer : P!Answers]
    BY DEF P!Init, P!Answers
  <2>3. v4 \in [CallsOf -> P!Call] /\ \A c \in CallsOf : v4[c].pc = "idle"
    BY DEF P!Init
  <2> QED BY <2>1, <2>2, <2>3 DEF P!TypeOK
<1>2. P!Init => P!Remembered
  BY DEF P!Init, P!Remembered, P!ServersRestored
<1>3. P!Init => P!CommandsTold
  BY DEF P!Init, P!CommandsTold
<1> QED BY <1>1, <1>2, <1>3 DEF PisInv

LEMMA PisCallGoes ==
  ASSUME PisInv, NEW c \in CallsOf, NEW new \in P!Call, P!Go(c, new)
  PROVE  v4' \in [CallsOf -> P!Call] /\ v4'[c] = new
         /\ \A d \in CallsOf \ {c} : v4'[d] = v4[d]
BY DEF PisInv, P!TypeOK, P!Go

LEMMA PisBegins ==
  ASSUME PisInv, NEW c \in CallsOf, NEW op \in P!Ops, P!Begin(c, op)
  PROVE  PisInv'
<1> PICK new \in P!Call : P!Go(c, new) /\ new.pc \in {"send", "lookup"}
                      /\ new.op \in P!Ops
  <2> DEFINE new == [P!Idle EXCEPT !.pc = IF op = "record" THEN "send" ELSE "lookup",
                                   !.op = op]
  <2>1. new.pc \in {"send", "lookup"} /\ new.op = op /\ new \in P!Call
    BY DEF P!Call, P!Idle
  <2> QED BY <2>1 DEF P!Begin
<1>1. /\ v4' \in [CallsOf -> P!Call] /\ v4'[c] = new
      /\ \A d \in CallsOf \ {c} : v4'[d] = v4[d]
  BY PisCallGoes
<1>2. P!TypeOK'
  BY <1>1 DEF PisInv, P!TypeOK, P!Begin
<1>3. P!Remembered'
  BY <1>1 DEF PisInv, P!Remembered, P!ServersRestored, P!Begin
<1>4. P!CommandsTold'
  BY DEF PisInv, P!CommandsTold, P!Begin
<1> QED BY <1>2, <1>3, <1>4 DEF PisInv

LEMMA PisFound ==
  ASSUME PisInv, NEW c \in CallsOf, P!Found(c)
  PROVE  PisInv'
<1> PICK new \in P!Call : P!Go(c, new) /\ new.pc = "send" /\ new.op \in P!Ops
  BY DEF PisInv, P!TypeOK, P!Found, P!Call, P!Servers, P!Ops
<1>1. /\ v4' \in [CallsOf -> P!Call] /\ v4'[c] = new
      /\ \A d \in CallsOf \ {c} : v4'[d] = v4[d]
  BY PisCallGoes
<1>2. P!TypeOK'
  BY <1>1 DEF PisInv, P!TypeOK, P!Found
<1>3. P!Remembered'
  BY <1>1 DEF PisInv, P!Remembered, P!ServersRestored, P!Found
<1>4. P!CommandsTold'
  BY DEF PisInv, P!CommandsTold, P!Found
<1> QED BY <1>2, <1>3, <1>4 DEF PisInv

LEMMA PisGoPublic ==
  ASSUME PisInv, NEW c \in CallsOf, P!GoPublic(c)
  PROVE  PisInv'
<1> PICK new \in P!Call : P!Go(c, new) /\ new.pc = "retry" /\ new.prior = v1
                      /\ new.op \in P!Ops
  <2> DEFINE new == [v4[c] EXCEPT !.pc = "retry", !.prior = v1]
  <2>1. v4[c] \in P!Call /\ v1 \in P!Servers /\ v4[c].op \in P!Ops
    BY DEF PisInv, P!TypeOK, P!GoPublic
  <2>2. new \in P!Call /\ new.pc = "retry" /\ new.prior = v1 /\ new.op = v4[c].op
    BY <2>1 DEF P!Call
  <2> QED BY <2>1, <2>2 DEF P!GoPublic
<1>1. /\ v4' \in [CallsOf -> P!Call] /\ v4'[c] = new
      /\ \A d \in CallsOf \ {c} : v4'[d] = v4[d]
  BY PisCallGoes
<1>2. P!TypeOK'
  BY <1>1 DEF PisInv, P!TypeOK, P!GoPublic, P!Servers
<1>3. ASSUME ~v5'
      PROVE  ~v5 /\ v1 = "own" /\ \A d \in CallsOf : v4[d].pc # "retry"
  BY <1>3 DEF PisInv, P!Remembered, P!ServersRestored, P!GoPublic, P!Others
<1>4. P!Remembered'
  BY <1>1, <1>3 DEF P!Remembered, P!ServersRestored
<1>5. P!CommandsTold'
  BY DEF PisInv, P!CommandsTold, P!GoPublic
<1> QED BY <1>2, <1>4, <1>5 DEF PisInv

LEMMA PisRetried ==
  ASSUME PisInv, NEW c \in CallsOf, P!Retried(c)
  PROVE  PisInv'
<1> PICK new \in P!Call : P!Go(c, new) /\ new.pc = "send" /\ new.op \in P!Ops
  <2> DEFINE new == [v4[c] EXCEPT !.pc = "send", !.prior = None]
  <2>1. v4[c] \in P!Call /\ v4[c].op \in P!Ops
    BY DEF PisInv, P!TypeOK, P!Retried
  <2>2. new \in P!Call /\ new.pc = "send" /\ new.op = v4[c].op
    BY <2>1 DEF P!Call
  <2> QED BY <2>1, <2>2 DEF P!Retried
<1>1. /\ v4' \in [CallsOf -> P!Call] /\ v4'[c] = new
      /\ \A d \in CallsOf \ {c} : v4'[d] = v4[d]
  BY PisCallGoes
<1>2. v1' = v4[c].prior /\ v4[c].pc = "retry"
  BY DEF P!Retried, P!PutBack
<1>3. v1' \in P!Servers
  BY <1>2 DEF PisInv, P!TypeOK
<1>4. P!TypeOK'
  BY <1>1, <1>3 DEF PisInv, P!TypeOK, P!Retried
<1>5. P!Remembered'
  BY <1>1, <1>2 DEF PisInv, P!Remembered, P!ServersRestored, P!Retried
<1>6. P!CommandsTold'
  BY DEF PisInv, P!CommandsTold, P!Retried
<1> QED BY <1>4, <1>5, <1>6 DEF PisInv

LEMMA PisSend ==
  ASSUME PisInv, NEW c \in CallsOf, P!Send(c)
  PROVE  PisInv'
<1>0. P!Idle \in P!Call /\ P!Idle.pc = "idle" /\ P!Go(c, P!Idle)
  BY DEF P!Call, P!Idle, P!Send
<1>1. /\ v4' \in [CallsOf -> P!Call] /\ v4'[c] = P!Idle
      /\ \A d \in CallsOf \ {c} : v4'[d] = v4[d]
  BY <1>0, PisCallGoes
<1>2. P!Remembered'
  BY <1>0, <1>1 DEF PisInv, P!Remembered, P!ServersRestored, P!Send
<1>3. PICK r \in P!Says(v4[c].op) :
        /\ v2' \in P!Then(v4[c].op, r)
        /\ v3' = [op |-> v4[c].op, answer |-> P!Answered(v4[c].op, r)]
  BY DEF P!Send
<1>4. v2 \in BOOLEAN /\ v4[c].op \in P!Ops
  BY DEF PisInv, P!TypeOK, P!Send
<1>5. r \in P!Replies /\ v2' \in BOOLEAN
  BY <1>3, <1>4 DEF P!Says, P!Then, P!Replies
<1>6. P!Answered(v4[c].op, r) \in P!Answers
  BY <1>4, <1>5 DEF P!Answered, P!Ops, P!Commands, P!Answers, P!Replies, P!Health,
                    P!Status, P!Extract, P!Record, P!StartLive, P!StopLive
<1>7. P!TypeOK'
  BY <1>0, <1>1, <1>3, <1>4, <1>5, <1>6 DEF PisInv, P!TypeOK, P!Send
<1>8. P!CommandsTold'
  BY <1>3, <1>4, <1>5 DEF P!CommandsTold, P!Commands, P!Says, P!Then, P!Answered,
                          P!StartLive, P!StopLive
<1> QED BY <1>2, <1>7, <1>8 DEF PisInv

LEMMA PisStep == PisInv /\ P!Next => PisInv'
BY PisBegins, PisFound, PisGoPublic, PisRetried, PisSend DEF P!Next

LEMMA PisAnswer == PisInv => P!ServersRestored /\ P!CommandsTold
<1> SUFFICES ASSUME PisInv PROVE P!ServersRestored
  BY DEF PisInv
<1> QED BY DEF PisInv, P!Remembered, P!ServersRestored

\* The name servers of the process are its own again whenever no lookup is at its
\* second try (resolvePiHostname puts back what it replaced), unless two lookups
\* were at it at once; and what a command to start or stop a court's stream was
\* answered is so at the Pi (startLiveStream, stopLiveStream).
THEOREM CourtsTold == Spec => []CourtsAnswer
<1> DEFINE Inv == which = "pis" => PisInv
<1>1. Init => Inv
  BY PisBegin DEF Init
<1>2. Inv /\ [Next]_vars => Inv'
  <2> SUFFICES ASSUME Inv, [Next]_vars, which' = "pis" PROVE PisInv'
    OBVIOUS
  <2>1. CASE UNCHANGED vars
    BY <2>1 DEF vars, PisInv, P!TypeOK, P!Remembered, P!ServersRestored,
                P!CommandsTold
  <2>2. CASE Next
    <3>1. which = "pis" /\ P!Next
      BY <2>2 DEF Next
    <3> QED BY <3>1, PisStep
  <2> QED BY <2>1, <2>2
<1>3. Inv => CourtsAnswer
  BY PisAnswer DEF CourtsAnswer
<1> QED BY <1>1, <1>2, <1>3, PTL DEF Spec

-----------------------------------------------------------------------------
(* The live recording: row, age, planned, pi, stopping, call, together,    *)
(* doubled, faulty and done are v1 to v10.                                 *)

LiveCall == [pc : {"idle", "abandon", "begin", "insert", "save", "background"},
             session : UsersOf \cup {None}, tries : Int, auto : BOOLEAN]

LiveTyped ==
  /\ v1 \in [UsersOf -> {"none", "in_progress", "interrupted", "processing",
                         "completed", "failed"}]
  /\ v4 \in [UsersOf -> {"none", "recording", "stopped"}]
  /\ v6 \in [CallsOf -> LiveCall]
  /\ \A c \in CallsOf : c \in L!Holders => v6[c].session \in UsersOf
  /\ v8 \subseteq UsersOf /\ v10 \subseteq UsersOf

LiveInv ==
  LiveTyped /\ L!Begun /\ L!OfOne /\ L!OneStart /\ L!InSomeHand /\ L!CompletedStays

LEMMA LiveIdle == L!Idle \in LiveCall /\ L!Idle.pc = "idle" /\ L!Idle.session = None
BY DEF LiveCall, L!Idle

LEMMA LiveBegin == L!Init => LiveInv
<1> USE LiveIdle
<1> SUFFICES ASSUME L!Init PROVE LiveInv
  OBVIOUS
<1>1. \A c \in CallsOf : v6[c] = L!Idle
  BY DEF L!Init
<1>2. LiveTyped
  BY <1>1 DEF L!Init, LiveTyped, L!Holders
<1>3. L!Begun /\ L!OfOne
  BY <1>1 DEF L!Init, L!Begun, L!OfOne, L!Holders
<1>4. L!OneStart
  BY <1>1 DEF L!Init, L!OneStart, L!Live, L!InProgress
<1>5. L!InSomeHand /\ L!CompletedStays
  BY <1>1 DEF L!Init, L!InSomeHand, L!CompletedStays
<1> QED BY <1>2, <1>3, <1>4, <1>5 DEF LiveInv

-----------------------------------------------------------------------------
(* A step of one call.                                                     *)

LEMMA LiveGoes ==
  ASSUME LiveInv, NEW c \in CallsOf, NEW new \in LiveCall, L!Go(c, new),
         new.pc \in {"insert", "abandon", "save", "background"} => new.session \in UsersOf,
         v1' \in [UsersOf -> {"none", "in_progress", "interrupted", "processing",
                              "completed", "failed"}],
         v4' \in [UsersOf -> {"none", "recording", "stopped"}],
         v8' \subseteq UsersOf, v10' \subseteq UsersOf
  PROVE  /\ LiveTyped'
         /\ v6'[c] = new /\ \A d \in CallsOf \ {c} : v6'[d] = v6[d]
BY DEF LiveInv, LiveTyped, L!Go, L!Holders

\* Who reads a row in progress is alone with it, or the session counts as doubled.
LEMMA LiveReads ==
  ASSUME LiveInv, NEW c \in CallsOf, NEW s \in UsersOf, v1[s] = "in_progress",
         L!Reads(c, s)
  PROVE  /\ v8 \subseteq v8' /\ v8' \subseteq v8 \cup {s}
         /\ s \notin v8' => \A d \in L!Holders \ {c} : v6[d].session # s
<1>1. v8 \subseteq v8' /\ v8' \subseteq v8 \cup {s}
  BY DEF L!Reads
<1>2. ASSUME s \notin v8', NEW d \in L!Holders \ {c} PROVE v6[d].session # s
  <2>1. v6[d].pc \in {"abandon", "save"} => v6[d].session # s
    BY <1>2 DEF L!Reads, L!Holders
  <2>2. v6[d].pc = "insert" => v6[d].session # s
    BY DEF LiveInv, L!Begun, L!Holders
  <2>3. v6[d].pc = "background" => v6[d].session # s
    BY <1>1, <1>2 DEF LiveInv, L!OfOne
  <2> QED BY <2>1, <2>2, <2>3 DEF L!Holders
<1> QED BY <1>1, <1>2

\* A start begins: no row is read, or the one to be abandoned.
LEMMA LiveStart ==
  ASSUME LiveInv, NEW c \in CallsOf, NEW new \in LiveCall, L!Go(c, new),
         v6[c].pc = "idle", L!Starts(c), UNCHANGED <<v1, v2, v3, v4, v5, v9, v10>>,
         \/ new.pc = "begin" /\ L!Live = {} /\ v8' = v8
         \/ new.pc = "abandon" /\ new.session \in L!Live /\ L!Reads(c, new.session)
  PROVE  LiveInv'
<1>0. L!Live \subseteq UsersOf /\ L!Live' = L!Live
  BY DEF L!Live, L!InProgress
<1>1. /\ v8 \subseteq v8' /\ v8' \subseteq v8 \cup {new.session} /\ v8' \subseteq UsersOf
      /\ new.pc = "abandon" /\ new.session \notin v8' =>
           \A d \in L!Holders \ {c} : v6[d].session # new.session
  BY <1>0, LiveReads DEF LiveInv, LiveTyped, L!Live, L!InProgress
<1>2. LiveTyped' /\ v6'[c] = new /\ \A d \in CallsOf \ {c} : v6'[d] = v6[d]
  BY <1>0, <1>1, LiveGoes DEF LiveInv, LiveTyped
<1>3. \A s \in L!Live : v1[s] = "in_progress"
  BY DEF L!Live, L!InProgress
<1>4. L!Begun'
  BY <1>1, <1>2, <1>3 DEF LiveInv, L!Begun
<1>5. L!OfOne'
  <2>1. L!Holders' \subseteq L!Holders \cup {c} /\ (c \in L!Holders' => new.pc = "abandon")
    BY <1>2 DEF L!Holders
  <2> QED BY <1>1, <1>2, <1>3, <2>1 DEF LiveInv, L!OfOne, L!Holders, L!InProgress
<1>6. ASSUME ~v7'
      PROVE  ~v7 /\ \A d \in CallsOf \ {c} : v6[d].pc \notin {"abandon", "begin", "insert"}
  BY <1>6 DEF L!Starts
<1>7. L!OneStart'
  BY <1>0, <1>2, <1>6 DEF LiveInv, L!OneStart
<1>8. L!InSomeHand' /\ L!CompletedStays'
  <2>1. \A d \in CallsOf : v6[d].pc \in {"insert", "background"} => v6'[d] = v6[d]
    BY <1>2
  <2> QED BY <1>1, <2>1 DEF LiveInv, L!InSomeHand, L!CompletedStays, L!InProgress
<1> QED BY <1>2, <1>4, <1>5, <1>7, <1>8 DEF LiveInv

LEMMA LiveStopRead ==
  ASSUME LiveInv, NEW c \in CallsOf, NEW s \in UsersOf, NEW auto \in BOOLEAN,
         L!StopRead(c, s, auto)
  PROVE  LiveInv'
<1> DEFINE new == [L!Idle EXCEPT !.pc = "save", !.session = s, !.auto = auto]
<1>1. new \in LiveCall /\ new.pc = "save" /\ new.session = s
  BY LiveIdle DEF LiveCall
<1>2. L!Go(c, new) /\ v1[s] = "in_progress" /\ L!Reads(c, s)
      /\ UNCHANGED <<v1, v2, v3, v4, v5, v7, v9, v10>> /\ v6[c].pc = "idle"
  BY DEF L!StopRead, L!Stoppable, L!InProgress
<1> HIDE DEF new
<1>3. /\ v8 \subseteq v8' /\ v8' \subseteq v8 \cup {s} /\ v8' \subseteq UsersOf
      /\ s \notin v8' => \A d \in L!Holders \ {c} : v6[d].session # s
  BY <1>2, LiveReads DEF LiveInv, LiveTyped
<1>4. LiveTyped' /\ v6'[c] = new /\ \A d \in CallsOf \ {c} : v6'[d] = v6[d]
  BY <1>1, <1>2, <1>3, LiveGoes DEF LiveInv, LiveTyped
<1>5. L!Begun'
  BY <1>1, <1>2, <1>3, <1>4 DEF LiveInv, L!Begun
<1>6. L!OfOne'
  <2>1. L!Holders' \subseteq L!Holders \cup {c}
    BY <1>4 DEF L!Holders
  <2> QED BY <1>1, <1>2, <1>3, <1>4, <2>1 DEF LiveInv, L!OfOne, L!Holders, L!InProgress
<1>7. L!OneStart'
  BY <1>1, <1>2, <1>4 DEF LiveInv, L!OneStart, L!Live, L!InProgress
<1>8. L!InSomeHand' /\ L!CompletedStays'
  <2>1. \A d \in CallsOf : v6[d].pc \in {"insert", "background"} => v6'[d] = v6[d]
    BY <1>2, <1>4
  <2> QED BY <1>2, <1>3, <2>1 DEF LiveInv, L!InSomeHand, L!CompletedStays, L!InProgress
<1> QED BY <1>4, <1>5, <1>6, <1>7, <1>8 DEF LiveInv

LEMMA LiveAsk ==
  [L!Idle EXCEPT !.pc = "begin", !.tries = Tries] \in LiveCall
<1>1. Tries \in Int
  BY ServicesAssumption
<1> QED BY <1>1 DEF LiveCall, L!Idle

LEMMA LiveAbandon ==
  ASSUME LiveInv, NEW c \in CallsOf, L!Abandon(c)
  PROVE  LiveInv'
<1> DEFINE new == [L!Idle EXCEPT !.pc = "begin", !.tries = Tries]
<1>1. new \in LiveCall /\ new.pc = "begin"
  BY LiveAsk, LiveIdle DEF LiveCall
<1> PICK s \in UsersOf : s = v6[c].session
  BY DEF LiveInv, LiveTyped, L!Abandon, L!Holders
<1>2. /\ L!Go(c, new) /\ v6[c].pc = "abandon" /\ UNCHANGED <<v2, v3, v4, v7, v8, v9, v10>>
      /\ v1' = [v1 EXCEPT ![s] = "interrupted"] /\ v5' = v5 \cup {s}
  BY DEF L!Abandon, L!Ask, L!ToStop, L!history
<1> HIDE DEF new
<1>3. LiveTyped' /\ v6'[c] = new /\ \A d \in CallsOf \ {c} : v6'[d] = v6[d]
  BY <1>1, <1>2, LiveGoes DEF LiveInv, LiveTyped
<1>4. v1'[s] = "interrupted" /\ \A t \in UsersOf \ {s} : v1'[t] = v1[t]
  BY <1>2 DEF LiveInv, LiveTyped
<1>5. s \notin v8 => v1[s] = "in_progress" /\ \A d \in L!Holders \ {c} : v6[d].session # s
  BY <1>2 DEF LiveInv, L!OfOne, L!Holders, L!InProgress
<1>6. v1[s] # "none"
  BY <1>2, <1>5 DEF LiveInv, L!Begun
<1>7. L!Begun'
  BY <1>1, <1>2, <1>3, <1>4, <1>6 DEF LiveInv, L!Begun
<1>8. L!OfOne'
  <2>1. L!Holders' = L!Holders \ {c}
    BY <1>1, <1>3 DEF L!Holders
  <2> QED BY <1>2, <1>3, <1>4, <1>5, <2>1
          DEF LiveInv, LiveTyped, L!OfOne, L!Holders, L!InProgress
<1>9. L!OneStart'
  <2>1. L!Live' = L!Live \ {s}
    BY <1>4 DEF L!Live, L!InProgress
  <2> QED BY <1>1, <1>2, <1>3, <2>1 DEF LiveInv, L!OneStart
<1>10. L!InSomeHand' /\ L!CompletedStays'
  <2>1. \A d \in CallsOf : v6[d].pc \in {"insert", "background"} => v6'[d] = v6[d]
    BY <1>2, <1>3
  <2> QED BY <1>2, <1>4, <1>5, <2>1
          DEF LiveInv, LiveTyped, L!InSomeHand, L!CompletedStays, L!InProgress
<1> QED BY <1>3, <1>7, <1>8, <1>9, <1>10 DEF LiveInv

LEMMA LiveStartPi ==
  ASSUME LiveInv, NEW c \in CallsOf, L!StartPi(c)
  PROVE  LiveInv'
<1> PICK s \in UsersOf : /\ v4[s] = "none" /\ v4' = [v4 EXCEPT ![s] = "recording"]
                         /\ L!Go(c, [L!Idle EXCEPT !.pc = "insert", !.session = s])
  BY DEF L!StartPi
<1> DEFINE new == [L!Idle EXCEPT !.pc = "insert", !.session = s]
<1>1. new \in LiveCall /\ new.pc = "insert" /\ new.session = s
  BY LiveIdle DEF LiveCall
<1>2. L!Go(c, new) /\ v6[c].pc = "begin" /\ UNCHANGED <<v1, v2, v3, v5, v7, v8, v9, v10>>
  BY DEF L!StartPi, L!history
<1> HIDE DEF new
<1>3. LiveTyped' /\ v6'[c] = new /\ \A d \in CallsOf \ {c} : v6'[d] = v6[d]
  BY <1>1, <1>2, LiveGoes DEF LiveInv, LiveTyped
<1>4. v4'[s] = "recording" /\ \A t \in UsersOf \ {s} : v4'[t] = v4[t]
  BY DEF LiveInv, LiveTyped
<1>5. v1[s] = "none" /\ s \notin v8
  BY DEF LiveInv, L!Begun
<1>6. \A d \in L!Holders : v6[d].session # s
  BY <1>5 DEF LiveInv, L!Begun, L!OfOne, L!Holders, L!InProgress
<1>7. L!Begun'
  BY <1>1, <1>2, <1>3, <1>4, <1>5 DEF LiveInv, LiveTyped, L!Begun, L!Holders
<1>8. L!OfOne'
  <2>1. L!Holders' = L!Holders \cup {c}
    BY <1>1, <1>3 DEF L!Holders
  <2> QED BY <1>1, <1>2, <1>3, <1>6, <2>1 DEF LiveInv, L!OfOne, L!Holders, L!InProgress
<1>9. L!OneStart'
  BY <1>1, <1>2, <1>3 DEF LiveInv, L!OneStart, L!Live, L!InProgress
<1>10. L!InSomeHand' /\ L!CompletedStays'
  <2>1. \A d \in CallsOf : v6[d].pc \in {"insert", "background"} => v6'[d] = v6[d]
    BY <1>2, <1>3
  <2> QED BY <1>1, <1>2, <1>3, <1>4, <2>1
          DEF LiveInv, L!InSomeHand, L!CompletedStays, L!InProgress
<1> QED BY <1>3, <1>7, <1>8, <1>9, <1>10 DEF LiveInv

\* The Pi refuses, or starts and is not heard: the call tries again or ends.
LEMMA LiveStartPiFails ==
  ASSUME LiveInv, NEW c \in CallsOf, L!StartPiFails(c)
  PROVE  LiveInv'
<1> PICK k \in LiveCall : k = v6[c]
  BY DEF LiveInv, LiveTyped
<1>1. PICK new \in LiveCall : L!Go(c, new) /\ new.pc \in {"idle", "begin"}
  BY LiveIdle DEF L!StartPiFails, L!Return, LiveCall
<1>2. /\ v6[c].pc = "begin" /\ UNCHANGED <<v1, v2, v3, v5, v7, v8, v10>>
      /\ \/ UNCHANGED <<v4, v9>>
         \/ v9' = TRUE /\ \E s \in UsersOf : v4' = [v4 EXCEPT ![s] = "recording"]
  BY DEF L!StartPiFails
<1>3. /\ v4' \in [UsersOf -> {"none", "recording", "stopped"}]
      /\ \A s \in UsersOf : v4[s] # "none" => v4'[s] # "none"
  BY <1>2 DEF LiveInv, LiveTyped
<1>4. LiveTyped' /\ v6'[c] = new /\ \A d \in CallsOf \ {c} : v6'[d] = v6[d]
  BY <1>1, <1>2, <1>3, LiveGoes DEF LiveInv, LiveTyped
<1>5. L!Begun'
  BY <1>1, <1>2, <1>3, <1>4 DEF LiveInv, LiveTyped, L!Begun, L!Holders
<1>6. L!OfOne'
  <2>1. L!Holders' = L!Holders
    BY <1>1, <1>2, <1>4 DEF L!Holders
  <2> QED BY <1>1, <1>2, <1>4, <2>1 DEF LiveInv, L!OfOne, L!Holders, L!InProgress
<1>7. L!OneStart'
  BY <1>1, <1>2, <1>4 DEF LiveInv, L!OneStart, L!Live, L!InProgress
<1>8. L!InSomeHand' /\ L!CompletedStays'
  <2>1. \A d \in CallsOf : v6[d].pc \in {"insert", "background"} => v6'[d] = v6[d]
    BY <1>2, <1>4
  <2> QED BY <1>2, <2>1 DEF LiveInv, L!InSomeHand, L!CompletedStays, L!InProgress
<1> QED BY <1>4, <1>5, <1>6, <1>7, <1>8 DEF LiveInv

LEMMA LiveInsert ==
  ASSUME LiveInv, NEW c \in CallsOf, L!Insert(c)
  PROVE  LiveInv'
<1> USE LiveIdle
<1> PICK s \in UsersOf : s = v6[c].session
  BY DEF LiveInv, LiveTyped, L!Insert, L!Holders
<1>1. /\ L!Go(c, L!Idle) /\ v6[c].pc = "insert" /\ UNCHANGED <<v2, v4, v5, v7, v8, v9, v10>>
      /\ v1' = [v1 EXCEPT ![s] = "in_progress"]
  BY DEF L!Insert, L!Return, L!history
<1>2. LiveTyped' /\ v6'[c] = L!Idle /\ \A d \in CallsOf \ {c} : v6'[d] = v6[d]
  BY <1>1, LiveGoes DEF LiveInv, LiveTyped
<1>3. v1'[s] = "in_progress" /\ \A t \in UsersOf \ {s} : v1'[t] = v1[t]
  BY <1>1 DEF LiveInv, LiveTyped
<1>4. v1[s] = "none" /\ v4[s] # "none" /\ s \notin v8
  BY <1>1 DEF LiveInv, L!Begun
<1>5. \A d \in L!Holders \ {c} : v6[d].session # s
  BY <1>1, <1>4 DEF LiveInv, L!OfOne, L!Holders
<1>6. L!Begun'
  BY <1>1, <1>2, <1>3, <1>4, <1>5 DEF LiveInv, LiveTyped, L!Begun, L!Holders
<1>7. L!Holders' = L!Holders \ {c}
  BY <1>2 DEF L!Holders
<1>8. L!OfOne'
  BY <1>1, <1>2, <1>3, <1>5, <1>7 DEF LiveInv, LiveTyped, L!OfOne, L!Holders, L!InProgress
<1>9. L!OneStart'
  <2>1. L!Live' \subseteq L!Live \cup {s}
    BY <1>3 DEF L!Live, L!InProgress
  <2>2. ~v7 => L!Live = {} /\ \A d \in CallsOf \ {c} :
                                v6[d].pc \notin {"abandon", "begin", "insert"}
    BY <1>1 DEF LiveInv, L!OneStart
  <2> QED BY <1>1, <1>2, <2>1, <2>2 DEF L!OneStart
<1>10. L!InSomeHand'
  <2>1. \A d \in CallsOf \ {c} : v6'[d] = v6[d]
    BY <1>2
  <2> QED BY <1>1, <1>3, <2>1 DEF LiveInv, L!InSomeHand, L!InProgress
<1>11. L!CompletedStays'
  BY <1>1, <1>3, <1>4 DEF LiveInv, LiveTyped, L!CompletedStays
<1> QED BY <1>2, <1>6, <1>8, <1>9, <1>10, <1>11 DEF LiveInv

LEMMA LiveInsertFails ==
  ASSUME LiveInv, NEW c \in CallsOf, L!InsertFails(c)
  PROVE  LiveInv'
<1> USE LiveIdle
<1>1. /\ L!Go(c, L!Idle) /\ v9' = TRUE /\ UNCHANGED <<v1, v2, v3, v4, v5, v7, v8, v10>>
  BY DEF L!InsertFails, L!Return
<1>2. LiveTyped' /\ v6'[c] = L!Idle /\ \A d \in CallsOf \ {c} : v6'[d] = v6[d]
  BY <1>1, LiveGoes DEF LiveInv, LiveTyped
<1>3. L!Begun' /\ L!OneStart' /\ L!InSomeHand' /\ L!CompletedStays'
  BY <1>1, <1>2 DEF LiveInv, L!Begun, L!OneStart, L!InSomeHand, L!CompletedStays,
                    L!Live, L!InProgress
<1>4. L!OfOne'
  <2>1. L!Holders' = L!Holders \ {c}
    BY <1>2 DEF L!Holders
  <2> QED BY <1>1, <1>2, <2>1 DEF LiveInv, L!OfOne, L!Holders, L!InProgress
<1> QED BY <1>2, <1>3, <1>4 DEF LiveInv

LEMMA LiveStopSave ==
  ASSUME LiveInv, NEW c \in CallsOf, L!StopSave(c)
  PROVE  LiveInv'
<1> PICK s \in UsersOf : s = v6[c].session
  BY DEF LiveInv, LiveTyped, L!StopSave, L!Holders
<1> DEFINE new == [L!Idle EXCEPT !.pc = "background", !.session = s, !.tries = Tries]
<1>1. new \in LiveCall /\ new.pc = "background" /\ new.session = s
  <2>1. Tries \in Int
    BY ServicesAssumption
  <2> QED BY <2>1 DEF LiveCall, L!Idle
<1>2. /\ L!Go(c, new) /\ v6[c].pc = "save" /\ UNCHANGED <<v2, v3, v4, v5, v7, v8, v9, v10>>
      /\ v1' = [v1 EXCEPT ![s] = "processing"]
  BY DEF L!StopSave, L!history
<1> HIDE DEF new
<1>3. LiveTyped' /\ v6'[c] = new /\ \A d \in CallsOf \ {c} : v6'[d] = v6[d]
  BY <1>1, <1>2, LiveGoes DEF LiveInv, LiveTyped
<1>4. v1'[s] = "processing" /\ \A t \in UsersOf \ {s} : v1'[t] = v1[t]
  BY <1>2 DEF LiveInv, LiveTyped
<1>5. s \notin v8 => v1[s] = "in_progress" /\ \A d \in L!Holders \ {c} : v6[d].session # s
  BY <1>2 DEF LiveInv, L!OfOne, L!Holders, L!InProgress
<1>6. v1[s] # "none"
  BY <1>2, <1>5 DEF LiveInv, L!Begun
<1>7. L!Begun'
  BY <1>1, <1>2, <1>3, <1>4, <1>6 DEF LiveInv, L!Begun
<1>8. L!OfOne'
  <2>1. L!Holders' = L!Holders
    BY <1>1, <1>2, <1>3 DEF L!Holders
  <2> QED BY <1>1, <1>2, <1>3, <1>4, <1>5, <2>1
          DEF LiveInv, LiveTyped, L!OfOne, L!Holders, L!InProgress
<1>9. L!OneStart'
  <2>1. L!Live' = L!Live \ {s}
    BY <1>4 DEF L!Live, L!InProgress
  <2> QED BY <1>1, <1>2, <1>3, <2>1 DEF LiveInv, L!OneStart
<1>10. L!InSomeHand' /\ L!CompletedStays'
  <2>1. \A d \in CallsOf : v6[d].pc \in {"insert", "background"} => v6'[d] = v6[d]
    BY <1>2, <1>3
  <2> QED BY <1>1, <1>2, <1>3, <1>4, <1>5, <2>1
          DEF LiveInv, LiveTyped, L!InSomeHand, L!CompletedStays, L!InProgress
<1> QED BY <1>3, <1>7, <1>8, <1>9, <1>10 DEF LiveInv

\* The background half ends: the session is done with, or has failed.
LEMMA LiveEnds ==
  ASSUME LiveInv, NEW c \in CallsOf, v6[c].pc = "background", L!Go(c, L!Idle),
         NEW s \in UsersOf, s = v6[c].session,
         v4' = v4 \/ v4' = [v4 EXCEPT ![s] = "stopped"],
         \/ /\ v1' = [v1 EXCEPT ![s] = "completed"] /\ v10' = v10 \cup {s}
            /\ v4' = [v4 EXCEPT ![s] = "stopped"] /\ v9' = v9
         \/ v1' = [v1 EXCEPT ![s] = "failed"] /\ v10' = v10 /\ v9' = TRUE,
         UNCHANGED <<v2, v3, v5, v7, v8>>
  PROVE  LiveInv'
<1> USE LiveIdle
<1>1. /\ v4' \in [UsersOf -> {"none", "recording", "stopped"}]
      /\ \A t \in UsersOf : v4[t] # "none" => v4'[t] # "none"
      /\ \A t \in UsersOf \ {s} : v4'[t] = v4[t]
  BY DEF LiveInv, LiveTyped
<1>2. /\ v1' \in [UsersOf -> {"none", "in_progress", "interrupted", "processing",
                              "completed", "failed"}]
      /\ v1'[s] \in {"completed", "failed"}
      /\ \A t \in UsersOf \ {s} : v1'[t] = v1[t]
      /\ v10' \subseteq v10 \cup {s}
      /\ s \in v10' /\ v1'[s] = "failed" => s \in v10
  BY DEF LiveInv, LiveTyped
<1>3. LiveTyped' /\ v6'[c] = L!Idle /\ \A d \in CallsOf \ {c} : v6'[d] = v6[d]
  BY <1>1, <1>2, LiveGoes DEF LiveInv, LiveTyped
<1>4. s \notin v8 => v1[s] = "processing" /\ \A d \in L!Holders \ {c} : v6[d].session # s
  BY DEF LiveInv, L!OfOne, L!Holders
<1>5. v1[s] # "none"
  BY <1>4 DEF LiveInv, L!Begun
<1>6. L!Begun'
  BY <1>1, <1>2, <1>3, <1>5 DEF LiveInv, LiveTyped, L!Begun, L!Holders
<1>7. L!OfOne'
  <2>1. L!Holders' = L!Holders \ {c}
    BY <1>3 DEF L!Holders
  <2> QED BY <1>2, <1>3, <1>4, <2>1
          DEF LiveInv, LiveTyped, L!OfOne, L!Holders, L!InProgress
<1>8. L!OneStart'
  <2>1. L!Live' = L!Live \ {s}
    BY <1>2 DEF L!Live, L!InProgress
  <2> QED BY <1>3, <2>1 DEF LiveInv, L!OneStart
<1>9. L!InSomeHand'
  <2> SUFFICES ASSUME v4' = [v4 EXCEPT ![s] = "stopped"], v9' = v9 PROVE L!InSomeHand'
    BY DEF L!InSomeHand
  <2>1. v4'[s] = "stopped"
    BY DEF LiveInv, LiveTyped
  <2>2. \A d \in CallsOf : v6[d].session # s => v6'[d] = v6[d]
    BY <1>3
  <2> QED BY <1>1, <1>2, <2>1, <2>2 DEF LiveInv, L!InSomeHand, L!InProgress
<1>10. L!CompletedStays'
  BY <1>2, <1>4 DEF LiveInv, LiveTyped, L!CompletedStays
<1> QED BY <1>3, <1>6, <1>7, <1>8, <1>9, <1>10 DEF LiveInv

\* The Pi is asked again.
LEMMA LiveStopAgain ==
  ASSUME LiveInv, NEW c \in CallsOf, v6[c].pc = "background",
         L!Go(c, [v6[c] EXCEPT !.tries = v6[c].tries - 1]),
         v4' \in {v4, [v4 EXCEPT ![v6[c].session] = "stopped"]}, v9' = TRUE,
         UNCHANGED <<v1, v2, v3, v5, v7, v8, v10>>
  PROVE  LiveInv'
<1> PICK k \in LiveCall : k = v6[c]
  BY DEF LiveInv, LiveTyped
<1> PICK s \in UsersOf : s = k.session
  BY DEF LiveInv, LiveTyped, L!Holders
<1> DEFINE new == [k EXCEPT !.tries = k.tries - 1]
<1>1. new \in LiveCall /\ new.pc = "background" /\ new.session = s
  BY DEF LiveCall
<1>2. L!Go(c, new)
  OBVIOUS
<1> HIDE DEF new
<1>3. v4' \in [UsersOf -> {"none", "recording", "stopped"}]
      /\ \A t \in UsersOf : v4[t] # "none" => v4'[t] # "none"
  BY DEF LiveInv, LiveTyped
<1>4. LiveTyped' /\ v6'[c] = new /\ \A d \in CallsOf \ {c} : v6'[d] = v6[d]
  BY <1>1, <1>2, <1>3, LiveGoes DEF LiveInv, LiveTyped
<1>5. \A d \in CallsOf : v6'[d].pc = v6[d].pc /\ v6'[d].session = v6[d].session
  BY <1>1, <1>4
<1>6. L!Begun' /\ L!OneStart' /\ L!InSomeHand' /\ L!CompletedStays'
  <2>1. \A d \in CallsOf : v6'[d].pc = "insert" => v6[d].session \in UsersOf
    BY <1>5 DEF LiveInv, LiveTyped, L!Holders
  <2>2. L!Begun'
    BY <1>3, <1>5, <2>1 DEF LiveInv, LiveTyped, L!Begun
  <2>3. L!OneStart'
    BY <1>5 DEF LiveInv, L!OneStart, L!Live, L!InProgress
  <2> QED BY <2>2, <2>3 DEF LiveInv, L!InSomeHand, L!CompletedStays
<1>7. L!OfOne'
  <2>1. L!Holders' = L!Holders
    BY <1>5 DEF L!Holders
  <2> QED BY <1>5, <2>1 DEF LiveInv, L!OfOne, L!Holders, L!InProgress
<1> QED BY <1>4, <1>6, <1>7 DEF LiveInv

LEMMA LiveBackground ==
  ASSUME LiveInv, NEW c \in CallsOf,
         L!Stopped(c) \/ L!StoppedUnsaid(c) \/ L!StopPiFails(c)
  PROVE  LiveInv'
<1>0. v6[c].pc = "background"
  BY DEF L!Stopped, L!StoppedUnsaid, L!StopPiFails
<1> PICK s \in UsersOf : s = v6[c].session
  BY <1>0 DEF LiveInv, LiveTyped, L!Holders
<1>1. CASE L!Stopped(c)
  BY <1>0, <1>1, LiveEnds DEF L!Stopped, L!Return
<1>2. CASE L!StoppedUnsaid(c)
  BY <1>0, <1>2, LiveEnds DEF L!StoppedUnsaid, L!Return
<1>3. CASE L!StopPiFails(c) /\ v6[c].tries = 1
  BY <1>0, <1>3, LiveEnds DEF L!StopPiFails, L!Return
<1>4. CASE L!StopPiFails(c) /\ v6[c].tries # 1
  BY <1>0, <1>4, LiveStopAgain DEF L!StopPiFails
<1> QED BY <1>1, <1>2, <1>3, <1>4

\* What is abandoned is stopped, or something fails.
LEMMA LiveStopAbandoned ==
  ASSUME LiveInv, NEW s \in UsersOf, L!StopAbandoned(s)
  PROVE  LiveInv'
<1>1. /\ UNCHANGED <<v1, v2, v3, v6, v7, v8, v10>> /\ v5' = v5 \ {s}
      /\ \/ v4' = [v4 EXCEPT ![s] = "stopped"] /\ v9' = v9
         \/ v4' = v4 /\ v9' = TRUE
  BY DEF L!StopAbandoned
<1>2. /\ v4' \in [UsersOf -> {"none", "recording", "stopped"}]
      /\ \A t \in UsersOf : v4[t] # "none" => v4'[t] # "none"
      /\ \A t \in UsersOf \ {s} : v4'[t] = v4[t]
  BY <1>1 DEF LiveInv, LiveTyped
<1>3. LiveTyped'
  BY <1>1, <1>2 DEF LiveInv, LiveTyped, L!Holders
<1>4. L!Begun'
  BY <1>1, <1>2 DEF LiveInv, LiveTyped, L!Begun, L!Holders
<1>5. L!OfOne' /\ L!OneStart' /\ L!CompletedStays'
  BY <1>1 DEF LiveInv, L!OfOne, L!OneStart, L!CompletedStays, L!Holders, L!Live,
              L!InProgress
<1>6. L!InSomeHand'
  <2> SUFFICES ASSUME v4' = [v4 EXCEPT ![s] = "stopped"], v9' = v9 PROVE L!InSomeHand'
    BY <1>1 DEF L!InSomeHand
  <2>1. v4'[s] = "stopped"
    BY DEF LiveInv, LiveTyped
  <2> QED BY <1>1, <1>2, <2>1 DEF LiveInv, L!InSomeHand, L!InProgress
<1> QED BY <1>3, <1>4, <1>5, <1>6 DEF LiveInv

LEMMA LiveCrash ==
  ASSUME LiveInv, L!Crash
  PROVE  LiveInv'
<1> USE LiveIdle
<1>1. /\ UNCHANGED <<v1, v2, v3, v4, v7, v8, v10>> /\ v9' = TRUE
      /\ v6' = [c \in CallsOf |-> L!Idle]
  BY DEF L!Crash
<1>2. v6' \in [CallsOf -> LiveCall] /\ L!Holders' = {}
      /\ \A c \in CallsOf : v6'[c].pc = "idle"
  BY <1>1 DEF L!Holders
<1>3. LiveTyped'
  BY <1>1, <1>2 DEF LiveInv, LiveTyped
<1>4. L!Begun' /\ L!OfOne'
  BY <1>1, <1>2 DEF LiveInv, L!Begun, L!OfOne
<1>5. L!OneStart' /\ L!InSomeHand' /\ L!CompletedStays'
  BY <1>1, <1>2 DEF LiveInv, L!OneStart, L!InSomeHand, L!CompletedStays, L!Live,
                    L!InProgress
<1> QED BY <1>3, <1>4, <1>5 DEF LiveInv

LEMMA LiveStep == LiveInv /\ L!Next => LiveInv'
<1> SUFFICES ASSUME LiveInv, L!Next PROVE LiveInv'
  OBVIOUS
<1>1. CASE L!Crash
  BY <1>1, LiveCrash
<1>2. ASSUME NEW s \in UsersOf, L!Ages(s) PROVE LiveInv'
  BY <1>2 DEF L!Ages, L!history, LiveInv, LiveTyped, L!Begun, L!OfOne, L!OneStart,
              L!InSomeHand, L!CompletedStays, L!Holders, L!Live, L!InProgress
<1>3. ASSUME NEW s \in UsersOf, L!StopAbandoned(s) PROVE LiveInv'
  BY <1>3, LiveStopAbandoned
<1>4. ASSUME NEW c \in CallsOf, L!CallStep(c) PROVE LiveInv'
  BY <1>4, LiveAbandon, LiveStartPi, LiveStartPiFails, LiveInsert, LiveInsertFails,
     LiveStopSave, LiveBackground DEF L!CallStep
<1>5. ASSUME NEW c \in CallsOf, L!StartFree(c) PROVE LiveInv'
  <2> DEFINE new == [L!Idle EXCEPT !.pc = "begin", !.tries = Tries]
  <2>1. new \in LiveCall /\ new.pc = "begin"
    BY LiveAsk, LiveIdle DEF LiveCall
  <2>2. /\ L!Go(c, new) /\ L!Live = {} /\ v6[c].pc = "idle" /\ L!Starts(c)
        /\ UNCHANGED <<v1, v2, v3, v4, v5, v8, v9, v10>>
    BY <1>5 DEF L!StartFree, L!Ask, L!Vacant
  <2> HIDE DEF new
  <2> QED BY <2>1, <2>2, LiveStart
<1>6. ASSUME NEW c \in CallsOf, L!StartStale(c) PROVE LiveInv'
  <2> PICK s \in L!Live : /\ L!Go(c, [L!Idle EXCEPT !.pc = "abandon", !.session = s])
                          /\ L!Reads(c, s)
    BY <1>6 DEF L!StartStale
  <2> DEFINE new == [L!Idle EXCEPT !.pc = "abandon", !.session = s]
  <2>1. new \in LiveCall /\ new.pc = "abandon" /\ new.session = s
    BY LiveIdle DEF LiveCall, L!Live
  <2>2. /\ L!Go(c, new) /\ v6[c].pc = "idle" /\ L!Starts(c)
        /\ UNCHANGED <<v1, v2, v3, v4, v5, v9, v10>>
    BY <1>6 DEF L!StartStale
  <2> HIDE DEF new
  <2> QED BY <2>1, <2>2, LiveStart
<1>7. ASSUME NEW c \in CallsOf, NEW s \in UsersOf, L!Stop(c, s) \/ L!AutoStop(c, s)
      PROVE  LiveInv'
  BY <1>7, LiveStopRead DEF L!Stop, L!AutoStop
<1> QED BY <1>1, <1>2, <1>3, <1>4, <1>5, <1>6, <1>7 DEF L!Next

LEMMA LiveAgrees == LiveInv => L!OneLive /\ L!NoStraySession /\ L!CompletedStays
<1> SUFFICES ASSUME LiveInv PROVE L!OneLive /\ L!NoStraySession /\ L!CompletedStays
  OBVIOUS
<1>1. L!OneLive
  <2> SUFFICES ASSUME ~v7 PROVE L!Cardinality(L!Live) <= 1
    BY DEF L!OneLive
  <2>1. \A s, t \in L!Live : s = t
    BY DEF LiveInv, L!OneStart
  <2>2. L!Cardinality(L!Live) = Cardinality(L!Live)
    BY DEF L!Cardinality, Cardinality
  <2> QED BY <2>1, <2>2, AtMostOne
<1>2. L!NoStraySession
  BY DEF LiveInv, L!InSomeHand, L!NoStraySession
<1> QED BY <1>1, <1>2 DEF LiveInv

\* One recording is in progress on a camera (startRecording refuses, or abandons
\* the stale one first), unless two starts overlapped; and when nothing has failed
\* and all is at rest, each session the Pi still records has a row in progress,
\* which stopRecording or the cron can stop.
THEOREM CourtHasOneSession == Spec => []SessionsAgree
<1> DEFINE Inv == which = "live" => LiveInv
<1>1. Init => Inv
  BY LiveBegin DEF Init
<1>2. Inv /\ [Next]_vars => Inv'
  <2> SUFFICES ASSUME Inv, [Next]_vars, which' = "live" PROVE LiveInv'
    OBVIOUS
  <2>1. CASE UNCHANGED vars
    BY <2>1 DEF vars, LiveInv, LiveTyped, L!Begun, L!OfOne, L!OneStart, L!InSomeHand,
                L!CompletedStays, L!Holders, L!Live, L!InProgress
  <2>2. CASE Next
    <3>1. which = "live" /\ L!Next
      BY <2>2 DEF Next
    <3> QED BY <3>1, LiveStep
  <2> QED BY <2>1, <2>2
<1>3. Inv => SessionsAgree
  BY LiveAgrees DEF SessionsAgree
<1> QED BY <1>1, <1>2, <1>3, PTL DEF Spec

\* A recording that processStopRecordingInBackground has completed is not stopped,
\* abandoned or failed again, unless two calls had read it as in progress at once.
THEOREM StoppedOnceForAll == Spec => []CompletedStays
<1> DEFINE Inv == which = "live" => LiveInv
<1>1. Init => Inv
  BY LiveBegin DEF Init
<1>2. Inv /\ [Next]_vars => Inv'
  <2> SUFFICES ASSUME Inv, [Next]_vars, which' = "live" PROVE LiveInv'
    OBVIOUS
  <2>1. CASE UNCHANGED vars
    BY <2>1 DEF vars, LiveInv, LiveTyped, L!Begun, L!OfOne, L!OneStart, L!InSomeHand,
                L!CompletedStays, L!Holders, L!Live, L!InProgress
  <2>2. CASE Next
    <3>1. which = "live" /\ L!Next
      BY <2>2 DEF Next
    <3> QED BY <3>1, LiveStep
  <2> QED BY <2>1, <2>2
<1>3. Inv => CompletedStays
  BY LiveAgrees DEF CompletedStays
<1> QED BY <1>1, <1>2, <1>3, PTL DEF Spec

-----------------------------------------------------------------------------
(* Enrolment: fee, exists, count, enrolled, paid, call and disturbed are   *)
(* v1 to v7.                                                               *)

CupCall == [pc : {"idle", "ask", "enrol", "count", "edit"}, user : UsersOf \cup {None},
            count : Nat]

CupsTyped ==
  /\ v3 \in Nat /\ v4 \in Seq(UsersOf)
  /\ v6 \in [CallsOf -> CupCall]
  /\ \A c \in CallsOf : v6[c].pc \in {"ask", "enrol", "count"} => v6[c].user \in UsersOf

CupsInv == CupsTyped /\ T!OneCall

LEMMA CupIdle == T!Idle \in CupCall /\ T!Idle.pc = "idle"
BY DEF CupCall, T!Idle

LEMMA CupsBegin == T!Init => CupsInv
<1> USE CupIdle
<1> SUFFICES ASSUME T!Init PROVE CupsInv
  OBVIOUS
<1>1. \A c \in CallsOf : v6[c] = T!Idle
  BY DEF T!Init
<1>2. v4 = <<>> /\ v3 = 0 /\ Len(v4) = 0 /\ DOMAIN v4 = {} /\ v4 \in Seq(UsersOf)
  BY DEF T!Init
<1>3. CupsTyped
  BY <1>1, <1>2 DEF T!Init, CupsTyped
<1>4. T!OneCall
  BY <1>1, <1>2, ServicesAssumption DEF T!OneCall
<1> QED BY <1>3, <1>4 DEF CupsInv

LEMMA CupsGoes ==
  ASSUME CupsInv, NEW c \in CallsOf, NEW new \in CupCall, T!Go(c, new),
         new.pc \in {"ask", "enrol", "count"} => new.user \in UsersOf
  PROVE  /\ v6' \in [CallsOf -> CupCall]
         /\ \A d \in CallsOf : v6'[d].pc \in {"ask", "enrol", "count"} =>
                                 v6'[d].user \in UsersOf
         /\ v6'[c] = new /\ \A d \in CallsOf \ {c} : v6'[d] = v6[d]
BY DEF CupsInv, CupsTyped, T!Go

\* A call begins, with the count there is.
LEMMA CupsStarts ==
  ASSUME CupsInv, NEW c \in CallsOf, NEW new \in CupCall, T!Go(c, new),
         v6[c].pc = "idle", new.pc \in {"ask", "edit"}, new.count = v3,
         new.pc = "ask" => new.user \in UsersOf,
         T!Starts(c), UNCHANGED <<v1, v2, v3, v4, v5>>
  PROVE  CupsInv'
<1>1. /\ v6' \in [CallsOf -> CupCall]
      /\ \A d \in CallsOf : v6'[d].pc \in {"ask", "enrol", "count"} =>
                              v6'[d].user \in UsersOf
      /\ v6'[c] = new /\ \A d \in CallsOf \ {c} : v6'[d] = v6[d]
  BY CupsGoes
<1>2. CupsTyped'
  BY <1>1 DEF CupsInv, CupsTyped
<1>3. ASSUME ~v7' PROVE ~v7 /\ \A d \in CallsOf \ {c} : v6[d].pc = "idle"
  BY <1>3 DEF T!Starts
<1>4. T!OneCall'
  BY <1>1, <1>3 DEF CupsInv, T!OneCall
<1> QED BY <1>2, <1>4 DEF CupsInv

\* A call that ends and leaves things as they are, or was to be counted and
\* was not.
LEMMA CupsEnds ==
  ASSUME CupsInv, NEW c \in CallsOf, v6[c].pc # "idle", T!Go(c, T!Idle),
         ~v7' => ~v7 /\ v6[c].pc # "count", UNCHANGED <<v1, v2, v3, v4, v5>>
  PROVE  CupsInv'
<1> USE CupIdle
<1>1. /\ v6' \in [CallsOf -> CupCall]
      /\ \A d \in CallsOf : v6'[d].pc \in {"ask", "enrol", "count"} =>
                              v6'[d].user \in UsersOf
      /\ v6'[c] = T!Idle /\ \A d \in CallsOf \ {c} : v6'[d] = v6[d]
  BY CupsGoes
<1>2. CupsTyped'
  BY <1>1 DEF CupsInv, CupsTyped
<1>3. ASSUME ~v7' PROVE ~v7 /\ v6[c].pc # "count" /\ \A d \in CallsOf \ {c} : v6[d].pc = "idle"
  BY <1>3 DEF CupsInv, T!OneCall
<1>4. T!OneCall'
  BY <1>1, <1>3 DEF CupsInv, T!OneCall
<1> QED BY <1>2, <1>4 DEF CupsInv

LEMMA CupsAdmit ==
  ASSUME CupsInv, NEW c \in CallsOf, T!Admit(c)
  PROVE  CupsInv'
<1> USE CupIdle
<1> PICK k \in CupCall : k = v6[c]
  BY DEF CupsInv, CupsTyped
<1>0. k.pc = "ask" /\ k.user \in UsersOf /\ UNCHANGED <<v1, v2, v3, v4, v5, v7>>
  BY DEF T!Admit, CupsInv, CupsTyped
<1> DEFINE new == [k EXCEPT !.pc = "enrol"]
<1>1. new \in CupCall /\ new.pc = "enrol" /\ new.user = k.user /\ new.count = k.count
  BY DEF CupCall
<1>2. \/ T!Go(c, new) /\ ~T!In(k.user) /\ k.count < MaxPlaces
      \/ T!Go(c, T!Idle)
  <2>1. k.count \in Nat /\ MaxPlaces \in Nat
    BY ServicesAssumption DEF CupCall
  <2> QED BY <2>1 DEF T!Admit, T!Full
<1> HIDE DEF new
<1>3. CASE T!Go(c, new) /\ ~T!In(k.user) /\ k.count < MaxPlaces
  <2>1. /\ v6' \in [CallsOf -> CupCall]
        /\ \A d \in CallsOf : v6'[d].pc \in {"ask", "enrol", "count"} =>
                                v6'[d].user \in UsersOf
        /\ v6'[c] = new /\ \A d \in CallsOf \ {c} : v6'[d] = v6[d]
    BY <1>0, <1>1, <1>3, CupsGoes
  <2>2. CupsTyped'
    BY <1>0, <2>1 DEF CupsInv, CupsTyped
  <2>3. ASSUME ~v7' PROVE ~v7 /\ k.count = v3 /\ \A d \in CallsOf \ {c} : v6[d].pc = "idle"
    BY <1>0, <2>3 DEF CupsInv, T!OneCall
  <2>4. T!OneCall'
    BY <1>0, <1>1, <1>3, <2>1, <2>3 DEF CupsInv, T!OneCall, T!In
  <2> QED BY <2>2, <2>4 DEF CupsInv
<1>4. CASE T!Go(c, T!Idle)
  BY <1>0, <1>4, CupsEnds
<1> QED BY <1>2, <1>3, <1>4

LEMMA CupsEnrol ==
  ASSUME CupsInv, NEW c \in CallsOf, T!Enrol(c)
  PROVE  CupsInv'
<1> PICK k \in CupCall : k = v6[c]
  BY DEF CupsInv, CupsTyped
<1>0. k.pc = "enrol" /\ k.user \in UsersOf /\ UNCHANGED <<v1, v2, v3, v5, v7>>
  BY DEF T!Enrol, CupsInv, CupsTyped
<1> DEFINE new == [k EXCEPT !.pc = "count"]
<1>1. new \in CupCall /\ new.pc = "count" /\ new.user = k.user /\ new.count = k.count
  BY DEF CupCall
<1>2. T!Go(c, new) /\ v4' = Append(v4, k.user)
  BY DEF T!Enrol
<1> HIDE DEF new
<1>3. /\ v6' \in [CallsOf -> CupCall]
      /\ \A d \in CallsOf : v6'[d].pc \in {"ask", "enrol", "count"} =>
                              v6'[d].user \in UsersOf
      /\ v6'[c] = new /\ \A d \in CallsOf \ {c} : v6'[d] = v6[d]
  BY <1>0, <1>1, <1>2, CupsGoes
<1>4. /\ v4 \in Seq(UsersOf) /\ v4' \in Seq(UsersOf) /\ Len(v4') = Len(v4) + 1
      /\ DOMAIN v4 = 1 .. Len(v4) /\ DOMAIN v4' = 1 .. Len(v4) + 1
      /\ \A i \in 1 .. Len(v4) : v4'[i] = v4[i]
      /\ v4'[Len(v4) + 1] = k.user /\ Len(v4) \in Nat /\ v3 \in Nat
  BY <1>0, <1>2 DEF CupsInv, CupsTyped
<1>5. CupsTyped'
  BY <1>0, <1>3, <1>4 DEF CupsInv, CupsTyped
<1>6. ASSUME ~v7'
      PROVE  /\ ~v7 /\ k.count = v3 /\ Len(v4) = v3 /\ v3 < MaxPlaces
             /\ \A i \in 1 .. Len(v4) : v4[i] # k.user
             /\ \A d \in CallsOf \ {c} : v6[d].pc = "idle"
             /\ \A i, j \in 1 .. Len(v4) : v4[i] = v4[j] => i = j
  BY <1>0, <1>4, <1>6 DEF CupsInv, T!OneCall, T!In
<1>7. T!OneCall'
  <2> SUFFICES ASSUME ~v7' PROVE T!OneCall'
    BY DEF T!OneCall
  <2>1. Len(v4') = v3' + 1 /\ Len(v4') <= MaxPlaces
    BY <1>0, <1>4, <1>6, ServicesAssumption
  <2>2. \A i, j \in DOMAIN v4' : v4'[i] = v4'[j] => i = j
    <3> SUFFICES ASSUME NEW i \in 1 .. Len(v4) + 1, NEW j \in 1 .. Len(v4) + 1,
                        v4'[i] = v4'[j]
                 PROVE  i = j
      BY <1>4
    <3>1. \A n \in 1 .. Len(v4) + 1 : n \in 1 .. Len(v4) \/ n = Len(v4) + 1
      BY <1>4
    <3> QED BY <1>4, <1>6, <3>1
  <2> QED BY <1>0, <1>1, <1>3, <1>6, <2>1, <2>2 DEF T!OneCall
<1> QED BY <1>5, <1>7 DEF CupsInv

\* The count is saved, one larger than it was read or as it was read.
LEMMA CupsSaves ==
  ASSUME CupsInv, NEW c \in CallsOf, T!Count(c) \/ T!Edited(c)
  PROVE  CupsInv'
<1> USE CupIdle
<1>0. /\ T!Go(c, T!Idle) /\ UNCHANGED <<v1, v4, v5, v7>>
      /\ \/ v6[c].pc = "count" /\ v3' = v6[c].count + 1
         \/ v6[c].pc = "edit" /\ v3' = v6[c].count
  BY DEF T!Count, T!Edited
<1>1. /\ v6' \in [CallsOf -> CupCall]
      /\ \A d \in CallsOf : v6'[d].pc \in {"ask", "enrol", "count"} =>
                              v6'[d].user \in UsersOf
      /\ v6'[c] = T!Idle /\ \A d \in CallsOf \ {c} : v6'[d] = v6[d]
  BY <1>0, CupsGoes
<1>2. v3' \in Nat
  BY <1>0 DEF CupsInv, CupsTyped, CupCall
<1>3. CupsTyped'
  BY <1>0, <1>1, <1>2 DEF CupsInv, CupsTyped
<1>4. ASSUME ~v7'
      PROVE  ~v7 /\ Len(v4) = v3' /\ \A d \in CallsOf \ {c} : v6[d].pc = "idle"
  BY <1>0, <1>4 DEF CupsInv, T!OneCall
<1>5. T!OneCall'
  BY <1>0, <1>1, <1>4 DEF CupsInv, T!OneCall
<1> QED BY <1>3, <1>5 DEF CupsInv

LEMMA CupsStep == CupsInv /\ T!Next => CupsInv'
<1> SUFFICES ASSUME CupsInv, T!Next PROVE CupsInv'
  OBVIOUS
<1>1. CASE T!Delete
  BY <1>1 DEF T!Delete, CupsInv, CupsTyped, T!OneCall, T!In
<1>2. ASSUME NEW u \in UsersOf, T!Pay(u) PROVE CupsInv'
  BY <1>2 DEF T!Pay, CupsInv, CupsTyped, T!OneCall, T!In
<1>3. ASSUME NEW c \in CallsOf, T!Admit(c) \/ T!Enrol(c) \/ T!Count(c) \/ T!Edited(c)
      PROVE  CupsInv'
  BY <1>3, CupsAdmit, CupsEnrol, CupsSaves
<1>4. ASSUME NEW c \in CallsOf, T!Fail(c) PROVE CupsInv'
  BY <1>4, CupsEnds DEF T!Fail
<1>5. ASSUME NEW c \in CallsOf, NEW u \in UsersOf, T!Ask(c, u) PROVE CupsInv'
  <2> DEFINE new == [pc |-> "ask", user |-> u, count |-> v3]
  <2>1. new \in CupCall /\ new.pc = "ask" /\ new.user \in UsersOf /\ new.count = v3
    BY DEF CupCall, CupsInv, CupsTyped
  <2>2. T!Go(c, new) /\ v6[c].pc = "idle" /\ T!Starts(c) /\ UNCHANGED <<v1, v2, v3, v4, v5>>
    BY <1>5 DEF T!Ask
  <2> HIDE DEF new
  <2> QED BY <2>1, <2>2, CupsStarts
<1>6. ASSUME NEW c \in CallsOf, T!Edit(c) PROVE CupsInv'
  <2> DEFINE new == [pc |-> "edit", user |-> None, count |-> v3]
  <2>1. new \in CupCall /\ new.pc = "edit" /\ new.count = v3
    BY DEF CupCall, CupsInv, CupsTyped
  <2>2. T!Go(c, new) /\ v6[c].pc = "idle" /\ T!Starts(c) /\ UNCHANGED <<v1, v2, v3, v4, v5>>
    BY <1>6 DEF T!Edit
  <2> HIDE DEF new
  <2> QED BY <2>1, <2>2, CupsStarts
<1> QED BY <1>1, <1>2, <1>3, <1>4, <1>5, <1>6 DEF T!Next

LEMMA CupsSeats == CupsInv => T!SeatsAgree
<1> SUFFICES ASSUME CupsInv, ~v7
             PROVE  v3 = T!Cardinality({i \in DOMAIN v4 :
                           \A c \in CallsOf : v6[c].pc = "count" => i # Len(v4)})
  BY DEF CupsInv, T!OneCall, T!SeatsAgree
<1> DEFINE counted == {i \in DOMAIN v4 :
                         \A c \in CallsOf : v6[c].pc = "count" => i # Len(v4)}
<1>1. v3 \in Nat /\ Len(v4) \in Nat /\ DOMAIN v4 = 1 .. Len(v4)
  BY DEF CupsInv, CupsTyped
<1>2. counted = 1 .. v3
  <2>1. CASE \E c \in CallsOf : v6[c].pc = "count"
    <3>1. Len(v4) = v3 + 1
      BY <2>1 DEF CupsInv, T!OneCall
    <3> QED BY <1>1, <2>1, <3>1
  <2>2. CASE \A c \in CallsOf : v6[c].pc # "count"
    <3>1. Len(v4) = v3
      BY <2>2 DEF CupsInv, T!OneCall
    <3> QED BY <1>1, <2>2, <3>1
  <2> QED BY <2>1, <2>2
<1>3. T!Cardinality(counted) = Cardinality(1 .. v3)
  BY <1>2 DEF T!Cardinality, Cardinality
<1>4. Cardinality(1 .. v3) = v3
  BY <1>1, FS_Interval
<1> QED BY <1>3, <1>4

\* participantsCount, by which enrollTournament closes a tournament, is the number
\* of its enrolments, no user has two and no more are given than there are places;
\* unless calls overlapped, or one failed between the enrolment and the count.
THEOREM PlacesGivenOnce == Spec => []SeatsAgree
<1> DEFINE Inv == which = "cups" => CupsInv
<1>1. Init => Inv
  BY CupsBegin DEF Init
<1>2. Inv /\ [Next]_vars => Inv'
  <2> SUFFICES ASSUME Inv, [Next]_vars, which' = "cups" PROVE CupsInv'
    OBVIOUS
  <2>1. CASE UNCHANGED vars
    BY <2>1 DEF vars, CupsInv, CupsTyped, T!OneCall, T!In
  <2>2. CASE Next
    <3>1. which = "cups" /\ T!Next
      BY <2>2 DEF Next
    <3> QED BY <3>1, CupsStep
  <2> QED BY <2>1, <2>2
<1>3. Inv => SeatsAgree
  BY CupsSeats DEF SeatsAgree
<1> QED BY <1>1, <1>2, <1>3, PTL DEF Spec

-----------------------------------------------------------------------------
(* Venues: turf, camera, call and joined are v1 to v4.                     *)

VenuesTyped ==
  /\ v1 \in [Nights -> W!Turf \cup {None}]
  /\ v2 \in [UsersOf -> W!Camera \cup {None}]
  /\ v3 \in [CallsOf -> W!Call]
  /\ \A c \in CallsOf : v3[c].pc = "save" => v3[c].read \in W!Camera
VenuesInv == VenuesTyped /\ W!VenueWhole

LEMMA VenueIdle == W!Idle \in W!Call /\ W!Idle.pc = "idle"
BY DEF W!Call, W!Idle

LEMMA VenuesBegin == W!Init => VenuesInv
<1> USE VenueIdle
<1> SUFFICES ASSUME W!Init PROVE VenuesInv
  OBVIOUS
<1>1. W!Live = {} /\ \A c \in CallsOf : v3[c].pc = "idle"
  BY DEF W!Init, W!Live
<1> QED BY <1>1 DEF W!Init, VenuesInv, VenuesTyped, W!VenueWhole

\* A turf that is made, renamed or removed.
LEMMA VenuesTurf ==
  ASSUME VenuesInv, NEW t \in Nights, NEW r \in W!Turf \cup {None},
         v1' = [v1 EXCEPT ![t] = r], UNCHANGED <<v2, v3>>,
         \/ r = None /\ v4' = v4
         \/ r \in W!Turf /\ v4' = (v4 \/ W!Joins(t, r.name, r.hidden))
  PROVE  VenuesInv'
<1>1. VenuesTyped'
  BY DEF VenuesInv, VenuesTyped
<1>2. W!Live' \subseteq W!Live \cup {t} /\ W!Live \subseteq Nights
      /\ \A s \in W!Live' \ {t} : v1'[s] = v1[s] /\ s \in W!Live
  BY DEF W!Live, VenuesInv, VenuesTyped
<1>3. ASSUME ~v4' PROVE ~v4
  BY <1>3
<1>4. CASE r = None /\ v4' = v4
  <2>1. t \notin W!Live'
    BY <1>4 DEF W!Live, VenuesInv, VenuesTyped
  <2> QED BY <1>1, <1>2, <1>3, <2>1 DEF VenuesInv, W!VenueWhole
<1>5. CASE r \in W!Turf /\ v4' = (v4 \/ W!Joins(t, r.name, r.hidden))
  <2>1. v1'[t] = r
    BY DEF VenuesInv, VenuesTyped
  <2>2. ASSUME ~v4'
        PROVE  /\ \A s \in W!Live \ {t} : v1[s].name = r.name => v1[s].hidden = r.hidden
               /\ \A d \in CallsOf : v3[d].venue # r.name /\ t \notin v3[d].ids
    BY <1>5, <2>2 DEF W!Joins, W!Of
  <2>3. W!VenueWhole'
    BY <1>2, <1>3, <2>1, <2>2 DEF VenuesInv, W!VenueWhole
  <2> QED BY <1>1, <2>3 DEF VenuesInv
<1> QED BY <1>4, <1>5

LEMMA VenuesCamera ==
  ASSUME VenuesInv, v2' \in [UsersOf -> W!Camera \cup {None}], UNCHANGED <<v1, v3, v4>>
  PROVE  VenuesInv'
BY DEF VenuesInv, VenuesTyped, W!VenueWhole, W!Live

\* A call that goes on, but is not about to set the turfs.
LEMMA VenuesCall ==
  ASSUME VenuesInv, NEW c \in CallsOf, NEW new \in W!Call, W!Go(c, new),
         new.pc # "turfs", new.pc = "save" => new.read \in W!Camera,
         v2' \in [UsersOf -> W!Camera \cup {None}], UNCHANGED <<v1, v4>>
  PROVE  VenuesInv'
<1>1. /\ v3' \in [CallsOf -> W!Call] /\ v3'[c] = new
      /\ \A d \in CallsOf \ {c} : v3'[d] = v3[d]
  BY DEF VenuesInv, VenuesTyped, W!Go
<1>2. VenuesTyped'
  BY <1>1 DEF VenuesInv, VenuesTyped
<1>3. W!VenueWhole'
  BY <1>1 DEF VenuesInv, W!VenueWhole, W!Live
<1> QED BY <1>2, <1>3 DEF VenuesInv

LEMMA VenuesFind ==
  ASSUME VenuesInv, NEW c \in CallsOf, W!FindSiblings(c)
  PROVE  VenuesInv'
<1> DEFINE new == [v3[c] EXCEPT !.pc = "turfs", !.ids = W!Siblings(c)]
<1>1. /\ new \in W!Call /\ new.pc = "turfs" /\ new.venue = v3[c].venue
      /\ new.ids = {t \in W!Live : v1[t].name = new.venue}
  <2> PICK k \in W!Call : k = v3[c]
    BY DEF VenuesInv, VenuesTyped
  <2> QED BY DEF W!Call, W!Siblings, W!Of, W!Live
<1>2. W!Go(c, new) /\ UNCHANGED <<v1, v2, v4>>
  BY DEF W!FindSiblings
<1> HIDE DEF new
<1>3. /\ v3' \in [CallsOf -> W!Call] /\ v3'[c] = new
      /\ \A d \in CallsOf \ {c} : v3'[d] = v3[d]
  BY <1>1, <1>2 DEF VenuesInv, VenuesTyped, W!Go
<1>4. VenuesTyped'
  BY <1>1, <1>2, <1>3 DEF VenuesInv, VenuesTyped
<1>5. W!VenueWhole'
  BY <1>1, <1>2, <1>3 DEF VenuesInv, W!VenueWhole, W!Live
<1> QED BY <1>4, <1>5 DEF VenuesInv

LEMMA VenuesHide ==
  ASSUME VenuesInv, NEW c \in CallsOf, W!HideTurfs(c)
  PROVE  VenuesInv'
<1> DEFINE new == [v3[c] EXCEPT !.pc = "cameras"]
<1>1. new \in W!Call /\ new.pc = "cameras" /\ v3[c].hide \in BOOLEAN
  BY DEF VenuesInv, VenuesTyped, W!Call
<1>2. W!Go(c, new) /\ UNCHANGED <<v2, v4>>
  BY DEF W!HideTurfs
<1> HIDE DEF new
<1>3. /\ v3' \in [CallsOf -> W!Call] /\ v3'[c] = new
      /\ \A d \in CallsOf \ {c} : v3'[d] = v3[d]
  BY <1>1, <1>2 DEF VenuesInv, VenuesTyped, W!Go
<1>4. \A t \in W!Live : v1[t] \in W!Turf
  BY DEF VenuesInv, VenuesTyped, W!Live
<1>5. \A t \in W!Live :
        /\ [v1[t] EXCEPT !.hidden = v3[c].hide] \in W!Turf
        /\ [v1[t] EXCEPT !.hidden = v3[c].hide].name = v1[t].name
        /\ [v1[t] EXCEPT !.hidden = v3[c].hide].hidden = v3[c].hide
  BY <1>1, <1>4 DEF W!Turf
<1>6. v1' = [t \in Nights |-> IF t \in v3[c].ids \cap W!Live
                              THEN [v1[t] EXCEPT !.hidden = v3[c].hide] ELSE v1[t]]
  BY DEF W!HideTurfs
<1>7. /\ v1' \in [Nights -> W!Turf \cup {None}]
      /\ W!Live' \subseteq W!Live
      /\ \A t \in W!Live : /\ v1'[t].name = v1[t].name
                           /\ v1'[t].hidden = IF t \in v3[c].ids THEN v3[c].hide ELSE v1[t].hidden
  BY <1>5, <1>6 DEF VenuesInv, VenuesTyped, W!Live
<1>8. VenuesTyped'
  BY <1>1, <1>2, <1>3, <1>7 DEF VenuesInv, VenuesTyped
<1>9. ASSUME ~v4 PROVE \A t \in W!Live : t \in v3[c].ids <=> v1[t].name = v3[c].venue
  BY <1>9 DEF VenuesInv, W!VenueWhole, W!HideTurfs
<1>10. W!VenueWhole'
  BY <1>1, <1>2, <1>3, <1>7, <1>9 DEF VenuesInv, W!VenueWhole
<1> QED BY <1>8, <1>10 DEF VenuesInv

\* The cameras' forms, and the page that saves a whole row.
LEMMA VenuesCameras ==
  ASSUME VenuesInv,
         \/ \E t \in Nights, m \in UsersOf : W!AddCamera(m, t) \/ W!MoveCamera(m, t)
         \/ \E m \in UsersOf : W!RemoveCamera(m)
  PROVE  VenuesInv'
<1>1. ASSUME NEW t \in Nights, NEW m \in UsersOf, W!AddCamera(m, t) PROVE VenuesInv'
  <2>1. [on |-> t, hidden |-> FALSE] \in W!Camera
    BY DEF W!Camera
  <2> QED BY <1>1, <2>1, VenuesCamera DEF W!AddCamera, VenuesInv, VenuesTyped
<1>2. ASSUME NEW t \in Nights, NEW m \in UsersOf, W!MoveCamera(m, t) PROVE VenuesInv'
  <2> PICK k \in W!Camera : k = v2[m]
    BY <1>2 DEF W!MoveCamera, VenuesInv, VenuesTyped
  <2>1. [k EXCEPT !.on = t] \in W!Camera
    BY DEF W!Camera
  <2> QED BY <1>2, <2>1, VenuesCamera DEF W!MoveCamera, VenuesInv, VenuesTyped
<1>3. ASSUME NEW m \in UsersOf, W!RemoveCamera(m) PROVE VenuesInv'
  BY <1>3, VenuesCamera DEF W!RemoveCamera, VenuesInv, VenuesTyped
<1> QED BY <1>1, <1>2, <1>3

LEMMA VenuesCalls ==
  ASSUME VenuesInv, NEW c \in CallsOf,
         \/ \E t \in Nights, hide \in BOOLEAN : W!SetVisibility(c, t, hide)
         \/ \E m \in UsersOf : W!MapCamera(c, m)
         \/ W!SaveCamera(c) \/ W!HideCameras(c)
  PROVE  VenuesInv'
<1> USE VenueIdle
<1>0. v2 \in [UsersOf -> W!Camera \cup {None}]
  BY DEF VenuesInv, VenuesTyped
<1>1. ASSUME NEW t \in Nights, NEW hide \in BOOLEAN, W!SetVisibility(c, t, hide)
      PROVE  VenuesInv'
  <2> DEFINE new == [W!Idle EXCEPT !.pc = "siblings", !.venue = v1[t].name,
                                   !.ids = {t}, !.hide = hide]
  <2>1. v1[t].name \in Nights
    BY <1>1 DEF W!SetVisibility, VenuesInv, VenuesTyped, W!Turf
  <2>2. new \in W!Call /\ new.pc = "siblings"
    BY <2>1 DEF W!Call, W!Idle
  <2>3. W!Go(c, new) /\ UNCHANGED <<v1, v2, v4>>
    BY <1>1 DEF W!SetVisibility
  <2> HIDE DEF new
  <2> QED BY <1>0, <2>2, <2>3, VenuesCall
<1>2. ASSUME NEW m \in UsersOf, W!MapCamera(c, m) PROVE VenuesInv'
  <2> PICK k \in W!Camera : k = v2[m]
    BY <1>2 DEF W!MapCamera, VenuesInv, VenuesTyped
  <2> PICK h \in BOOLEAN :
        W!Go(c, [W!Idle EXCEPT !.pc = "save", !.cam = m, !.read = [k EXCEPT !.hidden = h]])
    BY <1>2 DEF W!MapCamera
  <2> DEFINE new == [W!Idle EXCEPT !.pc = "save", !.cam = m,
                                   !.read = [k EXCEPT !.hidden = h]]
  <2>1. [k EXCEPT !.hidden = h] \in W!Camera
    BY DEF W!Camera
  <2>2. new \in W!Call /\ new.pc = "save" /\ new.read \in W!Camera
    BY <2>1 DEF W!Call, W!Idle
  <2>3. W!Go(c, new) /\ UNCHANGED <<v1, v2, v4>>
    BY <1>2 DEF W!MapCamera
  <2> HIDE DEF new
  <2> QED BY <1>0, <2>2, <2>3, VenuesCall
<1>3. CASE W!SaveCamera(c)
  <2>1. v2' \in [UsersOf -> W!Camera \cup {None}]
    BY <1>0, <1>3 DEF W!SaveCamera, VenuesInv, VenuesTyped
  <2> QED BY <1>3, <2>1, VenuesCall DEF W!SaveCamera
<1>4. CASE W!HideCameras(c)
  <2>1. v3[c].hide \in BOOLEAN
    BY DEF VenuesInv, VenuesTyped, W!Call
  <2>2. \A k \in W!Camera : [k EXCEPT !.hidden = v3[c].hide] \in W!Camera
    BY <2>1 DEF W!Camera
  <2>3. v2' \in [UsersOf -> W!Camera \cup {None}]
    BY <1>0, <1>4, <2>2 DEF W!HideCameras
  <2> QED BY <1>4, <2>3, VenuesCall DEF W!HideCameras
<1> QED BY <1>1, <1>2, <1>3, <1>4

LEMMA VenuesTurfs ==
  ASSUME VenuesInv, NEW t \in Nights,
         \/ \E name \in Nights : W!Create(t, name) \/ W!Rename(t, name)
         \/ W!Remove(t)
  PROVE  VenuesInv'
<1>1. ASSUME NEW name \in Nights, W!Create(t, name) PROVE VenuesInv'
  <2> DEFINE r == [name |-> name, hidden |-> FALSE]
  <2>1. r \in W!Turf /\ r.name = name /\ r.hidden = FALSE
    BY DEF W!Turf
  <2>2. v1' = [v1 EXCEPT ![t] = r] /\ v4' = (v4 \/ W!Joins(t, name, FALSE))
        /\ UNCHANGED <<v2, v3>>
    BY <1>1 DEF W!Create
  <2> HIDE DEF r
  <2> QED BY <2>1, <2>2, VenuesTurf
<1>2. ASSUME NEW name \in Nights, W!Rename(t, name) PROVE VenuesInv'
  <2> PICK k \in W!Turf : k = v1[t]
    BY <1>2 DEF W!Rename, VenuesInv, VenuesTyped
  <2> DEFINE r == [k EXCEPT !.name = name]
  <2>1. r \in W!Turf /\ r.name = name /\ r.hidden = k.hidden
    BY DEF W!Turf
  <2>2. v1' = [v1 EXCEPT ![t] = r] /\ v4' = (v4 \/ W!Joins(t, name, k.hidden))
        /\ UNCHANGED <<v2, v3>>
    BY <1>2 DEF W!Rename
  <2> HIDE DEF r
  <2> QED BY <2>1, <2>2, VenuesTurf
<1>3. CASE W!Remove(t)
  BY <1>3, VenuesTurf DEF W!Remove
<1> QED BY <1>1, <1>2, <1>3

LEMMA VenuesStep == VenuesInv /\ W!Next => VenuesInv'
BY VenuesTurfs, VenuesCameras, VenuesCalls, VenuesFind, VenuesHide DEF W!Next

LEMMA VenuesTold == VenuesInv => W!FleetTellsApp
<1> SUFFICES ASSUME VenuesInv, ~v4, NEW name \in W!Fleet
             PROVE  W!FleetHidden(name) <=> \A m \in W!Courts(name) : ~W!Visible(m)
  BY DEF W!FleetTellsApp
<1>1. \A s, t \in W!Of(name) : v1[s].hidden = v1[t].hidden
  BY DEF VenuesInv, W!VenueWhole, W!Of
<1>2. \A m \in W!Courts(name) : v2[m].on \in W!Of(name)
  BY DEF W!Courts
<1>3. CASE W!VenueHidden(name)
  <2>1. \A m \in W!Courts(name) : v1[v2[m].on].hidden
    BY <1>1, <1>2, <1>3 DEF W!VenueHidden
  <2> QED BY <1>3, <2>1 DEF W!FleetHidden, W!Visible
<1>4. CASE ~W!VenueHidden(name)
  <2>1. \A m \in W!Courts(name) : ~v1[v2[m].on].hidden
    BY <1>2, <1>4 DEF W!VenueHidden
  <2> QED BY <1>4, <2>1 DEF W!FleetHidden, W!Visible
<1> QED BY <1>3, <1>4

\* The fleet's page calls a venue hidden exactly when the app shows none of its
\* courts, at every point of setVenuesAppVisibility's two updates and whatever
\* whole rows are saved over them; unless a turf joined the venue from elsewhere.
THEOREM FleetAndAppAgree == Spec => []FleetTellsApp
<1> DEFINE Inv == which = "venues" => VenuesInv
<1>1. Init => Inv
  BY VenuesBegin DEF Init
<1>2. Inv /\ [Next]_vars => Inv'
  <2> SUFFICES ASSUME Inv, [Next]_vars, which' = "venues" PROVE VenuesInv'
    OBVIOUS
  <2>1. CASE UNCHANGED vars
    BY <2>1 DEF vars, VenuesInv, VenuesTyped, W!VenueWhole, W!Live
  <2>2. CASE Next
    <3>1. which = "venues" /\ W!Next
      BY <2>2 DEF Next
    <3> QED BY <3>1, VenuesStep
  <2> QED BY <2>1, <2>2
<1>3. Inv => FleetTellsApp
  BY VenuesTold DEF FleetTellsApp
<1> QED BY <1>1, <1>2, <1>3, PTL DEF Spec

-----------------------------------------------------------------------------
(* A court's live streams: lists, open, mux, fed, call and disturbed are   *)
(* v1 to v6.                                                               *)

StreamsTyped ==
  /\ v1 \in [Cups -> [SlotsOf -> V!Entry]] /\ v2 \subseteq Cups
  /\ v3 \in [Mux -> {"none", "enabled", "disabled"}]
  /\ v5 \in [CallsOf -> V!Call]
  /\ \A c \in CallsOf : v5[c].pc # "idle" => v5[c].slot \in SlotsOf
StreamsInv == StreamsTyped /\ V!OneHandler

LEMMA StreamsIdle ==
  /\ V!Idle \in V!Call /\ V!Idle.pc = "idle" /\ V!NoEntry \in V!Entry
  /\ V!NoEntry.stream = None /\ ~V!NoEntry.live
BY DEF V!Call, V!Idle, V!NoEntry, V!Entry, V!NoLists

LEMMA StreamsBegin == V!Init => StreamsInv
<1> USE StreamsIdle
<1> SUFFICES ASSUME V!Init PROVE StreamsInv
  OBVIOUS
<1>1. /\ v1 = [t \in Cups |-> [s \in SlotsOf |-> V!NoEntry]]
      /\ v2 = Cups /\ v3 = [m \in Mux |-> "none"] /\ v5 = [c \in CallsOf |-> V!Idle]
  BY DEF V!Init, V!NoLists
<1> HIDE DEF V!Idle, V!NoEntry
<1>2. StreamsTyped
  BY <1>1 DEF StreamsTyped
<1>3. V!StreamOfSlot /\ \A t \in Cups, s \in SlotsOf : V!ShownAt(t, s)
  BY <1>1 DEF V!StreamOfSlot, V!ShownAt
<1>4. \A c \in CallsOf : v5[c].pc = "idle"
  BY <1>1
<1>5. V!OneHandler
  BY <1>1, <1>3, <1>4 DEF V!OneHandler, V!InHand
<1> QED BY <1>2, <1>5 DEF StreamsInv

LEMMA StreamsIdleHand ==
  ASSUME NEW k \in V!Call, k.pc = "idle"
  PROVE  V!InHand(k)'
BY DEF V!InHand

\* A step of a call c, which is the only one unless the history says otherwise.
LEMMA StreamsPut ==
  ASSUME StreamsInv, NEW c \in CallsOf, NEW new \in V!Call, V!Go(c, new),
         new.pc # "idle" => new.slot \in SlotsOf,
         v1' \in [Cups -> [SlotsOf -> V!Entry]], UNCHANGED v2,
         v3' \in [Mux -> {"none", "enabled", "disabled"}],
         ~v6' =>
           /\ \A d \in CallsOf \ {c} : v5[d].pc = "idle"
           /\ V!StreamOfSlot' /\ V!InHand(new)'
           /\ \A t \in v2, s \in SlotsOf : V!ShownAt(t, s)' \/ V!ToMark(new, t, s)
  PROVE  StreamsInv'
<1>1. /\ v5' \in [CallsOf -> V!Call] /\ v5'[c] = new
      /\ \A d \in CallsOf \ {c} : v5'[d] = v5[d]
  BY DEF StreamsInv, StreamsTyped, V!Go
<1>2. StreamsTyped'
  BY <1>1 DEF StreamsInv, StreamsTyped
<1>3. V!OneHandler'
  <2> SUFFICES ASSUME ~v6' PROVE V!OneHandler'
    BY DEF V!OneHandler
  <2>1. \A d \in CallsOf \ {c} : v5'[d].pc = "idle"
    BY <1>1
  <2>2. \A d \in CallsOf : V!InHand(v5[d])'
    <3> TAKE d \in CallsOf
    <3>1. CASE d = c
      BY <1>1, <3>1
    <3>2. CASE d # c
      BY <2>1, <3>2 DEF V!InHand
    <3> QED BY <3>1, <3>2
  <2>3. \A t \in v2', s \in SlotsOf :
          V!ShownAt(t, s)' \/ \E d \in CallsOf : V!ToMark(v5'[d], t, s)
    BY <1>1
  <2>4. \A d, e \in CallsOf : v5'[d].pc # "idle" /\ v5'[e].pc # "idle" => d = e
    BY <2>1
  <2>5. \A t, s, d : V!ToMark(v5[d], t, s)' <=> V!ToMark(v5'[d], t, s)
    BY DEF V!ToMark
  <2> QED BY <2>2, <2>3, <2>4, <2>5 DEF V!OneHandler
<1> QED BY <1>2, <1>3 DEF StreamsInv

\* What holds while c, in the middle of its work, is the only call.
LEMMA StreamsAlone ==
  ASSUME StreamsInv, ~v6, NEW c \in CallsOf, v5[c].pc # "idle"
  PROVE  /\ \A d \in CallsOf \ {c} : v5[d].pc = "idle"
         /\ V!StreamOfSlot /\ V!InHand(v5[c])
         /\ \A t \in v2, s \in SlotsOf : V!ShownAt(t, s) \/ V!ToMark(v5[c], t, s)
         /\ v5[c].pc # "offline" => \A t \in v2, s \in SlotsOf : V!ShownAt(t, s)
BY DEF StreamsInv, V!OneHandler, V!ToMark

\* A call begins, and is the only one, or the history says so.
LEMMA StreamsBegun ==
  ASSUME StreamsInv, NEW c \in CallsOf, NEW s \in SlotsOf, NEW pc \in {"feed", "find"},
         NEW m \in Mux \cup {None}, V!Begin(c, s, pc, m)
  PROVE  \E new \in V!Call :
           /\ V!Go(c, new) /\ new.pc = pc /\ new.slot = s /\ new.stream = m
           /\ ~v6' => /\ ~v6 /\ V!StreamOfSlot
                      /\ \A d \in CallsOf : v5[d].pc = "idle"
                      /\ \A t \in v2, r \in SlotsOf : V!ShownAt(t, r)
<1> DEFINE new == [V!Idle EXCEPT !.pc = pc, !.slot = s, !.stream = m]
<1>1. new \in V!Call /\ new.pc = pc /\ new.slot = s /\ new.stream = m
  BY DEF V!Call, V!Idle, V!NoLists, V!NoEntry, V!Entry
<1>2. V!Go(c, new)
  BY DEF V!Begin
<1> HIDE DEF new
<1>3. ASSUME ~v6'
      PROVE  /\ ~v6 /\ V!StreamOfSlot
             /\ \A d \in CallsOf : v5[d].pc = "idle"
             /\ \A t \in v2, r \in SlotsOf : V!ShownAt(t, r)
  <2>1. ~v6 /\ \A d \in CallsOf : v5[d].pc = "idle"
    BY <1>3 DEF V!Begin
  <2> QED BY <2>1 DEF StreamsInv, V!OneHandler, V!ToMark
<1> QED BY <1>1, <1>2, <1>3

LEMMA StreamsStart ==
  ASSUME StreamsInv, NEW c \in CallsOf, NEW s \in SlotsOf, V!Start(c, s)
  PROVE  StreamsInv'
<1> PICK m \in Mux : /\ v3[m] = "none" /\ v3' = [v3 EXCEPT ![m] = "enabled"]
                    /\ V!Begin(c, s, "feed", m)
  BY DEF V!Start
<1> PICK new \in V!Call :
      /\ V!Go(c, new) /\ new.pc = "feed" /\ new.slot = s /\ new.stream = m
      /\ ~v6' => /\ ~v6 /\ V!StreamOfSlot
                 /\ \A d \in CallsOf : v5[d].pc = "idle"
                 /\ \A t \in v2, r \in SlotsOf : V!ShownAt(t, r)
  BY StreamsBegun
<1>1. /\ v3' \in [Mux -> {"none", "enabled", "disabled"}] /\ v3'[m] = "enabled"
      /\ \A n \in Mux \ {m} : v3'[n] = v3[n]
  BY DEF StreamsInv, StreamsTyped
<1>2. UNCHANGED <<v1, v2>> /\ v1 \in [Cups -> [SlotsOf -> V!Entry]] /\ v2 \subseteq Cups
  BY DEF StreamsInv, StreamsTyped, V!Start
<1>3. m # None /\ m \notin V!Made /\ V!Made' = V!Made \cup {m} /\ V!Made \subseteq Mux
  BY <1>1, ServicesAssumption DEF V!Made
<1>4. ASSUME ~v6'
      PROVE  /\ V!StreamOfSlot' /\ V!InHand(new)'
             /\ \A t \in v2, r \in SlotsOf : V!ShownAt(t, r)'
  <2>1. V!StreamOfSlot'
    BY <1>2, <1>3, <1>4 DEF V!StreamOfSlot
  <2>2. \A t \in Cups, r \in SlotsOf : v1[t][r].stream # m
    BY <1>3, <1>4 DEF V!StreamOfSlot
  <2>3. V!InHand(new)'
    BY <1>1, <1>2, <1>3, <2>2 DEF V!InHand
  <2>4. \A t \in v2, r \in SlotsOf : V!ShownAt(t, r)'
    <3> SUFFICES ASSUME NEW t \in v2, NEW r \in SlotsOf, v1[t][r].live
                 PROVE  v3'[v1[t][r].stream] = "enabled"
      BY <1>2 DEF V!ShownAt
    <3>1. v1[t][r].stream \in V!Made /\ v3[v1[t][r].stream] = "enabled"
      BY <1>2, <1>4 DEF V!ShownAt, V!StreamOfSlot
    <3> QED BY <1>1, <1>3, <3>1
  <2> QED BY <2>1, <2>3, <2>4
<1> QED BY <1>1, <1>2, <1>4, StreamsPut

LEMMA StreamsStop ==
  ASSUME StreamsInv, NEW c \in CallsOf, NEW s \in SlotsOf, V!Stop(c, s)
  PROVE  StreamsInv'
<1> PICK m \in {None} \cup {v1[t][s].stream : t \in v2} : V!Begin(c, s, "find", m)
  BY DEF V!Stop
<1>1. UNCHANGED <<v1, v2, v3>> /\ StreamsTyped
  BY DEF StreamsInv, V!Stop
<1>2. m \in Mux \cup {None}
  BY <1>1 DEF StreamsTyped, V!Entry
<1> PICK new \in V!Call :
      /\ V!Go(c, new) /\ new.pc = "find" /\ new.slot = s /\ new.stream = m
      /\ ~v6' => /\ ~v6 /\ V!StreamOfSlot
                 /\ \A d \in CallsOf : v5[d].pc = "idle"
                 /\ \A t \in v2, r \in SlotsOf : V!ShownAt(t, r)
  BY <1>2, StreamsBegun
<1>3. ASSUME ~v6'
      PROVE  /\ V!StreamOfSlot' /\ V!InHand(new)'
             /\ \A t \in v2, r \in SlotsOf : V!ShownAt(t, r)'
  <2>1. V!StreamOfSlot' /\ V!Made' = V!Made
    BY <1>1, <1>3 DEF V!StreamOfSlot, V!Made
  <2>2. \A t \in v2, r \in SlotsOf : V!ShownAt(t, r)'
    BY <1>1, <1>3 DEF V!ShownAt
  <2>3. m \in V!Made \cup {None}
        /\ (m # None => \A t \in Cups, r \in SlotsOf : v1[t][r].stream = m => r = s)
    BY <1>1, <1>3 DEF V!StreamOfSlot, StreamsTyped
  <2>4. V!InHand(new)'
    BY <1>1, <2>1, <2>3 DEF V!InHand
  <2> QED BY <2>1, <2>2, <2>4
<1> QED BY <1>1, <1>3, StreamsPut DEF StreamsTyped

\* The handler turns to the tournaments, if there are any.
LEMMA StreamsEnter ==
  ASSUME StreamsInv, NEW c \in CallsOf, v5[c].pc # "idle", NEW pc \in {"enter", "offline"},
         NEW m \in Mux \cup {None}, V!Enter(c, pc, m)
  PROVE  \E new \in V!Call :
           /\ V!Go(c, new)
           /\ \/ new.pc = "idle" /\ v2 = {}
              \/ /\ new.pc = pc /\ new.slot = v5[c].slot /\ new.stream = m
                 /\ new.read = v1 /\ new.todo = v2
<1> DEFINE new == [v5[c] EXCEPT !.pc = IF v2 = {} THEN "idle" ELSE pc, !.stream = m,
                       !.slot = IF v2 = {} THEN None ELSE @,
                       !.read = IF v2 = {} THEN V!NoLists ELSE v1,
                       !.todo = v2]
<1>1. V!Go(c, new)
  BY DEF V!Enter
<1>2. v5[c] \in V!Call /\ v1 \in [Cups -> [SlotsOf -> V!Entry]] /\ v2 \in SUBSET Cups
      /\ V!NoLists \in [Cups -> [SlotsOf -> V!Entry]]
  BY DEF StreamsInv, StreamsTyped, V!NoLists, V!NoEntry, V!Entry
<1> HIDE DEF V!Go, V!NoLists, V!Entry
<1>3. CASE v2 = {}
  <2>1. new = [v5[c] EXCEPT !.pc = "idle", !.stream = m, !.slot = None,
                            !.read = V!NoLists, !.todo = v2]
    BY <1>3
  <2> HIDE DEF new
  <2>2. new \in V!Call /\ new.pc = "idle"
    BY <1>2, <2>1 DEF V!Call
  <2> QED BY <1>1, <1>3, <2>2
<1>4. CASE v2 # {}
  <2>1. new = [v5[c] EXCEPT !.pc = pc, !.stream = m, !.read = v1, !.todo = v2]
    BY <1>2, <1>4 DEF V!Call
  <2> HIDE DEF new
  <2>2. new \in V!Call /\ new.pc = pc /\ new.slot = v5[c].slot /\ new.stream = m
        /\ new.read = v1 /\ new.todo = v2
    BY <1>2, <2>1 DEF V!Call
  <2> QED BY <1>1, <2>2
<1> QED BY <1>3, <1>4

\* So it does when Mux is done, or has nothing to do.
LEMMA StreamsEntered ==
  ASSUME StreamsInv, NEW c \in CallsOf, v5[c].pc \in {"feed", "find", "disable"},
         NEW pc \in {"enter", "offline"},
         NEW m \in Mux \cup {None}, V!Enter(c, pc, m), UNCHANGED <<v1, v2, v6>>,
         \/ m = v5[c].stream
         \/ m = None /\ pc = "offline",
         pc = "enter" => v5[c].pc = "feed" /\ v3' = v3,
         v3' \in [Mux -> {"none", "enabled", "disabled"}],
         \A n \in Mux : v3'[n] = v3[n] \/ (m = n /\ v3[n] # "none" /\ v3'[n] = "disabled")
  PROVE  StreamsInv'
<1>1. v5[c].pc # "idle" /\ v5[c].pc # "offline"
  OBVIOUS
<1> PICK new \in V!Call :
      /\ V!Go(c, new)
      /\ \/ new.pc = "idle" /\ v2 = {}
         \/ /\ new.pc = pc /\ new.slot = v5[c].slot /\ new.stream = m
            /\ new.read = v1 /\ new.todo = v2
  BY <1>1, StreamsEnter
<1>2. v1 \in [Cups -> [SlotsOf -> V!Entry]] /\ v2 \subseteq Cups /\ v5[c].slot \in SlotsOf
  BY <1>1 DEF StreamsInv, StreamsTyped
<1>3. V!Made' = V!Made
  BY DEF V!Made
<1>4. ASSUME ~v6'
      PROVE  /\ \A d \in CallsOf \ {c} : v5[d].pc = "idle"
             /\ V!StreamOfSlot' /\ V!InHand(new)'
             /\ \A t \in v2, s \in SlotsOf : V!ShownAt(t, s)' \/ V!ToMark(new, t, s)
  <2>1. /\ \A d \in CallsOf \ {c} : v5[d].pc = "idle"
        /\ V!StreamOfSlot /\ V!InHand(v5[c])
        /\ \A t \in v2, s \in SlotsOf : V!ShownAt(t, s)
    BY <1>1, <1>4, StreamsAlone
  <2>2. V!StreamOfSlot'
    BY <1>3, <2>1 DEF V!StreamOfSlot
  <2>3. V!InHand(new)'
    BY <1>1, <1>2, <1>3, <2>1 DEF V!InHand
  <2>4. \A t \in v2, s \in SlotsOf : V!ShownAt(t, s)' \/ V!ToMark(new, t, s)
    <3> SUFFICES ASSUME NEW t \in v2, NEW s \in SlotsOf, ~V!ShownAt(t, s)'
                 PROVE  V!ToMark(new, t, s)
      OBVIOUS
    <3>1. v1[t][s].live /\ v3'[v1[t][s].stream] # "enabled"
          /\ v3[v1[t][s].stream] = "enabled" /\ v1[t][s].stream \in V!Made
      BY <1>2, <2>1 DEF V!ShownAt, V!StreamOfSlot
    <3>2. v1[t][s].stream = m /\ v3' # v3 /\ m \in V!Made
      BY <3>1 DEF V!Made
    <3>3. m # None
      BY <3>2, ServicesAssumption DEF V!Made
    <3>4. s = v5[c].slot
      BY <1>1, <1>2, <2>1, <3>2, <3>3 DEF V!InHand
    <3>5. pc = "offline" /\ v2 # {}
      BY <3>2
    <3> QED BY <3>4, <3>5 DEF V!ToMark
  <2> QED BY <2>1, <2>2, <2>3, <2>4
<1>5. new.pc # "idle" => new.slot \in SlotsOf
  BY <1>2
<1> QED BY <1>2, <1>4, <1>5, StreamsPut

LEMMA StreamsFeed ==
  ASSUME StreamsInv, NEW c \in CallsOf, V!Feed(c)
  PROVE  StreamsInv'
<1>1. /\ v5[c].pc = "feed" /\ V!Enter(c, "enter", v5[c].stream)
      /\ UNCHANGED <<v1, v2, v3, v6>>
  BY DEF V!Feed
<1>2. v5[c].stream \in Mux \cup {None} /\ v3 \in [Mux -> {"none", "enabled", "disabled"}]
  BY DEF StreamsInv, StreamsTyped, V!Call
<1>3. v3' \in [Mux -> {"none", "enabled", "disabled"}] /\ \A n \in Mux : v3'[n] = v3[n]
  BY <1>1, <1>2
<1> PICK m : m = v5[c].stream
  OBVIOUS
<1>4. V!Enter(c, "enter", m) /\ m \in Mux \cup {None} /\ m = v5[c].stream
  BY <1>1, <1>2
<1> QED BY <1>1, <1>3, <1>4, StreamsEntered

LEMMA StreamsStopFeed ==
  ASSUME StreamsInv, NEW c \in CallsOf, V!StopFeed(c)
  PROVE  StreamsInv'
<1>1. v5[c].pc = "find" /\ UNCHANGED <<v1, v2, v3, v6>> /\ v5[c] \in V!Call
      /\ v3 \in [Mux -> {"none", "enabled", "disabled"}]
      /\ v1 \in [Cups -> [SlotsOf -> V!Entry]] /\ v2 \subseteq Cups /\ v5[c].slot \in SlotsOf
  BY DEF V!StopFeed, StreamsInv, StreamsTyped
<1>2. CASE V!Enter(c, "offline", None)
  <2>1. v3' \in [Mux -> {"none", "enabled", "disabled"}] /\ \A n \in Mux : v3'[n] = v3[n]
    BY <1>1
  <2>2. None \in Mux \cup {None}
    OBVIOUS
  <2> QED BY <1>1, <1>2, <2>1, <2>2, StreamsEntered
<1>3. ASSUME NEW m \in Mux, m # None, V!Go(c, [v5[c] EXCEPT !.pc = "disable", !.stream = m]),
             \/ m = v5[c].stream
             \/ m \in V!Stored(v5[c].slot)
      PROVE  StreamsInv'
  <2> PICK new : new = [v5[c] EXCEPT !.pc = "disable", !.stream = m]
    OBVIOUS
  <2>1. new \in V!Call /\ new.pc = "disable" /\ new.stream = m /\ new.slot = v5[c].slot
    BY <1>1 DEF V!Call
  <2>2. V!Go(c, new)
    BY <1>3
  <2>3. ASSUME ~v6'
        PROVE  /\ \A d \in CallsOf \ {c} : v5[d].pc = "idle"
               /\ V!StreamOfSlot' /\ V!InHand(new)'
               /\ \A t \in v2, s \in SlotsOf : V!ShownAt(t, s)'
    <3>1. /\ \A d \in CallsOf \ {c} : v5[d].pc = "idle"
          /\ V!StreamOfSlot /\ V!InHand(v5[c])
          /\ \A t \in v2, s \in SlotsOf : V!ShownAt(t, s)
      BY <1>1, <2>3, StreamsAlone
    <3>2. V!StreamOfSlot' /\ V!Made' = V!Made
      BY <1>1, <3>1 DEF V!StreamOfSlot, V!Made
    <3>3. \A t \in v2, s \in SlotsOf : V!ShownAt(t, s)'
      BY <1>1, <3>1 DEF V!ShownAt
    <3>4. /\ m \in V!Made
          /\ \A t \in Cups, s \in SlotsOf : v1[t][s].stream = m => s = v5[c].slot
      <4>1. CASE m = v5[c].stream
        BY <1>1, <1>3, <3>1, <4>1 DEF V!InHand
      <4>2. CASE m \in V!Stored(v5[c].slot)
        <5> PICK t \in v2 : m = v1[t][v5[c].slot].stream
          BY <4>2 DEF V!Stored
        <5> QED BY <1>1, <1>3, <3>1 DEF V!StreamOfSlot
      <4> QED BY <1>3, <4>1, <4>2
    <3>5. V!InHand(new)'
      <4>1. new.stream \in V!Made' \cup {None}
        BY <2>1, <3>2, <3>4
      <4>2. \A t \in Cups, s \in SlotsOf : v1'[t][s].stream = new.stream => s = new.slot
        BY <1>1, <2>1, <3>4
      <4> QED BY <1>3, <2>1, <4>1, <4>2 DEF V!InHand
    <3> QED BY <3>1, <3>2, <3>3, <3>5
  <2>4. v1' \in [Cups -> [SlotsOf -> V!Entry]]
        /\ v3' \in [Mux -> {"none", "enabled", "disabled"}]
        /\ (new.pc # "idle" => new.slot \in SlotsOf)
    BY <1>1, <2>1
  <2> QED BY <1>1, <2>2, <2>1, <2>3, <2>4, StreamsPut
<1>4. \/ V!Enter(c, "offline", None)
      \/ \E m \in Mux : /\ m # None /\ V!Go(c, [v5[c] EXCEPT !.pc = "disable", !.stream = m])
                        /\ m = v5[c].stream \/ m \in V!Stored(v5[c].slot)
  <2>1. CASE v5[c].stream # None
    <3>1. V!Go(c, [v5[c] EXCEPT !.pc = "disable"]) /\ v5[c].stream \in Mux
      BY <1>1, <2>1 DEF V!StopFeed, V!Call
    <3>2. [v5[c] EXCEPT !.pc = "disable"]
            = [v5[c] EXCEPT !.pc = "disable", !.stream = v5[c].stream]
      BY <1>1 DEF V!Call
    <3> QED BY <2>1, <3>1, <3>2
  <2>2. CASE v5[c].stream = None /\ V!Stored(v5[c].slot) # {}
    <3> PICK m \in V!Stored(v5[c].slot) :
          V!Go(c, [v5[c] EXCEPT !.pc = "disable", !.stream = m])
      BY <2>2 DEF V!StopFeed
    <3>1. m \in Mux /\ m # None
      BY <1>1 DEF V!Stored, V!Entry
    <3> QED BY <3>1
  <2>3. CASE v5[c].stream = None /\ V!Stored(v5[c].slot) = {}
    BY <2>3 DEF V!StopFeed
  <2> QED BY <2>1, <2>2, <2>3
<1> QED BY <1>2, <1>3, <1>4

LEMMA StreamsDisable ==
  ASSUME StreamsInv, NEW c \in CallsOf, V!Disable(c)
  PROVE  StreamsInv'
<1> PICK m : m = v5[c].stream
  OBVIOUS
<1>1. /\ v5[c].pc = "disable" /\ V!Enter(c, "offline", m) /\ UNCHANGED <<v1, v2, v6>>
      /\ v3' \in {v3, [v3 EXCEPT ![m] = "disabled"]}
  BY DEF V!Disable
<1>2. m \in Mux \cup {None} /\ v3 \in [Mux -> {"none", "enabled", "disabled"}]
  BY DEF StreamsInv, StreamsTyped, V!Call
<1>3. v3' \in [Mux -> {"none", "enabled", "disabled"}]
      /\ \A n \in Mux : v3'[n] = v3[n] \/ (m = n /\ v3'[n] = "disabled")
  <2>1. CASE v3' = v3
    BY <1>2, <2>1
  <2>2. CASE v3' = [v3 EXCEPT ![m] = "disabled"]
    BY <1>2, <2>2
  <2> QED BY <1>1, <2>1, <2>2
<1>4. CASE v6
  <2> PICK new \in V!Call :
        /\ V!Go(c, new)
        /\ \/ new.pc = "idle"
           \/ new.slot = v5[c].slot
    BY <1>1, <1>2, StreamsEnter
  <2>1. v5[c].slot \in SlotsOf /\ v1 \in [Cups -> [SlotsOf -> V!Entry]]
    BY <1>1 DEF StreamsInv, StreamsTyped
  <2> QED BY <1>1, <1>3, <1>4, <2>1, StreamsPut
<1>5. CASE ~v6
  <2>1. m \in V!Made
    BY <1>1, <1>5, StreamsAlone DEF V!InHand
  <2>2. \A n \in Mux : v3'[n] = v3[n] \/ (m = n /\ v3[n] # "none" /\ v3'[n] = "disabled")
    BY <1>3, <2>1 DEF V!Made
  <2> QED BY <1>1, <1>2, <1>3, <2>2, StreamsEntered
<1> QED BY <1>4, <1>5

\* One tournament's list is written, and the call goes on with the others.
LEMMA StreamsWritten ==
  ASSUME StreamsInv, NEW c \in CallsOf, v5[c].pc \in {"enter", "offline"},
         NEW t \in v5[c].todo, NEW e \in V!Entry,
         v1' = [v1 EXCEPT ![t] = [v5[c].read[t] EXCEPT ![v5[c].slot] = e]],
         V!Go(c, IF v5[c].todo \ {t} = {} THEN V!Idle
                 ELSE [v5[c] EXCEPT !.todo = v5[c].todo \ {t}]),
         UNCHANGED <<v2, v3, v6>>,
         ~v6 => \/ /\ v5[c].pc = "enter" /\ e.stream = v5[c].stream /\ e.live
                \/ /\ v5[c].pc = "offline" /\ ~e.live
                   /\ e.stream = v1[t][v5[c].slot].stream
  PROVE  StreamsInv'
<1> PICK new : new = IF v5[c].todo \ {t} = {} THEN V!Idle
                      ELSE [v5[c] EXCEPT !.todo = v5[c].todo \ {t}]
  OBVIOUS
<1> PICK slot : slot = v5[c].slot
  OBVIOUS
<1>1. /\ v5[c] \in V!Call /\ v1 \in [Cups -> [SlotsOf -> V!Entry]] /\ v2 \subseteq Cups
      /\ slot \in SlotsOf /\ v3 \in [Mux -> {"none", "enabled", "disabled"}]
  BY DEF StreamsInv, StreamsTyped
<1>2. t \in Cups /\ v5[c].read \in [Cups -> [SlotsOf -> V!Entry]] /\ v5[c].todo \subseteq Cups
  BY <1>1 DEF V!Call
<1>3. V!Go(c, new)
  OBVIOUS
<1> HIDE DEF V!Go, V!Idle, V!Entry
<1>4. /\ new \in V!Call
      /\ \/ new.pc = "idle" /\ v5[c].todo = {t}
         \/ /\ new.pc = v5[c].pc /\ new.slot = slot /\ new.stream = v5[c].stream
            /\ new.read = v5[c].read /\ new.todo = v5[c].todo \ {t}
  <2>1. CASE v5[c].todo \ {t} = {}
    BY <2>1, StreamsIdle
  <2>2. CASE v5[c].todo \ {t} # {}
    <3>1. new = [v5[c] EXCEPT !.todo = v5[c].todo \ {t}]
      BY <2>2
    <3> QED BY <1>1, <1>2, <3>1 DEF V!Call
  <2> QED BY <2>1, <2>2
<1>5. v1' \in [Cups -> [SlotsOf -> V!Entry]] /\ v1'[t] = [v5[c].read[t] EXCEPT ![slot] = e]
      /\ \A u \in Cups \ {t} : v1'[u] = v1[u]
  BY <1>1, <1>2
<1>6. ASSUME ~v6'
      PROVE  /\ \A d \in CallsOf \ {c} : v5[d].pc = "idle"
             /\ V!StreamOfSlot' /\ V!InHand(new)'
             /\ \A u \in v2, s \in SlotsOf : V!ShownAt(u, s)' \/ V!ToMark(new, u, s)
  <2>1. /\ \A d \in CallsOf \ {c} : v5[d].pc = "idle"
        /\ V!StreamOfSlot /\ V!InHand(v5[c])
        /\ \A u \in v2, s \in SlotsOf : V!ShownAt(u, s) \/ V!ToMark(v5[c], u, s)
        /\ v5[c].pc # "offline" => \A u \in v2, s \in SlotsOf : V!ShownAt(u, s)
    BY <1>6, StreamsAlone
  <2>2. v5[c].read[t] = v1[t]
    BY <2>1 DEF V!InHand
  <2>3. /\ v1'[t][slot] = e
        /\ \A u \in Cups, s \in SlotsOf : u # t \/ s # slot => v1'[u][s] = v1[u][s]
    BY <1>1, <1>2, <1>5, <2>2
  <2>4. V!Made' = V!Made
    BY DEF V!Made
  <2>5. CASE v5[c].pc = "enter" /\ e.stream = v5[c].stream /\ e.live
    <3>1. e.stream \in V!Made /\ e.stream # None /\ v3[e.stream] = "enabled"
          /\ \A u \in Cups, s \in SlotsOf : v1[u][s].stream = e.stream => s = slot
      BY <2>1, <2>5 DEF V!InHand
    <3>2. V!StreamOfSlot'
      BY <1>1, <1>2, <2>1, <2>3, <2>4, <3>1 DEF V!StreamOfSlot
    <3>3. \A u \in Cups, s \in SlotsOf : v1'[u][s].stream = e.stream => s = slot
      BY <2>3, <3>1
    <3>4. \A u \in v5[c].todo \ {t} : v5[c].read[u] = v1'[u]
      BY <1>2, <1>5, <2>1, <2>5 DEF V!InHand
    <3>5. V!InHand(new)'
      <4>1. CASE new.pc = "idle"
        BY <1>4, <4>1, StreamsIdleHand
      <4>2. CASE new.pc # "idle"
        <5>1. /\ new.pc = v5[c].pc /\ new.slot = slot /\ new.stream = v5[c].stream
              /\ new.read = v5[c].read /\ new.todo = v5[c].todo \ {t}
          BY <1>4, <4>2
        <5>2. new.stream \in V!Made' \cup {None}
          BY <2>1, <2>4, <2>5, <5>1 DEF V!InHand
        <5>3. \A u \in Cups, s \in SlotsOf :
                new.stream # None /\ v1'[u][s].stream = new.stream => s = new.slot
          BY <2>5, <3>3, <5>1
        <5>4. \A u \in new.todo : new.read[u] = v1'[u]
          BY <3>4, <5>1
        <5> QED BY <2>5, <3>1, <5>1, <5>2, <5>3, <5>4 DEF V!InHand
      <4> QED BY <4>1, <4>2
    <3>6. \A u \in v2, s \in SlotsOf : V!ShownAt(u, s)'
      <4> SUFFICES ASSUME NEW u \in v2, NEW s \in SlotsOf PROVE V!ShownAt(u, s)'
        OBVIOUS
      <4>1. V!ShownAt(u, s) /\ u \in Cups
        BY <1>1, <2>1, <2>5
      <4> QED BY <2>3, <3>1, <4>1 DEF V!ShownAt
    <3> QED BY <2>1, <3>2, <3>5, <3>6
  <2>6. CASE v5[c].pc = "offline" /\ ~e.live /\ e.stream = v1[t][slot].stream
    <3>1. \A u \in Cups, s \in SlotsOf : v1'[u][s].stream = v1[u][s].stream
      BY <2>3, <2>6
    <3>2. \A u \in Cups, s \in SlotsOf : v1'[u][s].live => v1[u][s].live
      BY <2>3, <2>6
    <3>3. V!StreamOfSlot'
      BY <2>1, <2>4, <3>1, <3>2 DEF V!StreamOfSlot
    <3>4. \A u \in v5[c].todo \ {t} : v5[c].read[u] = v1'[u]
      BY <1>2, <1>5, <2>1, <2>6 DEF V!InHand
    <3>5. V!InHand(new)'
      <4>1. CASE new.pc = "idle"
        BY <1>4, <4>1, StreamsIdleHand
      <4>2. CASE new.pc # "idle"
        <5>1. /\ new.pc = v5[c].pc /\ new.slot = slot /\ new.stream = v5[c].stream
              /\ new.read = v5[c].read /\ new.todo = v5[c].todo \ {t}
          BY <1>4, <4>2
        <5>2. new.stream \in V!Made' \cup {None}
          BY <2>1, <2>4, <2>6, <5>1 DEF V!InHand
        <5>3. \A u \in Cups, s \in SlotsOf :
                new.stream # None /\ v1'[u][s].stream = new.stream => s = new.slot
          BY <2>1, <2>6, <3>1, <5>1 DEF V!InHand
        <5>4. \A u \in new.todo : new.read[u] = v1'[u]
          BY <3>4, <5>1
        <5> QED BY <2>6, <5>1, <5>2, <5>3, <5>4 DEF V!InHand
      <4> QED BY <4>1, <4>2
    <3>6. \A u \in v2, s \in SlotsOf : V!ShownAt(u, s)' \/ V!ToMark(new, u, s)
      <4> SUFFICES ASSUME NEW u \in v2, NEW s \in SlotsOf, ~V!ShownAt(u, s)'
                   PROVE  V!ToMark(new, u, s)
        OBVIOUS
      <4>1. u \in Cups
        BY <1>1
      <4>2. ~V!ShownAt(u, s) /\ (u # t \/ s # slot)
        BY <2>3, <2>6, <3>1, <3>2, <4>1 DEF V!ShownAt
      <4>3. V!ToMark(v5[c], u, s)
        BY <2>1, <4>2
      <4> QED BY <1>4, <2>6, <4>2, <4>3 DEF V!ToMark
    <3> QED BY <2>1, <3>3, <3>5, <3>6
  <2> QED BY <1>6, <2>5, <2>6
<1>7. new.pc # "idle" => new.slot \in SlotsOf
  BY <1>1, <1>4
<1>8. new \in V!Call /\ v1' \in [Cups -> [SlotsOf -> V!Entry]] /\ UNCHANGED v2
      /\ v3' \in [Mux -> {"none", "enabled", "disabled"}]
  BY <1>1, <1>4, <1>5
<1> QED BY <1>3, <1>6, <1>7, <1>8, StreamsPut

LEMMA StreamsUpsert ==
  ASSUME StreamsInv, NEW c \in CallsOf, V!UpsertStream(c)
  PROVE  StreamsInv'
<1> PICK e : e = [stream |-> v5[c].stream, live |-> TRUE]
  OBVIOUS
<1>1. v5[c].stream \in Mux \cup {None}
  BY DEF StreamsInv, StreamsTyped, V!Call
<1>2. e \in V!Entry /\ e.stream = v5[c].stream /\ e.live
  BY <1>1 DEF V!Entry
<1> PICK t \in v5[c].todo :
      /\ v1' = [v1 EXCEPT ![t] = [v5[c].read[t] EXCEPT ![v5[c].slot] = e]]
      /\ V!Go(c, IF v5[c].todo \ {t} = {} THEN V!Idle
                 ELSE [v5[c] EXCEPT !.todo = v5[c].todo \ {t}])
  BY DEF V!UpsertStream, V!WriteBack
<1>3. v5[c].pc = "enter" /\ UNCHANGED <<v2, v3, v6>>
  BY DEF V!UpsertStream
<1> QED BY <1>2, <1>3, StreamsWritten

LEMMA StreamsMark ==
  ASSUME StreamsInv, NEW c \in CallsOf, V!MarkOffline(c)
  PROVE  StreamsInv'
<1>1. v5[c].pc = "offline" /\ UNCHANGED <<v2, v3, v6>>
  BY DEF V!MarkOffline
<1>2. v5[c] \in V!Call /\ v5[c].slot \in SlotsOf
  BY <1>1 DEF StreamsInv, StreamsTyped
<1>3. \E t \in v5[c].todo, e \in V!Entry :
        /\ v1' = [v1 EXCEPT ![t] = [v5[c].read[t] EXCEPT ![v5[c].slot] = e]]
        /\ V!Go(c, IF v5[c].todo \ {t} = {} THEN V!Idle
                   ELSE [v5[c] EXCEPT !.todo = v5[c].todo \ {t}])
        /\ ~e.live
        /\ ~v6 => e.stream = v1[t][v5[c].slot].stream
  <2> PICK t \in v5[c].todo :
        /\ v1' = [v1 EXCEPT ![t] = [v5[c].read[t] EXCEPT ![v5[c].slot] = V!Offline(@)]]
        /\ V!Go(c, IF v5[c].todo \ {t} = {} THEN V!Idle
                   ELSE [v5[c] EXCEPT !.todo = v5[c].todo \ {t}])
    BY DEF V!MarkOffline, V!WriteBack
  <2> PICK old : old = v5[c].read[t][v5[c].slot]
    OBVIOUS
  <2>1. old \in V!Entry
    BY <1>2 DEF V!Call
  <2>2. V!Offline(old) \in V!Entry /\ ~V!Offline(old).live
        /\ V!Offline(old).stream = old.stream
    BY <2>1 DEF V!Entry, V!Offline
  <2>3. ~v6 => v5[c].read[t] = v1[t]
    BY <1>1, StreamsAlone DEF V!InHand
  <2> QED BY <2>2, <2>3
<1> QED BY <1>1, <1>3, StreamsWritten

\* A tournament comes or goes, or a call fails.
LEMMA StreamsDisturb ==
  ASSUME StreamsInv, v6', UNCHANGED <<v1, v3>>,
         v2' \subseteq Cups,
         v5' = v5 \/ \E c \in CallsOf : V!Go(c, V!Idle)
  PROVE  StreamsInv'
<1>1. V!OneHandler'
  BY DEF V!OneHandler
<1>2. StreamsTyped'
  BY StreamsIdle DEF StreamsInv, StreamsTyped, V!Go
<1> QED BY <1>1, <1>2 DEF StreamsInv

\* The Pi does not answer.
LEMMA StreamsStopFails ==
  ASSUME StreamsInv, NEW c \in CallsOf, V!StopFails(c)
  PROVE  StreamsInv'
<1>1. v5[c].pc = "find" /\ V!Go(c, V!Idle) /\ UNCHANGED <<v1, v2, v3, v6>>
  BY DEF V!StopFails
<1>2. v1 \in [Cups -> [SlotsOf -> V!Entry]] /\ v3 \in [Mux -> {"none", "enabled", "disabled"}]
  BY DEF StreamsInv, StreamsTyped
<1>3. ASSUME ~v6'
      PROVE  /\ \A d \in CallsOf \ {c} : v5[d].pc = "idle"
             /\ V!StreamOfSlot' /\ V!InHand(V!Idle)'
             /\ \A t \in v2, s \in SlotsOf : V!ShownAt(t, s)'
  <2>1. /\ \A d \in CallsOf \ {c} : v5[d].pc = "idle"
        /\ V!StreamOfSlot /\ \A t \in v2, s \in SlotsOf : V!ShownAt(t, s)
    BY <1>1, <1>3, StreamsAlone
  <2>2. V!StreamOfSlot' /\ \A t \in v2, s \in SlotsOf : V!ShownAt(t, s)'
    BY <1>1, <2>1 DEF V!StreamOfSlot, V!Made, V!ShownAt
  <2> HIDE DEF V!Idle
  <2>3. V!InHand(V!Idle)'
    BY StreamsIdle DEF V!InHand
  <2> QED BY <2>1, <2>2, <2>3
<1> QED BY <1>1, <1>2, <1>3, StreamsIdle, StreamsPut

LEMMA StreamsStep == StreamsInv /\ V!Next => StreamsInv'
<1> SUFFICES ASSUME StreamsInv, V!Next PROVE StreamsInv'
  OBVIOUS
<1>1. ASSUME NEW t \in Cups, V!Change(t) PROVE StreamsInv'
  <2>1. v2 \subseteq Cups
    BY DEF StreamsInv, StreamsTyped
  <2>2. v2' \subseteq Cups
    BY <1>1, <2>1 DEF V!Change
  <2> QED BY <1>1, <2>2, StreamsDisturb DEF V!Change
<1>2. ASSUME NEW c \in CallsOf, V!Fail(c) PROVE StreamsInv'
  <2>1. v2' \subseteq Cups
    BY <1>2 DEF StreamsInv, StreamsTyped, V!Fail
  <2> QED BY <1>2, <2>1, StreamsDisturb DEF V!Fail
<1> QED BY <1>1, <1>2, StreamsFeed, StreamsUpsert, StreamsStopFeed, StreamsStopFails,
           StreamsDisable, StreamsMark, StreamsStart, StreamsStop DEF V!Next

LEMMA StreamsShown == StreamsInv => V!ShownIsServed
<1> SUFFICES ASSUME StreamsInv, ~v6, NEW t \in v2, NEW s \in SlotsOf, v1[t][s].live,
                    ~\E c \in CallsOf : v5[c].pc = "offline"
             PROVE  v3[v1[t][s].stream] = "enabled"
  BY DEF V!ShownIsServed
<1> QED BY DEF StreamsInv, V!OneHandler, V!ShownAt, V!ToMark

\* A stream that a tournament shows as live is one that Mux still serves, once its
\* slot is not being stopped (upsertLiveStream and its stop write the whole list of
\* streams), unless handlers overlapped or tournaments came and went.
THEOREM StreamsServed == Spec => []ShownIsServed
<1> DEFINE Inv == which = "streams" => StreamsInv
<1>1. Init => Inv
  BY StreamsBegin DEF Init
<1>2. Inv /\ [Next]_vars => Inv'
  <2> SUFFICES ASSUME Inv, [Next]_vars, which' = "streams" PROVE StreamsInv'
    OBVIOUS
  <2>1. CASE UNCHANGED vars
    BY <2>1 DEF vars, StreamsInv, StreamsTyped, V!OneHandler, V!StreamOfSlot,
                V!InHand, V!ToMark, V!ShownAt, V!Made
  <2>2. CASE Next
    <3>1. which = "streams" /\ V!Next
      BY <2>2 DEF Next
    <3> QED BY <3>1, StreamsStep
  <2> QED BY <2>1, <2>2
<1>3. Inv => ShownIsServed
  BY StreamsShown DEF ShownIsServed
<1> QED BY <1>1, <1>2, <1>3, PTL DEF Spec

-----------------------------------------------------------------------------
(* What is exported: row, strategy, paid, clip, mp4, bucket, call and      *)
(* overwritten are v1 to v8.                                               *)

ExportTyped ==
  /\ v1 \in X!Row /\ v6 \subseteq X!Files
  /\ v4 \in [Cuts -> {"none", "preparing", "ready", "gone"}]
  /\ v5 \in [Cuts -> {"none", "preparing", "ready", "errored", "skipped"}]
  /\ v7 \in [CallsOf -> X!Call]
ExportInv == ExportTyped /\ X!ExportsOnCourse

\* What is stored stays, a clip that is lost stays lost, and an MP4 that is
\* ready stays as long as its clip.
Onward ==
  /\ v3' = v3 /\ v6 \subseteq v6' /\ (v8 => v8')
  /\ \A m \in Cuts : /\ v4[m] # "none" => v4'[m] # "none"
                     /\ v4[m] = "gone" => v4'[m] = "gone"
                     /\ v5[m] = "ready" => v5'[m] = "ready" \/ v4'[m] = "gone"

LEMMA ExportKnown ==
  ASSUME NEW r \in X!Row, X!Known(r), Onward
  PROVE  X!Known(r)'
<1>1. r.asset \in Cuts \cup {None}
  BY DEF X!Row
<1> QED BY <1>1 DEF X!Known, Onward

LEMMA ExportServed ==
  ASSUME NEW k \in X!Call, X!Serves(k), X!OnCourse(k), Onward
  PROVE  X!Serves(k)'
BY DEF X!Serves, X!OnCourse, Onward

LEMMA ExportKeepsCourse ==
  ASSUME NEW k \in X!Call, X!OnCourse(k), Onward
  PROVE  X!OnCourse(k)'
<1>1. k.read \in X!Row /\ k.gone \in SUBSET Cuts
  BY DEF X!Call
<1>2. X!Known(k.read)'
  BY <1>1, ExportKnown DEF X!OnCourse
<1>3. X!Serves(k)'
  BY ExportServed DEF X!OnCourse
<1>4. k.read.asset \in Cuts \cup {None}
  BY <1>1 DEF X!Row
<1> QED BY <1>1, <1>2, <1>3, <1>4 DEF X!OnCourse, Onward

\* A step that moves one call, and nothing back.
LEMMA ExportGoes ==
  ASSUME ExportInv, NEW c \in CallsOf, NEW new \in X!Call,
         v7' = [v7 EXCEPT ![c] = new], X!OnCourse(new)', Onward,
         v1' \in X!Row, v6' \subseteq X!Files, X!Known(v1)',
         v4' = v4,
         v5' \in [Cuts -> {"none", "preparing", "ready", "errored", "skipped"}],
         \A m \in Cuts : v5'[m] # "none" => v5[m] # "none" \/ v4[m] # "none"
  PROVE  ExportInv'
<1>1. v7' \in [CallsOf -> X!Call] /\ v7'[c] = new /\ \A d \in CallsOf \ {c} : v7'[d] = v7[d]
  BY DEF ExportInv, ExportTyped
<1>2. ASSUME NEW d \in CallsOf PROVE X!OnCourse(v7[d])'
  <2>1. CASE d = c
    BY <1>1, <2>1 DEF X!OnCourse, X!Known, X!Serves
  <2>2. CASE d # c
    <3> PICK k \in X!Call : k = v7[d]
      BY DEF ExportInv, ExportTyped
    <3>1. X!OnCourse(k)
      BY DEF ExportInv, X!ExportsOnCourse
    <3>2. X!OnCourse(k)'
      BY <3>1, ExportKeepsCourse
    <3>3. v7'[d] = k
      BY <1>1, <2>2
    <3> QED BY <3>2, <3>3 DEF X!OnCourse, X!Known, X!Serves
  <2> QED BY <2>1, <2>2
<1>3. \A m \in Cuts : v5'[m] # "none" => v4'[m] # "none"
  BY DEF ExportInv, X!ExportsOnCourse
<1>4. X!ExportsOnCourse'
  BY <1>2, <1>3 DEF X!ExportsOnCourse
<1>5. ExportTyped'
  BY <1>1 DEF ExportInv, ExportTyped
<1> QED BY <1>4, <1>5 DEF ExportInv

\* One that moves no call.
LEMMA ExportRests ==
  ASSUME ExportInv, v7' = v7, v6' = v6, Onward, v1' \in X!Row, X!Known(v1)',
         v4' \in [Cuts -> {"none", "preparing", "ready", "gone"}],
         v5' \in [Cuts -> {"none", "preparing", "ready", "errored", "skipped"}],
         \A m \in Cuts : v5'[m] # "none" => v4'[m] # "none"
  PROVE  ExportInv'
<1>1. ASSUME NEW d \in CallsOf PROVE X!OnCourse(v7[d])'
  <2> PICK k \in X!Call : k = v7[d]
    BY DEF ExportInv, ExportTyped
  <2>1. X!OnCourse(k)
    BY DEF ExportInv, X!ExportsOnCourse
  <2>2. X!OnCourse(k)'
    BY <2>1, ExportKeepsCourse
  <2>3. v7'[d] = k
    OBVIOUS
  <2> QED BY <2>2, <2>3 DEF X!OnCourse, X!Known, X!Serves
<1>2. X!ExportsOnCourse'
  BY <1>1 DEF X!ExportsOnCourse
<1>3. ExportTyped'
  BY DEF ExportInv, ExportTyped
<1> QED BY <1>2, <1>3 DEF ExportInv

\* What a call keeps when it moves on, and the state is what it was.
LEMMA ExportQuiet ==
  ASSUME ExportInv, NEW c \in CallsOf, NEW new \in X!Call,
         v7' = [v7 EXCEPT ![c] = new], X!OnCourse(new), X!Quiet
  PROVE  ExportInv'
<1>1. UNCHANGED <<v1, v3, v4, v5, v6, v8>>
  BY DEF X!Quiet
<1>2. Onward
  BY <1>1 DEF Onward
<1>3. v1' \in X!Row /\ v6' \subseteq X!Files
  BY <1>1 DEF ExportInv, ExportTyped
<1>4. X!Known(v1)' /\ X!OnCourse(new)'
  BY <1>1 DEF ExportInv, X!ExportsOnCourse, X!OnCourse, X!Known, X!Serves
<1>5. v5' \in [Cuts -> {"none", "preparing", "ready", "errored", "skipped"}]
  BY <1>1 DEF ExportInv, ExportTyped
<1> QED BY <1>1, <1>2, <1>3, <1>4, <1>5, ExportGoes

\* What is known of a call that is moving.
LEMMA ExportCall ==
  ASSUME ExportInv, NEW c \in CallsOf
  PROVE  v7[c] \in X!Call /\ X!OnCourse(v7[c])
BY DEF ExportInv, ExportTyped, X!ExportsOnCourse

LEMMA ExportIdle == X!Idle \in X!Call /\ (X!Known(X!Pressed) => X!OnCourse(X!Idle))
BY DEF X!Idle, X!Call, X!Pressed, X!Row, X!OnCourse, X!Serves

\* A call that moves on with what it has.
LEMMA ExportAt ==
  ASSUME ExportInv, NEW c \in CallsOf,
         NEW pc \in {"idle", "start", "asset", "request", "again", "sign", "convert",
                     "keep", "play", "heal", "answered"}
  PROVE  /\ X!At(c, pc) \in X!Call
         /\ X!At(c, pc).pc = pc /\ X!At(c, pc).read = v7[c].read
         /\ X!At(c, pc).file = v7[c].file /\ X!At(c, pc).url = v7[c].url
         /\ X!At(c, pc).gone = v7[c].gone
BY ExportCall DEF X!At, X!Call

LEMMA ExportMoves ==
  ASSUME ExportInv, NEW c \in CallsOf,
         NEW pc \in {"asset", "request", "again", "sign", "convert", "play", "heal"},
         X!Go(c, X!At(c, pc)), X!Quiet,
         pc \in {"asset", "request", "again", "sign", "convert"} => v3,
         pc \in {"request", "again", "sign"} =>
           /\ None \notin {v7[c].read.asset, v7[c].read.playback}
           /\ v7[c].read.asset \notin v7[c].gone,
         pc = "sign" => v5[v7[c].read.asset] = "ready"
  PROVE  ExportInv'
<1> PICK new : new = X!At(c, pc)
  OBVIOUS
<1>1. /\ new \in X!Call /\ new.pc = pc /\ new.read = v7[c].read
      /\ new.file = v7[c].file /\ new.url = v7[c].url /\ new.gone = v7[c].gone
  BY ExportAt
<1>2. v7' = [v7 EXCEPT ![c] = new]
  BY DEF X!Go
<1>3. X!OnCourse(v7[c])
  BY ExportCall
<1>4. X!OnCourse(new)
  BY <1>1, <1>3 DEF X!OnCourse, X!Serves
<1> QED BY <1>1, <1>2, <1>4, ExportQuiet

LEMMA ExportGivesUp ==
  ASSUME ExportInv, NEW c \in CallsOf, X!Go(c, X!Idle), X!Quiet
  PROVE  ExportInv'
<1> PICK new : new = X!Idle
  OBVIOUS
<1>1. new \in X!Call
  BY ExportIdle
<1>2. v7' = [v7 EXCEPT ![c] = new]
  BY DEF X!Go
<1>3. X!Known(X!Pressed)
  BY DEF X!Known, X!Pressed
<1>4. X!OnCourse(new)
  BY <1>3, ExportIdle
<1> QED BY <1>1, <1>2, <1>4, ExportQuiet

LEMMA ExportAnswers ==
  ASSUME ExportInv, NEW c \in CallsOf, NEW kind \in {"mp4", "file", "stream"},
         NEW of \in Cuts \cup X!Files, X!Answer(c, kind, of), X!Quiet,
         kind # "stream" => v3,
         kind = "file" => of \in v6,
         kind = "mp4" => /\ of \in Cuts
                         /\ \/ v8
                            \/ of \notin v7[c].gone /\ (v4[of] = "gone" \/ v5[of] = "ready")
  PROVE  ExportInv'
<1> PICK new : new = [X!Idle EXCEPT !.pc = "answered", !.url = [kind |-> kind, of |-> of],
                                    !.gone = v7[c].gone]
  OBVIOUS
<1>1. /\ new \in X!Call /\ new.pc = "answered" /\ new.read = X!Pressed
      /\ new.url = [kind |-> kind, of |-> of] /\ new.gone = v7[c].gone
  <2>1. v7[c].gone \in SUBSET Cuts
    BY ExportCall DEF X!Call
  <2>2. X!Idle \in X!Call
    BY ExportIdle
  <2>3. [kind |-> kind, of |-> of] \in X!Url
    BY DEF X!Url
  <2> QED BY <2>1, <2>2, <2>3 DEF X!Idle, X!Call
<1>2. v7' = [v7 EXCEPT ![c] = new]
  BY DEF X!Answer, X!Go
<1>3. X!Known(X!Pressed)
  BY DEF X!Known, X!Pressed
<1>4. \A m \in v7[c].gone : v4[m] = "gone"
  BY ExportCall DEF X!OnCourse
<1>5. new.url.kind = kind /\ new.url.of = of
  BY <1>1
<1>6. X!Serves(new)
  BY <1>1, <1>5 DEF X!Serves
<1>7. X!OnCourse(new)
  BY <1>1, <1>3, <1>4, <1>5, <1>6 DEF X!OnCourse
<1> QED BY <1>1, <1>2, <1>7, ExportQuiet

LEMMA ExportStarts ==
  ASSUME ExportInv, NEW c \in CallsOf, NEW pc \in {"start", "play"}, X!Begin(c, pc)
  PROVE  ExportInv'
<1> PICK gone : gone = IF pc = "start" THEN {m \in Cuts : v4[m] = "gone"} ELSE {}
  OBVIOUS
<1> PICK new : new = [X!Idle EXCEPT !.pc = pc, !.read = v1, !.gone = gone]
  OBVIOUS
<1>1. gone \in SUBSET Cuts /\ \A m \in gone : v4[m] = "gone"
  OBVIOUS
<1>2. v1 \in X!Row /\ X!Known(v1)
  BY DEF ExportInv, ExportTyped, X!ExportsOnCourse
<1>3. /\ new \in X!Call /\ new.pc = pc /\ new.read = v1 /\ new.url = None
      /\ new.gone = gone
  BY <1>1, <1>2, ExportIdle DEF X!Idle, X!Call
<1>4. v7' = [v7 EXCEPT ![c] = new] /\ X!Quiet
  BY DEF X!Begin, X!Go
<1>5. X!OnCourse(new)
  BY <1>1, <1>2, <1>3 DEF X!OnCourse, X!Serves
<1> QED BY <1>3, <1>4, <1>5, ExportQuiet

LEMMA ExportExport ==
  ASSUME ExportInv, NEW c \in CallsOf, X!Export(c)
  PROVE  ExportInv'
<1> DEFINE r == v7[c].read
<1>1. X!Quiet /\ r \in X!Row /\ X!Known(r)
  BY ExportCall DEF X!Export, X!OnCourse, X!Call
<1>2. CASE X!Go(c, X!Idle)
  BY <1>1, <1>2, ExportGivesUp
<1>3. CASE v3 /\ r.path # None /\ X!Answer(c, "file", r.path)
  <2>1. r.path \in X!Files /\ r.path \in v6
    BY <1>1, <1>3 DEF X!Row, X!Known
  <2> QED BY <1>1, <1>3, <2>1, ExportAnswers
<1>4. CASE v3 /\ \E pc \in {"asset", "convert"} : X!Go(c, X!At(c, pc))
  BY <1>1, <1>4, ExportMoves
<1>5. \/ X!Go(c, X!Idle)
      \/ v3 /\ r.path # None /\ X!Answer(c, "file", r.path)
      \/ v3 /\ \E pc \in {"asset", "convert"} : X!Go(c, X!At(c, pc))
  BY DEF X!Export
<1> QED BY <1>2, <1>3, <1>4, <1>5

LEMMA ExportNoMp4 ==
  ASSUME ExportInv, NEW c \in CallsOf, X!NoMp4(c), X!Quiet, v3
  PROVE  ExportInv'
<1>1. CASE X!Go(c, X!Idle)
  BY <1>1, ExportGivesUp
<1>2. CASE X!Go(c, X!At(c, "convert"))
  BY <1>2, ExportMoves
<1> QED BY <1>1, <1>2 DEF X!NoMp4

LEMMA ExportReadAsset ==
  ASSUME ExportInv, NEW c \in CallsOf, X!ReadAsset(c)
  PROVE  ExportInv'
<1> DEFINE r == v7[c].read
<1>1. X!Quiet /\ v3 /\ X!OnCourse(v7[c]) /\ v7[c].pc = "asset"
  BY ExportCall DEF X!ReadAsset, X!OnCourse
<1>2. CASE X!NoMp4(c)
  BY <1>1, <1>2, ExportNoMp4
<1>3. CASE /\ None \notin {r.asset, r.playback} /\ v4[r.asset] # "gone"
           /\ \/ X!Decision(v5[r.asset]) = "ready" /\ X!Go(c, X!At(c, "sign"))
              \/ X!Go(c, X!At(c, "request"))
  <2>1. r.asset \notin v7[c].gone
    BY <1>1, <1>3 DEF X!OnCourse
  <2>2. X!Decision(v5[r.asset]) = "ready" => v5[r.asset] = "ready"
    BY DEF X!Decision
  <2> QED BY <1>1, <1>3, <2>1, <2>2, ExportMoves
<1>4. \/ X!NoMp4(c)
      \/ /\ None \notin {r.asset, r.playback} /\ v4[r.asset] # "gone"
         /\ \/ X!Decision(v5[r.asset]) = "ready" /\ X!Go(c, X!At(c, "sign"))
            \/ X!Go(c, X!At(c, "request"))
            \/ X!NoMp4(c)
  BY DEF X!ReadAsset
<1> QED BY <1>2, <1>3, <1>4

LEMMA ExportRequest ==
  ASSUME ExportInv, NEW c \in CallsOf, X!Request(c)
  PROVE  ExportInv'
<1> DEFINE a == v7[c].read.asset
<1>1. /\ v3 /\ X!OnCourse(v7[c]) /\ v7[c].pc = "request"
      /\ UNCHANGED <<v1, v2, v3, v4, v6, v8>>
  BY ExportCall DEF X!Request, X!OnCourse
<1>2. CASE X!NoMp4(c) /\ UNCHANGED v5
  BY <1>1, <1>2, ExportNoMp4 DEF X!Quiet
<1>3. CASE /\ v5' = [v5 EXCEPT ![a] = IF @ = "none" THEN "preparing" ELSE @]
           /\ X!Go(c, X!At(c, "again"))
  <2> PICK new : new = X!At(c, "again")
    OBVIOUS
  <2>1. /\ new \in X!Call /\ new.pc = "again" /\ new.read = v7[c].read
        /\ new.file = v7[c].file /\ new.url = v7[c].url /\ new.gone = v7[c].gone
    BY ExportAt
  <2>2. v7' = [v7 EXCEPT ![c] = new]
    BY <1>3 DEF X!Go
  <2>3. X!OnCourse(new)
    BY <1>1, <2>1 DEF X!OnCourse, X!Serves
  <2>4. a \in Cuts /\ v4[a] # "none"
    BY <1>1, ExportCall DEF X!OnCourse, X!Known, X!Call, X!Row
  <2>5. v5 \in [Cuts -> {"none", "preparing", "ready", "errored", "skipped"}]
    BY DEF ExportInv, ExportTyped
  <2>6. /\ v5' \in [Cuts -> {"none", "preparing", "ready", "errored", "skipped"}]
        /\ \A m \in Cuts : v5[m] = "ready" => v5'[m] = "ready"
        /\ \A m \in Cuts : v5'[m] # "none" => v5[m] # "none" \/ v4[m] # "none"
    BY <1>3, <2>4, <2>5
  <2>7. Onward
    BY <1>1, <2>6 DEF Onward
  <2>8. X!OnCourse(new)'
    BY <2>1, <2>3, <2>7, ExportKeepsCourse
  <2>9. v1' \in X!Row /\ v6' \subseteq X!Files /\ X!Known(v1)'
    BY <1>1 DEF ExportInv, ExportTyped, X!ExportsOnCourse, X!Known
  <2> QED BY <1>1, <2>1, <2>2, <2>6, <2>7, <2>8, <2>9, ExportGoes
<1> QED BY <1>2, <1>3 DEF X!Request

LEMMA ExportReadAgain ==
  ASSUME ExportInv, NEW c \in CallsOf, X!ReadAgain(c)
  PROVE  ExportInv'
<1>1. X!Quiet /\ v3 /\ X!OnCourse(v7[c]) /\ v7[c].pc = "again"
  BY ExportCall DEF X!ReadAgain, X!OnCourse
<1>2. CASE X!NoMp4(c)
  BY <1>1, <1>2, ExportNoMp4
<1>3. CASE v5[v7[c].read.asset] = "ready" /\ X!Go(c, X!At(c, "sign"))
  BY <1>1, <1>3, ExportMoves DEF X!OnCourse
<1> QED BY <1>2, <1>3 DEF X!ReadAgain, X!Decision

LEMMA ExportSign ==
  ASSUME ExportInv, NEW c \in CallsOf, X!Sign(c)
  PROVE  ExportInv'
<1> DEFINE r == v7[c].read
<1>1. X!Quiet /\ X!OnCourse(v7[c]) /\ v7[c].pc = "sign" /\ X!Answer(c, "mp4", r.playback)
  BY ExportCall DEF X!Sign
<1>2. r.asset \in Cuts /\ r.playback \in Cuts
  BY <1>1, ExportCall DEF X!OnCourse, X!Call, X!Row
<1>3. v3 /\ (v8 \/ /\ r.playback \notin v7[c].gone
                   /\ v4[r.playback] = "gone" \/ v5[r.playback] = "ready")
  BY <1>1 DEF X!OnCourse, X!Known
<1> HIDE DEF r
<1> QED BY <1>1, <1>2, <1>3, ExportAnswers

LEMMA ExportConvert ==
  ASSUME ExportInv, NEW c \in CallsOf, X!Convert(c)
  PROVE  ExportInv'
<1> PICK f \in Uploads : v6' = v6 \cup {f} /\ X!Go(c, [X!At(c, "keep") EXCEPT !.file = f])
  BY DEF X!Convert
<1> PICK new : new = [X!At(c, "keep") EXCEPT !.file = f]
  OBVIOUS
<1>1. /\ v3 /\ X!OnCourse(v7[c]) /\ v7[c].pc = "convert"
      /\ UNCHANGED <<v1, v2, v3, v4, v5, v8>>
  BY ExportCall DEF X!Convert, X!OnCourse
<1>2. /\ new \in X!Call /\ new.pc = "keep" /\ new.read = v7[c].read
      /\ new.file = f /\ new.url = v7[c].url /\ new.gone = v7[c].gone
  BY ExportAt DEF X!Call
<1>3. v7' = [v7 EXCEPT ![c] = new]
  BY DEF X!Go
<1>4. Onward
  BY <1>1 DEF Onward
<1>5. X!OnCourse(new)'
  <2> PICK k \in X!Call : k = v7[c]
    BY ExportCall
  <2>1. X!OnCourse(k)
    BY <1>1
  <2>2. X!OnCourse(k)'
    BY <1>4, <2>1, ExportKeepsCourse
  <2>3. k.url = new.url /\ k.gone = new.gone /\ k.read = new.read
    BY <1>2
  <2>4. X!Serves(new)' /\ X!Known(new.read)'
    BY <2>2, <2>3 DEF X!OnCourse, X!Serves, X!Known
  <2>5. v3' /\ f \in v6'
    BY <1>1
  <2> QED BY <1>2, <2>2, <2>3, <2>4, <2>5 DEF X!OnCourse
<1>6. v1' \in X!Row /\ v6' \subseteq X!Files /\ X!Known(v1)'
  BY <1>1 DEF ExportInv, ExportTyped, X!Files, X!ExportsOnCourse, X!Known
<1>7. v5' \in [Cuts -> {"none", "preparing", "ready", "errored", "skipped"}]
  BY <1>1 DEF ExportInv, ExportTyped
<1> QED BY <1>1, <1>2, <1>3, <1>4, <1>5, <1>6, <1>7, ExportGoes

LEMMA ExportKeep ==
  ASSUME ExportInv, NEW c \in CallsOf, X!Keep(c)
  PROVE  ExportInv'
<1> DEFINE file == v7[c].file
<1> PICK new : new = [X!Idle EXCEPT !.pc = "answered", !.url = [kind |-> "file", of |-> file],
                                    !.gone = v7[c].gone]
  OBVIOUS
<1>1. /\ v3 /\ X!OnCourse(v7[c]) /\ file \in v6 /\ v1' = [v1 EXCEPT !.path = file]
      /\ UNCHANGED <<v2, v3, v4, v5, v6, v8>>
  BY ExportCall DEF X!Keep, X!OnCourse
<1>2. file \in X!Files /\ v1 \in X!Row /\ X!Known(v1) /\ v6 \subseteq X!Files
  BY <1>1 DEF ExportInv, ExportTyped, X!ExportsOnCourse
<1>3. v7' = [v7 EXCEPT ![c] = new]
  BY DEF X!Keep, X!Answer, X!Go
<1>4. /\ new \in X!Call /\ new.pc = "answered" /\ new.read = X!Pressed
      /\ new.url = [kind |-> "file", of |-> file] /\ new.gone = v7[c].gone
  <2>1. v7[c].gone \in SUBSET Cuts
    BY ExportCall DEF X!Call
  <2>2. X!Idle \in X!Call
    BY ExportIdle
  <2>3. [kind |-> "file", of |-> file] \in X!Url
    BY <1>2 DEF X!Url
  <2> HIDE DEF file
  <2> QED BY <2>1, <2>2, <2>3 DEF X!Idle, X!Call
<1> HIDE DEF file
<1>5. /\ v1' \in X!Row /\ v1'.path = file
      /\ v1'.asset = v1.asset /\ v1'.playback = v1.playback
  BY <1>1, <1>2 DEF X!Row
<1>6. X!Known(v1)'
  BY <1>1, <1>2, <1>5 DEF X!Known
<1>7. Onward
  BY <1>1 DEF Onward
<1>8. X!OnCourse(new)
  <2>1. X!Known(X!Pressed)
    BY DEF X!Known, X!Pressed
  <2>2. new.url.kind = "file" /\ new.url.of = file
    BY <1>4
  <2>3. \A m \in v7[c].gone : v4[m] = "gone"
    BY <1>1 DEF X!OnCourse
  <2>4. X!Serves(new)
    BY <1>1, <2>2 DEF X!Serves
  <2> QED BY <1>4, <2>1, <2>2, <2>3, <2>4 DEF X!OnCourse
<1>9. X!OnCourse(new)'
  BY <1>4, <1>7, <1>8, ExportKeepsCourse
<1>10. v5' \in [Cuts -> {"none", "preparing", "ready", "errored", "skipped"}] /\ v6' \subseteq X!Files
  BY <1>1 DEF ExportInv, ExportTyped
<1> QED BY <1>1, <1>3, <1>4, <1>5, <1>6, <1>7, <1>9, <1>10, ExportGoes

LEMMA ExportHeal ==
  ASSUME ExportInv, NEW c \in CallsOf, X!Heal(c)
  PROVE  ExportInv'
<1> PICK k \in X!Call : k = v7[c]
  BY ExportCall
<1> PICK read : read = [k.read EXCEPT !.status = "ready", !.playback = k.read.asset]
  OBVIOUS
<1> PICK new : new = [k EXCEPT !.pc = "play", !.read = read]
  OBVIOUS
<1>1. /\ v1' = [v1 EXCEPT !.status = "ready", !.playback = k.read.asset]
      /\ v8' = (v8 \/ v1.asset # k.read.asset)
      /\ UNCHANGED <<v2, v3, v4, v5, v6>>
  BY DEF X!Heal
<1>2. X!OnCourse(k) /\ k.read \in X!Row /\ v1 \in X!Row /\ X!Known(v1)
  BY ExportCall DEF X!Call, ExportInv, ExportTyped, X!ExportsOnCourse
<1>3. /\ read \in X!Row /\ read.asset = k.read.asset /\ read.playback = k.read.asset
      /\ read.path = k.read.path
  BY <1>2 DEF X!Row
<1>4. /\ new \in X!Call /\ new.pc = "play" /\ new.read = read /\ new.file = k.file
      /\ new.url = k.url /\ new.gone = k.gone
  BY <1>3 DEF X!Call
<1>5. v7' = [v7 EXCEPT ![c] = new]
  <2>1. v7' = [v7 EXCEPT ![c] = [X!At(c, "play") EXCEPT !.read.status = "ready",
                                                        !.read.playback = k.read.asset]]
    BY DEF X!Heal, X!Go
  <2>2. X!At(c, "play") = [k EXCEPT !.pc = "play"]
    BY DEF X!At
  <2>3. [X!At(c, "play") EXCEPT !.read.status = "ready", !.read.playback = k.read.asset] = new
    BY <1>2, <2>2 DEF X!Call, X!Row
  <2> QED BY <2>1, <2>3
<1>6. /\ v1' \in X!Row /\ v1'.path = v1.path
      /\ v1'.asset = v1.asset /\ v1'.playback = k.read.asset
  BY <1>1, <1>2 DEF X!Row
<1>7. X!Known(v1)'
  <2>1. v8 \/ v1.asset # k.read.asset => v8'
    BY <1>1
  <2> QED BY <1>1, <1>2, <1>6, <2>1 DEF X!Known
<1>8. Onward
  BY <1>1 DEF Onward
<1>9. X!OnCourse(new)
  <2>1. X!Known(read)
    BY <1>2, <1>3 DEF X!OnCourse, X!Known
  <2> QED BY <1>2, <1>4, <2>1 DEF X!OnCourse, X!Serves
<1>10. X!OnCourse(new)'
  BY <1>4, <1>8, <1>9, ExportKeepsCourse
<1>11. v5' \in [Cuts -> {"none", "preparing", "ready", "errored", "skipped"}] /\ v6' \subseteq X!Files
  BY <1>1 DEF ExportInv, ExportTyped
<1> QED BY <1>1, <1>4, <1>5, <1>6, <1>7, <1>8, <1>10, <1>11, ExportGoes

LEMMA ExportPlay ==
  ASSUME ExportInv, NEW c \in CallsOf, X!Play(c)
  PROVE  ExportInv'
<1> DEFINE r == v7[c].read
<1>1. X!Quiet /\ r \in X!Row
  BY ExportCall DEF X!Play, X!Call
<1>2. CASE X!Go(c, X!Idle)
  BY <1>1, <1>2, ExportGivesUp
<1>3. CASE r.playback # None /\ X!Answer(c, "stream", r.playback)
  <2>1. r.playback \in Cuts
    BY <1>1, <1>3 DEF X!Row
  <2> QED BY <1>1, <1>3, <2>1, ExportAnswers
<1>4. CASE r.path # None /\ X!Answer(c, "stream", r.path)
  <2>1. r.path \in X!Files
    BY <1>1, <1>4 DEF X!Row
  <2> QED BY <1>1, <1>4, <2>1, ExportAnswers
<1> QED BY <1>2, <1>3, <1>4 DEF X!Play

LEMMA ExportCut ==
  ASSUME ExportInv, NEW m \in Cuts, X!Cut(m)
  PROVE  ExportInv'
<1>1. /\ v4[m] = "none" /\ v4' = [v4 EXCEPT ![m] = "preparing"]
      /\ v5' = [v5 EXCEPT ![m] = "preparing"]
      /\ v1' = [v1 EXCEPT !.asset = m, !.playback = m, !.status = "clip_created"]
      /\ UNCHANGED <<v2, v3, v6, v7, v8>>
  BY DEF X!Cut
<1>2. /\ v1 \in X!Row /\ X!Known(v1) /\ \A n \in Cuts : v5[n] # "none" => v4[n] # "none"
      /\ v4 \in [Cuts -> {"none", "preparing", "ready", "gone"}]
      /\ v5 \in [Cuts -> {"none", "preparing", "ready", "errored", "skipped"}]
  BY DEF ExportInv, ExportTyped, X!ExportsOnCourse
<1>3. v1' \in X!Row /\ v1'.asset = m /\ v1'.playback = m /\ v1'.path = v1.path
  BY <1>1, <1>2 DEF X!Row
<1>4. /\ v4' \in [Cuts -> {"none", "preparing", "ready", "gone"}]
      /\ v5' \in [Cuts -> {"none", "preparing", "ready", "errored", "skipped"}]
      /\ \A n \in Cuts : v5'[n] # "none" => v4'[n] # "none"
      /\ v4'[m] = "preparing"
  BY <1>1, <1>2
<1>5. Onward
  BY <1>1, <1>2 DEF Onward
<1>6. X!Known(v1)'
  BY <1>1, <1>2, <1>3, <1>4 DEF X!Known
<1> QED BY <1>1, <1>3, <1>4, <1>5, <1>6, ExportRests

LEMMA ExportMux ==
  ASSUME ExportInv, NEW m \in Cuts, X!ClipReady(m) \/ X!ClipGone(m) \/ X!Mp4Moves(m)
  PROVE  ExportInv'
<1>1. UNCHANGED <<v1, v2, v3, v6, v7, v8>>
  BY DEF X!ClipReady, X!ClipGone, X!Mp4Moves
<1>2. /\ v1 \in X!Row /\ X!Known(v1) /\ \A n \in Cuts : v5[n] # "none" => v4[n] # "none"
      /\ v4 \in [Cuts -> {"none", "preparing", "ready", "gone"}]
      /\ v5 \in [Cuts -> {"none", "preparing", "ready", "errored", "skipped"}]
  BY DEF ExportInv, ExportTyped, X!ExportsOnCourse
<1>3. /\ v4' \in [Cuts -> {"none", "preparing", "ready", "gone"}]
      /\ v5' \in [Cuts -> {"none", "preparing", "ready", "errored", "skipped"}]
      /\ \A n \in Cuts : v5'[n] # "none" => v4'[n] # "none"
      /\ \A n \in Cuts : /\ v4[n] # "none" => v4'[n] # "none"
                         /\ v4[n] = "gone" => v4'[n] = "gone"
                         /\ v5[n] = "ready" => v5'[n] = "ready" \/ v4'[n] = "gone"
  <2>1. CASE X!ClipReady(m)
    BY <1>2, <2>1 DEF X!ClipReady
  <2>2. CASE X!ClipGone(m)
    BY <1>2, <2>2 DEF X!ClipGone
  <2>3. CASE X!Mp4Moves(m)
    <3> PICK s \in {"ready", "errored", "skipped"} : v5' = [v5 EXCEPT ![m] = s]
      BY <2>3 DEF X!Mp4Moves
    <3>1. v5[m] = "preparing" /\ v4[m] = "ready" /\ v4' = v4
      BY <2>3 DEF X!Mp4Moves
    <3> QED BY <1>2, <3>1
  <2> QED BY <2>1, <2>2, <2>3
<1>4. Onward
  BY <1>1, <1>3 DEF Onward
<1>5. X!Known(v1)' /\ v1' \in X!Row
  BY <1>1, <1>2, <1>4, ExportKnown
<1> QED BY <1>1, <1>3, <1>4, <1>5, ExportRests

LEMMA ExportRow ==
  ASSUME ExportInv, X!Reset \/ \E m \in Cuts : X!ReadyEvent(m)
  PROVE  ExportInv'
<1>1. /\ v1 \in X!Row /\ X!Known(v1) /\ \A n \in Cuts : v5[n] # "none" => v4[n] # "none"
      /\ v4 \in [Cuts -> {"none", "preparing", "ready", "gone"}]
      /\ v5 \in [Cuts -> {"none", "preparing", "ready", "errored", "skipped"}]
  BY DEF ExportInv, ExportTyped, X!ExportsOnCourse
<1>2. UNCHANGED <<v2, v3, v4, v5, v6, v7, v8>>
  BY DEF X!Reset, X!ReadyEvent
<1>3. v1' \in X!Row /\ X!Known(v1)'
  <2>1. CASE X!Reset
    <3>1. /\ v1' \in X!Row /\ v1'.asset = None /\ v1'.playback = None
          /\ v1'.path = v1.path
      BY <1>1, <2>1 DEF X!Reset, X!Row
    <3> QED BY <1>1, <1>2, <3>1 DEF X!Known
  <2>2. ASSUME NEW m \in Cuts, X!ReadyEvent(m) PROVE v1' \in X!Row /\ X!Known(v1)'
    <3>1. /\ v1' \in X!Row /\ v1'.asset = v1.asset /\ v1'.playback = v1.asset
          /\ v1'.path = v1.path
      BY <1>1, <2>2 DEF X!ReadyEvent, X!Row
    <3> QED BY <1>1, <1>2, <3>1 DEF X!Known
  <2> QED BY <2>1, <2>2
<1>4. Onward
  BY <1>2 DEF Onward
<1> QED BY <1>1, <1>2, <1>3, <1>4, ExportRests

LEMMA ExportStep == ExportInv /\ X!Next => ExportInv'
<1> SUFFICES ASSUME ExportInv, X!Next PROVE ExportInv'
  OBVIOUS
<1>1. CASE \E m \in Cuts : X!Cut(m)
  BY <1>1, ExportCut
<1>2. CASE \E m \in Cuts : X!ClipReady(m) \/ X!ClipGone(m) \/ X!Mp4Moves(m)
  BY <1>2, ExportMux
<1>3. CASE X!Reset \/ \E m \in Cuts : X!ReadyEvent(m)
  BY <1>3, ExportRow
<1>4. ASSUME NEW c \in CallsOf, X!CallStep(c) PROVE ExportInv'
  <2>1. CASE X!Begin(c, "start") \/ X!Begin(c, "play")
    BY <2>1, ExportStarts
  <2>2. CASE X!ExportFails(c)
    BY <2>2, ExportGivesUp DEF X!ExportFails
  <2>3. CASE X!AskMux(c)
    BY <2>3, ExportMoves DEF X!AskMux
  <2>4. CASE \/ X!Export(c) \/ X!ReadAsset(c) \/ X!Request(c) \/ X!ReadAgain(c)
             \/ X!Sign(c)
    BY <2>4, ExportExport, ExportReadAsset, ExportRequest, ExportReadAgain, ExportSign
  <2>5. CASE X!Convert(c) \/ X!Keep(c) \/ X!Heal(c) \/ X!Play(c)
    BY <2>5, ExportConvert, ExportKeep, ExportHeal, ExportPlay
  <2> QED BY <1>4, <2>1, <2>2, <2>3, <2>4, <2>5 DEF X!CallStep
<1> QED BY <1>1, <1>2, <1>3, <1>4 DEF X!Next

LEMMA ExportBegin == X!Init => ExportInv
<1> SUFFICES ASSUME X!Init PROVE ExportInv
  OBVIOUS
<1> DEFINE old == CHOOSE m \in Cuts : TRUE
<1>1. old \in Cuts
  BY ServicesAssumption
<1>2. v1 \in X!Row /\ v1.asset = v1.playback
  <2>1. v1 \in {X!Pressed, X!FromBucket(X!Stored), X!FromBucket(X!Odd), X!OldClip}
    BY DEF X!Init
  <2>2. X!Pressed \in X!Row /\ X!Pressed.asset = None /\ X!Pressed.playback = None
    BY DEF X!Pressed, X!Row
  <2>3. ASSUME NEW f \in X!Files
        PROVE  /\ X!FromBucket(f) \in X!Row
               /\ X!FromBucket(f).asset = None /\ X!FromBucket(f).playback = None
    BY DEF X!FromBucket, X!Pressed, X!Row
  <2>4. X!OldClip \in X!Row /\ X!OldClip.asset = X!OldClip.playback
    <3>1. X!OldClip = [asset |-> old, playback |-> old, path |-> None, status |-> "ready"]
      BY DEF X!OldClip
    <3> HIDE DEF old
    <3> QED BY <1>1, <3>1 DEF X!Row
  <2>5. X!Stored \in X!Files /\ X!Odd \in X!Files
    BY DEF X!Files
  <2> QED BY <2>1, <2>2, <2>3, <2>4, <2>5
<1>3. /\ v6 = {v1.path} \ {None} /\ v5 = [m \in Cuts |-> "none"]
      /\ v4 = [m \in Cuts |-> IF v1.asset = m THEN "ready" ELSE "none"]
      /\ v7 = [c \in CallsOf |-> X!Idle]
  BY DEF X!Init
<1> HIDE DEF old
<1>4. X!Known(v1)
  BY <1>2, <1>3 DEF X!Known, X!Row
<1>5. X!Idle \in X!Call /\ X!OnCourse(X!Idle)
  <2>1. X!Known(X!Pressed)
    BY DEF X!Known, X!Pressed
  <2> QED BY <2>1, ExportIdle
<1>6. ExportTyped
  BY <1>2, <1>3, <1>5 DEF ExportTyped, X!Row
<1>7. X!ExportsOnCourse
  BY <1>3, <1>4, <1>5 DEF X!ExportsOnCourse
<1> QED BY <1>6, <1>7 DEF ExportInv

\* An export that says it has succeeded has given a file that is there: one in
\* the bucket, or the MP4 of a clip that Mux had when the export began; unless a
\* heal had written over a newer clip.  And what has not been paid for is not
\* exported.
THEOREM ExportedIsThere == Spec => []ExportServes
<1> DEFINE Inv == which = "export" => ExportInv
<1>1. Init => Inv
  BY ExportBegin DEF Init
<1>2. Inv /\ [Next]_vars => Inv'
  <2> SUFFICES ASSUME Inv, [Next]_vars, which' = "export" PROVE ExportInv'
    OBVIOUS
  <2>1. CASE UNCHANGED vars
    BY <2>1 DEF vars, ExportInv, ExportTyped, X!ExportsOnCourse, X!Known, X!OnCourse,
                X!Serves
  <2>2. CASE Next
    <3>1. which = "export" /\ X!Next
      BY <2>2 DEF Next
    <3> QED BY <3>1, ExportStep
  <2> QED BY <2>1, <2>2
<1>3. Inv => ExportServes
  BY DEF ExportServes, ExportInv, X!ExportServes, X!ExportsOnCourse, X!OnCourse
<1> QED BY <1>1, <1>2, <1>3, PTL DEF Spec
=============================================================================
