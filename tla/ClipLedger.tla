----------------------------- MODULE ClipLedger -----------------------------
(***************************************************************************)
(* What the clip pipeline promises of the clips it has Mux make, without a *)
(* status, a queue, a lock or a webhook: a clip is made only for a         *)
(* highlight that has none and for which none is under way, it is then     *)
(* held by that highlight, and it is let go only once Mux no longer has it *)
(* or the highlight itself is deleted.                                     *)
(***************************************************************************)
CONSTANTS Highlights, Clips, NoClip

VARIABLES
  flight,  \* the clip made for a highlight and not yet recorded
  held,    \* the clip a highlight holds
  lost,    \* the clips nothing will ever name
  gone     \* the clips Mux has deleted

vars == <<flight, held, lost, gone>>

Init ==
  /\ flight = [h \in Highlights |-> NoClip]
  /\ held = [h \in Highlights |-> NoClip]
  /\ lost = {}
  /\ gone = {}

Free(h) == flight[h] = NoClip /\ held[h] = NoClip

Fresh(k) == /\ k \notin lost \cup gone
            /\ \A h \in Highlights : k # flight[h] /\ k # held[h]

Make(h) ==
  /\ Free(h)
  /\ \E k \in Clips : Fresh(k) /\ flight' = [flight EXCEPT ![h] = k]
  /\ UNCHANGED <<held, lost, gone>>

\* The answer of Mux never comes back.
MakeInVain(h) ==
  /\ Free(h)
  /\ \E k \in Clips : Fresh(k) /\ lost' = lost \cup {k}
  /\ UNCHANGED <<flight, held, gone>>

Hold(h) ==
  /\ flight[h] # NoClip
  /\ held[h] = NoClip
  /\ held' = [held EXCEPT ![h] = flight[h]]
  /\ flight' = [flight EXCEPT ![h] = NoClip]
  /\ UNCHANGED <<lost, gone>>

Lose(h) ==
  /\ flight[h] # NoClip
  /\ lost' = lost \cup {flight[h]}
  /\ flight' = [flight EXCEPT ![h] = NoClip]
  /\ UNCHANGED <<held, gone>>

Vanish(k) ==
  /\ gone' = gone \cup {k}
  /\ UNCHANGED <<flight, held, lost>>

LetGo(h) ==
  /\ held[h] \in gone
  /\ held' = [held EXCEPT ![h] = NoClip]
  /\ UNCHANGED <<flight, lost, gone>>

Delete(rows) ==
  /\ lost' = lost \cup ({held[h] : h \in rows} \ {NoClip})
  /\ held' = [h \in Highlights |-> IF h \in rows THEN NoClip ELSE held[h]]
  /\ UNCHANGED <<flight, gone>>

Next ==
  \/ \E h \in Highlights :
       Make(h) \/ MakeInVain(h) \/ Hold(h) \/ Lose(h) \/ LetGo(h)
  \/ \E k \in Clips : Vanish(k)
  \/ \E rows \in SUBSET Highlights : Delete(rows)

Spec == Init /\ [][Next]_vars
=============================================================================
