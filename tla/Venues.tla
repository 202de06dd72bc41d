------------------------------- MODULE Venues -------------------------------
(***************************************************************************)
(* Venues and their courts.  A venue is all the turfs of one name; the     *)
(* administrators hide or show it as a whole, the app leaves out a court   *)
(* that is hidden or whose turf is, and the fleet's page says which venues *)
(* are hidden.  Turfs and cameras (one for each court) are created,        *)
(* renamed, moved and removed meanwhile.                                   *)
(***************************************************************************)
EXTENDS Naturals, FiniteSets

CONSTANTS Turfs, Cameras, VenueNames, Calls, None

VARIABLES
  turf,       \* the turfs: None, or name and hidden_from_app
  camera,     \* the cameras: None, or turfId and hidden_from_app
  call,
  (* history: a turf got the name of a venue whose turfs it differs from,  *)
  (* or while the venue was being set                                      *)
  joined

vars == <<turf, camera, call, joined>>

Turf == [name : VenueNames, hidden : BOOLEAN]
Camera == [on : Turfs, hidden : BOOLEAN]
Call == [pc : {"idle", "siblings", "turfs", "cameras", "save"},
         venue : VenueNames \cup {None}, ids : SUBSET Turfs,
         hide : BOOLEAN, cam : Cameras \cup {None}, read : Camera \cup {None}]
Idle == [pc |-> "idle", venue |-> None, ids |-> {}, hide |-> FALSE,
         cam |-> None, read |-> None]

TypeOK ==
  /\ turf \in [Turfs -> Turf \cup {None}]
  /\ camera \in [Cameras -> Camera \cup {None}]
  /\ call \in [Calls -> Call]
  /\ joined \in BOOLEAN

Init ==
  /\ turf = [t \in Turfs |-> None] /\ camera = [m \in Cameras |-> None]
  /\ call = [c \in Calls |-> Idle]
  /\ joined = FALSE

-----------------------------------------------------------------------------
Go(c, new) == call' = [call EXCEPT ![c] = new]
Live == {t \in Turfs : turf[t] # None}
Of(name) == {t \in Live : turf[t].name = name}
Courts(name) == {m \in Cameras : camera[m] # None /\ camera[m].on \in Of(name)}

\* A turf that comes to bear a name, with what makes its venue differ.
Joins(t, name, hidden) ==
  \/ \E s \in Of(name) \ {t} : turf[s].hidden # hidden
  \/ \E d \in Calls : call[d].venue = name \/ t \in call[d].ids

\* A turf's and a camera's id is its own: none is given again while in use.
Create(t, name) ==
  /\ turf[t] = None
  /\ \A c \in Calls : t \notin call[c].ids /\ (call[c].cam # None => call[c].read.on # t)
  /\ turf' = [turf EXCEPT ![t] = [name |-> name, hidden |-> FALSE]]
  /\ joined' = (joined \/ Joins(t, name, FALSE))
  /\ UNCHANGED <<camera, call>>

\* The form that changes a turf has its name, and not whether it is hidden.
Rename(t, name) ==
  /\ turf[t] # None
  /\ turf' = [turf EXCEPT ![t].name = name]
  /\ joined' = (joined \/ Joins(t, name, turf[t].hidden))
  /\ UNCHANGED <<camera, call>>

\* A turf that a court refers to cannot be deleted (its pictures: VenuePictures).
Remove(t) ==
  /\ turf[t] # None
  /\ \A m \in Cameras : camera[m] # None => camera[m].on # t
  /\ turf' = [turf EXCEPT ![t] = None]
  /\ UNCHANGED <<camera, call, joined>>

-----------------------------------------------------------------------------
(* Courts.                                                                 *)

AddCamera(m, t) ==
  /\ camera[m] = None /\ turf[t] # None
  /\ \A c \in Calls : call[c].cam # m
  /\ camera' = [camera EXCEPT ![m] = [on |-> t, hidden |-> FALSE]]
  /\ UNCHANGED <<turf, call, joined>>

\* The camera's own form may move it, and has no word of its being hidden.
MoveCamera(m, t) ==
  /\ camera[m] # None /\ turf[t] # None
  /\ camera' = [camera EXCEPT ![m].on = t]
  /\ UNCHANGED <<turf, call, joined>>

\* A camera that recordings refer to is not deleted; this one has none.
RemoveCamera(m) ==
  /\ camera[m] # None
  /\ camera' = [camera EXCEPT ![m] = None]
  /\ UNCHANGED <<turf, call, joined>>

\* The fleet's page reads the row and saves the whole of it, with hidden_from_app
\* set or left.
MapCamera(c, m) ==
  /\ call[c].pc = "idle" /\ camera[m] # None
  /\ \E h \in BOOLEAN :
       Go(c, [Idle EXCEPT !.pc = "save", !.cam = m,
                          !.read = [camera[m] EXCEPT !.hidden = h]])
  /\ UNCHANGED <<turf, camera, joined>>

SaveCamera(c) ==
  /\ call[c].pc = "save"
  /\ Go(c, Idle)
  /\ \/ /\ turf[call[c].read.on] # None
        /\ camera' = [camera EXCEPT ![call[c].cam] = call[c].read]
     \/ turf[call[c].read.on] = None /\ UNCHANGED camera
  /\ UNCHANGED <<turf, joined>>

-----------------------------------------------------------------------------
(* setVenuesAppVisibility: the turf, those of the same name, and then two  *)
(* updates of their own.                                                   *)

SetVisibility(c, t, hide) ==
  /\ call[c].pc = "idle" /\ turf[t] # None
  /\ Go(c, [Idle EXCEPT !.pc = "siblings", !.venue = turf[t].name, !.ids = {t}, !.hide = hide])
  /\ UNCHANGED <<turf, camera, joined>>

\* (The mutant sets the turf that was clicked and no other.)
Clicked(c) == call[c].ids
Siblings(c) == Of(call[c].venue)

FindSiblings(c) ==
  /\ call[c].pc = "siblings"
  /\ Go(c, [call[c] EXCEPT !.pc = "turfs", !.ids = Siblings(c)])
  /\ UNCHANGED <<turf, camera, joined>>

HideTurfs(c) ==
  /\ call[c].pc = "turfs"
  /\ turf' = [t \in Turfs |-> IF t \in call[c].ids \cap Live
                              THEN [turf[t] EXCEPT !.hidden = call[c].hide]
                              ELSE turf[t]]
  /\ Go(c, [call[c] EXCEPT !.pc = "cameras"])
  /\ UNCHANGED <<camera, joined>>

\* The cameras' update may fail after that of the turfs.
HideCameras(c) ==
  /\ call[c].pc = "cameras"
  /\ Go(c, Idle)
  /\ \/ camera' = [m \in Cameras |->
                     IF camera[m] # None /\ camera[m].on \in call[c].ids
                     THEN [camera[m] EXCEPT !.hidden = call[c].hide]
                     ELSE camera[m]]
     \/ UNCHANGED camera
  /\ UNCHANGED <<turf, joined>>

-----------------------------------------------------------------------------
(* What is shown.                                                          *)

\* CameraService, in the list and by id: the court's flag and its turf's.
Visible(m) == ~camera[m].hidden /\ ~turf[camera[m].on].hidden

\* The fleet's page: a venue is hidden when one of its turfs is, ...
VenueHidden(name) == \E t \in Of(name) : turf[t].hidden
\* ... or when all its courts are; venues with no court are not listed.
FleetHidden(name) == VenueHidden(name) \/ \A m \in Courts(name) : camera[m].hidden
Fleet == {name \in VenueNames : Courts(name) # {}}

Next ==
  \/ \E t \in Turfs :
       \/ \E name \in VenueNames : Create(t, name) \/ Rename(t, name)
       \/ Remove(t)
       \/ \E m \in Cameras : AddCamera(m, t) \/ MoveCamera(m, t)
  \/ \E m \in Cameras : RemoveCamera(m)
  \/ \E c \in Calls :
       \/ \E t \in Turfs, hide \in BOOLEAN : SetVisibility(c, t, hide)
       \/ \E m \in Cameras : MapCamera(c, m)
       \/ SaveCamera(c) \/ FindSiblings(c) \/ HideTurfs(c) \/ HideCameras(c)

-----------------------------------------------------------------------------
(* Properties.                                                             *)

\* The fleet's page calls a venue hidden exactly when the app shows none of its
\* courts, at every moment of the two updates, of overlapping ones and of whole
\* rows saved over them; unless a turf came to the venue's name from elsewhere.
FleetTellsApp ==
  ~joined => \A name \in Fleet : FleetHidden(name) <=> \A m \in Courts(name) : ~Visible(m)

\* What was excused stays so: what comes after need not be looked at.
Telling == ~joined

\* What makes it so: unless a turf came to a venue's name from elsewhere, the
\* turfs of a venue agree, and an update of them has them all.
VenueWhole ==
  ~joined =>
    /\ \A s, t \in Live : turf[s].name = turf[t].name => turf[s].hidden = turf[t].hidden
    /\ \A c \in Calls : call[c].pc = "turfs" =>
         \A t \in Live : t \in call[c].ids <=> turf[t].name = call[c].venue
=============================================================================
