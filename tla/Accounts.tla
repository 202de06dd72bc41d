------------------------------ MODULE Accounts ------------------------------
(***************************************************************************)
(* Login: the one-time code that is sent by SMS and kept in the memory of  *)
(* the server, the account that the first login makes, and its welcome     *)
(* message.  Reads and saves of the database are separate statements.      *)
(***************************************************************************)
EXTENDS Naturals, FiniteSets

CONSTANTS
  Phones, Codes, Calls, None,
  Ids,      \* bound: accounts
  Google    \* the address of a Google account

VARIABLES
  store,      \* PhoneOtpStore: each number's code, or None; expired or not
  inbox,      \* the code the number received last
  user,       \* users: each account's phone and address, or None
  welcomes,   \* welcome messages of an account that it has not dismissed
  call,
  (* history: numbers whose last code was lost (its answer, by a restart,  *)
  (* by its five minutes, in a clash, under a broadcast) or used; accounts *)
  (* that logged in by phone and dismissed nothing since; two logins       *)
  (* overlapped                                                            *)
  spent, greeted, raced,
  clash       \* history: calls that sent to a number beside another

vars == <<store, inbox, user, welcomes, call, spent, greeted, raced, clash>>

Account == [phone : Phones \cup {None}, email : {Google, None}]
Call == [pc : {"idle", "sms", "answer", "find", "create", "check", "notify"},
         phone : Phones \cup {None}, code : Codes \cup {None},
         id : Ids \cup {None}]
Idle == [pc |-> "idle", phone |-> None, code |-> None, id |-> None]
Logs == {"find", "create", "check", "notify"}

TypeOK ==
  /\ store \in [Phones -> Codes \cup {None}]
  /\ inbox \in [Phones -> Codes \cup {None}]
  /\ user \in [Ids -> Account \cup {None}]
  /\ welcomes \in [Ids -> 0 .. 2]
  /\ call \in [Calls -> Call]
  /\ \A c \in Calls : call[c].pc \in {"check", "notify"} => call[c].id # None
  /\ spent \subseteq Phones /\ greeted \subseteq Ids /\ raced \in BOOLEAN /\ clash \subseteq Calls

Init ==
  /\ store = [p \in Phones |-> None] /\ inbox = store
  /\ user = [i \in Ids |-> None] /\ welcomes = [i \in Ids |-> 0]
  /\ call = [c \in Calls |-> Idle]
  /\ spent = {} /\ greeted = {} /\ raced = FALSE /\ clash = {}

-----------------------------------------------------------------------------
(* sendOtp: the message goes out, and its answer is waited for.            *)

Go(c, new) == call' = [call EXCEPT ![c] = new]
Sending(p) ==
  {c \in Calls : call[c].pc \in {"sms", "answer"} /\ call[c].phone = p}

\* Calls that send to one number at the same time: their messages and their
\* answers may arrive in any order.
SendOtp(c, p) ==
  /\ call[c].pc = "idle"
  /\ \E code \in Codes :
       Go(c, [Idle EXCEPT !.pc = "sms", !.phone = p, !.code = code])
  /\ clash' = IF Sending(p) = {} THEN clash \ {c} ELSE clash \cup {c} \cup Sending(p)
  /\ UNCHANGED <<store, inbox, user, welcomes, spent, greeted, raced>>

SmsArrives(c) ==
  /\ call[c].pc = "sms"
  /\ inbox' = [inbox EXCEPT ![call[c].phone] = call[c].code]
  /\ Go(c, [call[c] EXCEPT !.pc = "answer"])
  /\ UNCHANGED <<store, user, welcomes, clash, spent, greeted, raced>>

\* Fast2SMS says that it is sent: verifyOtp expects it from now on.
SmsSent(c) ==
  LET p == call[c].phone
  IN /\ call[c].pc = "answer"
     /\ store' = [store EXCEPT ![p] = call[c].code]
     /\ spent' = IF c \in clash THEN spent \cup {p} ELSE spent \ {p}
     /\ Go(c, Idle)
     /\ UNCHANGED <<inbox, user, welcomes, clash, greeted, raced>>

\* A code that was not sent is not expected.  (A mutant: it is expected as
\* soon as it is made.)
Made(c) == [store EXCEPT ![call[c].phone] = call[c].code]
AfterFailure(c) == store

\* It is refused, or it has been sent and the answer is lost.
SmsFails(c) ==
  LET p == call[c].phone
  IN /\ call[c].pc \in {"sms", "answer"}
     /\ store' = AfterFailure(c)
     /\ spent' = IF call[c].pc = "answer" THEN spent \cup {p} ELSE spent
     /\ Go(c, Idle)
     /\ UNCHANGED <<inbox, user, welcomes, clash, greeted, raced>>

\* An administrator's broadcast by SMS goes out as a message with a code, always
\* the same, which nobody expects.
BroadcastSms(p) ==
  /\ \E i \in Ids : user[i] # None /\ user[i].phone = p
  /\ \E code \in Codes : inbox' = [inbox EXCEPT ![p] = code]
  /\ spent' = spent \cup {p}
  /\ clash' = clash \cup Sending(p)
  /\ UNCHANGED <<store, user, welcomes, call, greeted, raced>>

\* Five minutes are over: the entry is never accepted again.
Expire(p) ==
  /\ store[p] # None
  /\ store' = [store EXCEPT ![p] = None]
  /\ spent' = spent \cup {p}
  /\ UNCHANGED <<inbox, user, welcomes, call, greeted, raced, clash>>

-----------------------------------------------------------------------------
(* verifyOtp, and the logins with Google and Apple.                        *)

LogsIn(c) ==
  raced' = (raced \/ \E d \in Calls \ {c} : call[d].pc \in Logs)

\* A wrong code leaves the expected one; the right one is consumed.
VerifyOtp(c, p) ==
  /\ call[c].pc = "idle"
  /\ store[p] # None
  /\ store' = [store EXCEPT ![p] = None]
  /\ spent' = spent \cup {p}
  /\ LogsIn(c)
  /\ Go(c, [Idle EXCEPT !.pc = "find", !.phone = p])
  /\ UNCHANGED <<inbox, user, welcomes, greeted, clash>>

GoogleLogin(c) ==
  /\ call[c].pc = "idle"
  /\ LogsIn(c)
  /\ Go(c, [Idle EXCEPT !.pc = "find"])
  /\ UNCHANGED <<store, inbox, user, welcomes, spent, greeted, clash>>

\* Apple's login goes on as Google's does, by the address that is told.
AppleLogin(c) == GoogleLogin(c)

ByPhone(c) == call[c].phone # None
Named(c, i) == /\ user[i] # None
               /\ IF ByPhone(c) THEN user[i].phone = call[c].phone
                                ELSE user[i].email = Google

Token(c, i) ==
  /\ Go(c, Idle)
  /\ greeted' = IF ByPhone(c) THEN greeted \cup {i} ELSE greeted

\* Google's login, and Apple's, greet only who is new.
Find(c) ==
  /\ call[c].pc = "find"
  /\ \/ /\ \A i \in Ids : ~Named(c, i)
        /\ Go(c, [call[c] EXCEPT !.pc = "create"])
        /\ UNCHANGED greeted
     \/ \E i \in Ids :
          /\ Named(c, i)
          /\ IF ByPhone(c)
             THEN Go(c, [call[c] EXCEPT !.pc = "check", !.id = i]) /\ UNCHANGED greeted
             ELSE Token(c, i)
  /\ UNCHANGED <<store, inbox, user, welcomes, spent, raced, clash>>

\* The address is unique: of two first logins with it the second fails.
Create(c) ==
  /\ call[c].pc = "create"
  /\ ByPhone(c) \/ \A i \in Ids : ~Named(c, i)
  /\ \E i \in Ids :
       /\ user[i] = None
       /\ user' = [user EXCEPT ![i] = [phone |-> call[c].phone,
                                       email |-> IF ByPhone(c) THEN None ELSE Google]]
       /\ Go(c, [call[c] EXCEPT !.id = i,
                   !.pc = IF ByPhone(c) THEN "check" ELSE "notify"])
  /\ UNCHANGED <<store, inbox, welcomes, spent, greeted, raced, clash>>

\* Whoever has no welcome message gets one, at whichever login.  (A mutant:
\* whoever was ever greeted has it.)
OnceGreeted(i) == i \in greeted
Welcomed(i) == welcomes[i] > 0

CheckWelcome(c) ==
  LET i == call[c].id
  IN /\ call[c].pc = "check"
     /\ IF Welcomed(i) THEN Token(c, i)
        ELSE Go(c, [call[c] EXCEPT !.pc = "notify"]) /\ UNCHANGED greeted
     /\ UNCHANGED <<store, inbox, user, welcomes, spent, raced, clash>>

Notify(c) ==
  LET i == call[c].id
  IN /\ call[c].pc = "notify"
     /\ welcomes[i] < 2
     /\ welcomes' = [welcomes EXCEPT ![i] = @ + 1]
     /\ Token(c, i)
     /\ UNCHANGED <<store, inbox, user, spent, raced, clash>>

\* The database fails: what was saved stays, and there is no token.
LoginFails(c) ==
  /\ call[c].pc \in Logs
  /\ Go(c, Idle)
  /\ UNCHANGED <<store, inbox, user, welcomes, spent, greeted, raced, clash>>

-----------------------------------------------------------------------------
\* The user adds a phone to an account, which nothing compares with others.
UpdatePhone(i, p) ==
  /\ user[i] # None /\ user[i].phone = None
  /\ \A c \in Calls : call[c].pc \notin Logs
  /\ user' = [user EXCEPT ![i].phone = p]
  /\ UNCHANGED <<store, inbox, welcomes, call, spent, greeted, raced, clash>>

\* The welcome is removed from the list of notifications (softly).
Dismiss(i) ==
  /\ welcomes[i] > 0
  /\ welcomes' = [welcomes EXCEPT ![i] = 0]
  /\ greeted' = greeted \ {i}
  /\ UNCHANGED <<store, inbox, user, call, spent, raced, clash>>

\* The codes are in memory, and the calls with them.
Restart ==
  /\ store' = [p \in Phones |-> None]
  /\ call' = [c \in Calls |-> Idle]
  /\ spent' = Phones
  /\ UNCHANGED <<inbox, user, welcomes, greeted, raced, clash>>

CallStep(c) ==
  \/ SmsArrives(c) \/ SmsSent(c) \/ SmsFails(c)
  \/ GoogleLogin(c) \/ AppleLogin(c)
  \/ Find(c) \/ Create(c) \/ CheckWelcome(c) \/ Notify(c) \/ LoginFails(c)
  \/ \E p \in Phones : SendOtp(c, p) \/ VerifyOtp(c, p)

Next ==
  \/ Restart
  \/ \E c \in Calls : CallStep(c)
  \/ \E p \in Phones : BroadcastSms(p) \/ Expire(p) \/ \E i \in Ids : UpdatePhone(i, p)
  \/ \E i \in Ids : Dismiss(i)

-----------------------------------------------------------------------------
(* Properties.                                                             *)

\* The code that a phone shows last is the one the server expects, also after
\* sends that failed; unless it was used, its time is over, the server has
\* restarted, the provider's answer was lost, two sends overlapped, or an
\* administrator's broadcast came after it.
LatestCodeWorks ==
  \A p \in Phones \ spent :
    (\A c \in Sending(p) : call[c].pc = "sms") => store[p] = inbox[p]

\* An account that has logged in by phone has one welcome, although its first
\* login may have failed halfway or was by Google; unless two logins overlapped.
WelcomedOnce == ~raced => \A i \in greeted : welcomes[i] = 1

\* What a message still has to say: a call that sends to a number beside no other is
\* the only one, and once its message has arrived the number shows its code.
Sends(k) == k.pc \in {"sms", "answer"}
OneSender ==
  \A c \in Calls \ clash : Sends(call[c]) =>
    /\ \A d \in Calls : Sends(call[d]) /\ call[d].phone = call[c].phone => d = c
    /\ call[c].pc = "answer" => inbox[call[c].phone] = call[c].code

\* Unless two logins overlapped there is one, and the account it is about to
\* greet has no welcome.
OneLogin ==
  ~raced =>
    /\ \A c, d \in Calls : call[c].pc \in Logs /\ call[d].pc \in Logs => d = c
    /\ \A c \in Calls : call[c].pc = "notify" => welcomes[call[c].id] = 0
    /\ \A i \in Ids : welcomes[i] <= 1
=============================================================================
