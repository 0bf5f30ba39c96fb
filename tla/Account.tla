------------------------------- MODULE Account -------------------------------
(***************************************************************************)
(* The account screen (AccountView.swift): signing up, in and out, and     *)
(* which of its three subviews is shown.                                   *)
(*                                                                         *)
(* Firebase is modelled from its use: an answer first changes the          *)
(* signed-in user and later, as an event of its own on the main thread,    *)
(* runs the completion; a snapshot listener is told of the document once   *)
(* and again whenever it changes, a write the device has queued counting   *)
(* as done until the server rejects it; the signed-in user and queued      *)
(* writes outlive the process, callbacks and listeners do not.             *)
(***************************************************************************)
EXTENDS Naturals

CONSTANTS
  Users,         \* accounts that exist or may be made
  MaxRequests,   \* bound: sign-ups and sign-ins under way at once
  None           \* no user, no request, or no text in the labels

Requests == 1 .. MaxRequests
Request == [kind : {"up", "in"}, who : Users, done : BOOLEAN]

ASSUME AccountAssumption ==
  /\ None \notin Users \cup Request
  /\ MaxRequests \in Nat \ {0}

VARIABLES
  place,       \* the account view: in, going out (as Navigation), or off
  account,     \* the accounts Firebase Authentication has
  document,    \* those with a document in the collection users
  writing,     \* those whose document is queued on the device
  user,        \* Auth.auth().currentUser
  subview,     \* signedIn, signUp or signIn; none before the first visit
  label,       \* whose data the labels of signedInView show
  listening,   \* users whose document has a snapshot listener
  due,         \* those whose listeners have yet to be told
  request,     \* the sign-ups (up) and sign-ins (in) under way
  trap,        \* where a forced unwrapping ended the process
  seen,        \* users signed in since launch (history)
  deaf,        \* users a listener of whom was told of an error (history)
  rejected,    \* users whose document the server rejected (history)
  cutOff       \* users whose sign-up the process did not outlive (history)

server      == <<account, document, writing>>
listeners   == <<listening, due>>
history     == <<seen, deaf, rejected, cutOff>>
accountVars == <<place, server, user, subview, label, listeners, request, trap,
                 history>>

Waiting == {r \in Requests : request[r] # None}

AccountInit ==
  /\ place = "off"
  /\ account \in SUBSET Users /\ document = account /\ writing = {}
  /\ user \in {None} \cup account
  /\ subview = "none" /\ label = None
  /\ listening = {} /\ due = {}
  /\ request = [r \in Requests |-> None]
  /\ trap = "no"
  /\ seen = {user} \ {None} /\ deaf = {} /\ rejected = {} /\ cutOff = {}
-----------------------------------------------------------------------------
(* A variant that shows the signed-in view without updating it.            *)
UpdateView_NoListener(u) ==
  /\ subview' = IF u = None THEN "signUp" ELSE "signedIn"
  /\ UNCHANGED listeners

(* updateView when u is signed in: signedInView.update adds a listener.    *)
UpdateView(u) ==
  IF u = None
  THEN subview' = "signUp" /\ UNCHANGED <<listeners>>
  ELSE /\ subview' = "signedIn"
       /\ listening' = listening \cup {u}
       /\ due' = due \cup {u}

(* switchToView(.Account): the view comes in (animateIn).                  *)
EnterAccount ==
  /\ trap = "no" /\ place = "off"
  /\ place' = "in"
  /\ UpdateView(user)
  /\ UNCHANGED <<server, user, label, request, trap, history>>

(* Back; then the timer of switchToView.  The subviews do not move away,   *)
(* and a finger already on one of their buttons counts until they are gone.*)
LeaveAccount ==
  /\ trap = "no"
  /\ \/ place = "in" /\ place' = "out"
     \/ place = "out" /\ place' = "off"
  /\ UNCHANGED <<server, user, subview, label, listeners, request, trap,
                 history>>

Touchable(v) == trap = "no" /\ place # "off" /\ subview = v

(* signOut throws nothing, or nothing happens.                             *)
PressSignOut ==
  /\ Touchable("signedIn")
  /\ user' = None
  /\ UpdateView(None)
  /\ UNCHANGED <<place, server, label, request, trap, history>>

(* The sign-in button of signUpView.                                       *)
ShowSignIn ==
  /\ Touchable("signUp")
  /\ subview' = "signIn"
  /\ UNCHANGED <<place, server, user, label, listeners, request, trap,
                 history>>

Ask(r, kind, u) == request' = [request EXCEPT ![r] =
                                 [kind |-> kind, who |-> u, done |-> FALSE]]

(* A slot for one more request.                                            *)
Slot(r) == request[r] = None /\ \A q \in 1 .. r - 1 : request[q] # None

(* createUser; the view stays, and so does the button.                     *)
PressSignUp(r, u) ==
  /\ Touchable("signUp")
  /\ Slot(r) /\ Ask(r, "up", u)
  /\ UNCHANGED <<place, server, user, subview, label, listeners, trap,
                 history>>

(* signIn; signInButtonPressed runs at once, and again when it answers.    *)
PressSignIn(r, u) ==
  /\ Touchable("signIn")
  /\ Slot(r) /\ Ask(r, "in", u)
  /\ UpdateView(user)
  /\ UNCHANGED <<place, server, user, label, trap, history>>
-----------------------------------------------------------------------------
(* The server makes an account that is not there, or knows one that is.    *)
Accepted(r) ==
  /\ trap = "no" /\ r \in Waiting /\ ~request[r].done
  /\ request[r].kind = "in" <=> request[r].who \in account
  /\ request' = [request EXCEPT ![r].done = TRUE]
  /\ account' = account \cup {request[r].who}
  /\ user' = request[r].who
  /\ seen' = seen \cup {request[r].who}
  /\ UNCHANGED <<place, document, writing, subview, label, listeners, trap, deaf,
                 rejected, cutOff>>

(* A variant whose completion does nothing.                                *)
SignInAnswered_Ignored(r) ==
  /\ trap = "no" /\ r \in Waiting /\ request[r].kind = "in"
  /\ request' = [request EXCEPT ![r] = None]
  /\ UNCHANGED <<place, server, user, subview, label, listeners, trap, history>>

(* The completion of a sign-in, which does not look at its outcome.        *)
SignInAnswered(r) ==
  /\ trap = "no" /\ r \in Waiting /\ request[r].kind = "in"
  /\ request' = [request EXCEPT ![r] = None]
  /\ UpdateView(user)
  /\ UNCHANGED <<place, server, user, label, trap, history>>

(* A variant that writes no document.                                      *)
SignedUp_NoDocument(r) ==
  /\ trap = "no" /\ r \in Waiting /\ request[r].kind = "up" /\ request[r].done
  /\ request' = [request EXCEPT ![r] = None]
  /\ UpdateView(user)
  /\ UNCHANGED <<place, server, user, label, trap, history>>

(* The completion of a sign-up: setData queues the user's document, and    *)
(* nobody waits to hear what became of it.                                 *)
SignedUp(r) ==
  /\ trap = "no" /\ r \in Waiting /\ request[r].kind = "up" /\ request[r].done
  /\ request' = [request EXCEPT ![r] = None]
  /\ writing' = writing \cup {request[r].who}
  /\ UpdateView(user)
  /\ UNCHANGED <<place, account, document, user, label, trap, history>>

(* The completion of a refused sign-up unwraps the user there is not.      *)
SignUpRefused(r) ==
  /\ trap = "no" /\ r \in Waiting /\ request[r].kind = "up" /\ ~request[r].done
  /\ trap' = "signUp"
  /\ UNCHANGED <<place, server, user, subview, label, listeners, request,
                 history>>

(* The server has the document of u, or rejects it: only listeners learn.  *)
WriteAnswered(u) ==
  /\ trap = "no" /\ u \in writing
  /\ writing' = writing \ {u}
  /\ \/ /\ document' = document \cup {u}
        /\ UNCHANGED <<due, rejected>>
     \/ /\ rejected' = rejected \cup {u}
        /\ due' = due \cup ({u} \cap listening)
        /\ UNCHANGED document
  /\ UNCHANGED <<place, account, user, subview, label, listening, request, trap,
                 seen, deaf, cutOff>>

(* A snapshot: document.data()! traps when there is no document.           *)
Snapshot(u) ==
  /\ trap = "no" /\ u \in due
  /\ due' = due \ {u}
  /\ IF u \in document \cup writing THEN label' = u /\ UNCHANGED trap
     ELSE trap' = "snapshot" /\ UNCHANGED label
  /\ UNCHANGED <<place, server, user, subview, listening, request, history>>

(* An error ends the listeners of a document.                              *)
SnapshotError(u) ==
  /\ trap = "no" /\ u \in listening
  /\ listening' = listening \ {u} /\ due' = due \ {u}
  /\ deaf' = deaf \cup {u}
  /\ UNCHANGED <<place, server, user, subview, label, request, trap, seen,
                 rejected, cutOff>>

(* A download or a publication changes the document elsewhere.             *)
DocumentChanges(u) ==
  /\ trap = "no" /\ u \in document \cap listening
  /\ due' = due \cup {u}
  /\ UNCHANGED <<place, server, user, subview, label, listening, request, trap,
                 history>>

SigningUp == {request[r].who : r \in {q \in Waiting : request[q].kind = "up"}}

(* The process ends and starts again; sign-ups under way may yet reach the *)
(* server.                                                                 *)
Restart ==
  /\ account' \in {account \cup us : us \in SUBSET SigningUp}
  /\ cutOff' = cutOff \cup SigningUp
  /\ place' = "off" /\ subview' = "none" /\ label' = None
  /\ listening' = {} /\ due' = {}
  /\ request' = [r \in Requests |-> None]
  /\ trap' = "no"
  /\ seen' = {user} \ {None} /\ deaf' = {}
  /\ UNCHANGED <<document, writing, user, rejected>>

AccountNext ==
  \/ EnterAccount \/ LeaveAccount
  \/ PressSignOut
  \/ ShowSignIn
  \/ \E r \in Requests, u \in Users : PressSignUp(r, u) \/ PressSignIn(r, u)
  \/ \E r \in Requests :
       Accepted(r) \/ SignInAnswered(r) \/ SignedUp(r) \/ SignUpRefused(r)
  \/ \E u \in Users : WriteAnswered(u) \/ Snapshot(u) \/ SnapshotError(u) \/ DocumentChanges(u)
  \/ Restart

AccountSpec == AccountInit /\ [][AccountNext]_accountVars
-----------------------------------------------------------------------------
(* Properties *)

AccountTypeOK ==
  /\ place \in {"off", "in", "out"}
  /\ document \subseteq account /\ writing \subseteq account
  /\ account \subseteq Users
  /\ user \in account \cup {None}
  /\ subview \in {"none", "signedIn", "signUp", "signIn"}
  /\ label \in Users \cup {None}
  /\ due \subseteq listening /\ listening \subseteq account
  /\ request \in [Requests -> {None} \cup Request]
  /\ trap \in {"no", "signUp", "snapshot"}
  /\ seen \subseteq account
  /\ deaf \subseteq Users /\ rejected \subseteq Users /\ cutOff \subseteq Users

(* Whatever was asked for and answered in whatever order, on the screen or *)
(* off it: with no answer outstanding the signed-in view is the one shown  *)
(* if and only if somebody is signed in.                                   *)
ShownIsSignedIn ==
  subview # "none" /\ Waiting = {} => (subview = "signedIn" <=> user # None)

(* When every snapshot has come, the labels of the signed-in view are of   *)
(* its user, unless another account was used since launch, whose listeners *)
(* still write them, or a listener ended with an error.                    *)
LabelsAreOfTheUser ==
  trap = "no" /\ subview = "signedIn" /\ due = {} /\
  user \notin deaf /\ seen \subseteq {user} =>
    label = user

(* A snapshot ends the process only for a user listened to whose document  *)
(* was lost or never written: its sign-up is still to be answered, the     *)
(* process ended during it, or the server rejected the document.           *)
TrapNeedsLostDocument ==
  trap = "snapshot" =>
    \E u \in listening \ (document \cup writing) :
       u \in SigningUp \cup rejected \cup cutOff
=============================================================================
