---------------------------- MODULE Account_proofs ----------------------------
(***************************************************************************)
(* Proofs about Account, for any users and any number of requests at once. *)
(***************************************************************************)
EXTENDS Account, TLAPS

(* What an answered request asked for is an account.                       *)
AnsweredHasAccount ==
  \A r \in Waiting : request[r].done => request[r].who \in account

(* Since the last answer was handled the view has been of the user there   *)
(* is; ShownIsSignedIn is the case of no request at all.                   *)
ShownIsCurrent ==
  subview # "none" /\ (\A r \in Waiting : ~request[r].done) =>
    (subview = "signedIn" <=> user # None)

(* Listeners and the signed-in view are of users seen since launch.        *)
SeenFirst ==
  /\ listening \subseteq seen
  /\ user # None => user \in seen
  /\ subview = "signedIn" => user # None

(* The only user seen, once listened to, is in the labels or soon will be. *)
OnlyUserIsShown ==
  trap = "no" =>
    \A u \in Users : seen \subseteq {u} /\ u \in listening => label = u \/ u \in due

(* The signed-in view listens, or listened, to the only user seen.         *)
OnlyUserIsHeard ==
  subview = "signedIn" /\ seen \subseteq {user} => user \in listening \cup deaf

(* An account has its document, or will have it, or is one of those whose  *)
(* document was lost: TrapNeedsLostDocument is what a snapshot makes of it.*)
DocumentFollows ==
  account \ document \subseteq SigningUp \cup writing \cup rejected \cup cutOff

IInv ==
  /\ AccountTypeOK /\ AnsweredHasAccount /\ DocumentFollows
  /\ ShownIsCurrent /\ SeenFirst /\ OnlyUserIsShown /\ OnlyUserIsHeard

(* What updateView does to the view and its listeners.                     *)
LEMMA UpdateViewFacts ==
  ASSUME NEW u \in Users \cup {None}, UpdateView(u)
  PROVE  /\ subview' \in {"signedIn", "signUp"}
         /\ subview' = "signedIn" <=> u # None
         /\ listening' = listening \cup ({u} \ {None})
         /\ due' = due \cup ({u} \ {None})
<1>1. CASE u = None
  BY <1>1 DEF UpdateView, listeners
<1>2. CASE u # None
  BY <1>2 DEF UpdateView
<1> QED
  BY <1>1, <1>2

(* Asking puts a request that is not yet answered in a slot.               *)
LEMMA AskFacts ==
  ASSUME AccountTypeOK, NEW r \in Requests, NEW u \in Users,
         NEW kind \in {"up", "in"}, Slot(r), Ask(r, kind, u)
  PROVE  /\ request' \in [Requests -> {None} \cup Request]
         /\ r \notin Waiting /\ Waiting' = Waiting \cup {r}
         /\ request'[r].who = u /\ request'[r].kind = kind /\ ~request'[r].done
         /\ \A q \in Waiting : request'[q] = request[q]
<1> DEFINE new == [kind |-> kind, who |-> u, done |-> FALSE]
<1>1. new \in Request /\ new # None
  <2>1. new \in Request
    BY DEF Request
  <2> QED
    BY <2>1, AccountAssumption
<1>2. request' = [request EXCEPT ![r] = new] /\ request[r] = None
  BY DEF Ask, Slot
<1> QED
  BY <1>1, <1>2 DEF AccountTypeOK, Waiting

(* Answering a request frees its slot.                                     *)
LEMMA FreeFacts ==
  ASSUME AccountTypeOK, NEW r \in Waiting,
         request' = [request EXCEPT ![r] = None]
  PROVE  /\ request' \in [Requests -> {None} \cup Request]
         /\ Waiting' = Waiting \ {r}
         /\ \A q \in Waiting \ {r} : request'[q] = request[q]
BY DEF AccountTypeOK, Waiting

(* The server's answer marks a request and changes nothing else of it.     *)
LEMMA AcceptFacts ==
  ASSUME AccountTypeOK, NEW r \in Waiting,
         request' = [request EXCEPT ![r].done = TRUE]
  PROVE  /\ request' \in [Requests -> {None} \cup Request]
         /\ Waiting' = Waiting /\ request'[r].done
         /\ \A q \in Waiting : /\ request'[q].who = request[q].who
                              /\ request'[q].kind = request[q].kind
         /\ \A q \in Waiting \ {r} : request'[q] = request[q]
         /\ request[r].who \in Users
<1> DEFINE new == [request[r] EXCEPT !.done = TRUE]
<1>1. r \in Requests /\ request[r] \in Request
  BY DEF AccountTypeOK, Waiting
<1>2. /\ new \in Request /\ new # None /\ new.done
      /\ new.who = request[r].who /\ new.kind = request[r].kind
  <2>1. new \in Request /\ new.done /\ new.who = request[r].who
           /\ new.kind = request[r].kind
    BY <1>1 DEF Request
  <2> QED
    BY <2>1, AccountAssumption
<1>3. request' = [request EXCEPT ![r] = new]
  OBVIOUS
<1> HIDE DEF new
<1>4. request'[r] = new /\ \A q \in Requests \ {r} : request'[q] = request[q]
  BY <1>1, <1>3 DEF AccountTypeOK
<1>5. request' \in [Requests -> {None} \cup Request]
  BY <1>1, <1>2, <1>3 DEF AccountTypeOK
<1>6. Waiting' = Waiting
  BY <1>2, <1>4, <1>5 DEF Waiting
<1>7. request[r].who \in Users
  BY <1>1 DEF Request
<1>8. \A q \in Waiting : q \in Requests
  BY DEF Waiting
<1> QED
  BY <1>2, <1>4, <1>5, <1>6, <1>7, <1>8
(* The inductive invariant holds at first.                                 *)
LEMMA InitHolds == AccountInit => IInv
<1> SUFFICES ASSUME AccountInit PROVE IInv
  OBVIOUS
<1>1. Waiting = {}
  BY DEF AccountInit, Waiting
<1> QED
  BY <1>1, AccountAssumption
     DEF AccountInit, IInv, AccountTypeOK, AnsweredHasAccount, DocumentFollows,
         ShownIsCurrent, SeenFirst, OnlyUserIsShown, OnlyUserIsHeard

(* Steps that update the view for the user there is.                       *)
LEMMA ViewStep ==
  ASSUME IInv, UpdateView(user), UNCHANGED <<user, label, trap, history>>,
         account' = account
  PROVE  /\ subview' \in {"signedIn", "signUp"} /\ ShownIsCurrent' /\ SeenFirst'
         /\ OnlyUserIsShown' /\ OnlyUserIsHeard'
         /\ due' \subseteq listening' /\ listening' \subseteq account'
<1>1. user \in Users \cup {None} /\ (user # None => user \in account)
  BY AccountAssumption DEF IInv, AccountTypeOK
<1>2. /\ subview' \in {"signedIn", "signUp"}
      /\ subview' = "signedIn" <=> user # None
      /\ listening' = listening \cup ({user} \ {None})
      /\ due' = due \cup ({user} \ {None})
  BY <1>1, UpdateViewFacts
<1>3. user' = user /\ label' = label /\ trap' = trap /\ seen' = seen /\ deaf' = deaf
  BY DEF history
<1>4. ShownIsCurrent' /\ SeenFirst'
  BY <1>2, <1>3 DEF IInv, ShownIsCurrent, SeenFirst
<1>5. OnlyUserIsShown'
  BY <1>2, <1>3 DEF IInv, OnlyUserIsShown, SeenFirst
<1>6. OnlyUserIsHeard'
  BY <1>2, <1>3 DEF IInv, OnlyUserIsHeard
<1>7. due' \subseteq listening' /\ listening' \subseteq account'
  BY <1>1, <1>2 DEF IInv, AccountTypeOK
<1> QED
  BY <1>2, <1>4, <1>5, <1>6, <1>7

(* Coming in.                                                              *)
LEMMA EnterAccountStep == IInv /\ EnterAccount => IInv'
<1> SUFFICES ASSUME IInv, EnterAccount PROVE IInv'
  OBVIOUS
<1>1. /\ UpdateView(user) /\ UNCHANGED <<user, label, trap, history, server, request>>
      /\ place' = "in"
  BY DEF EnterAccount, history, server
<1>2. /\ subview' \in {"signedIn", "signUp"} /\ ShownIsCurrent' /\ SeenFirst'
      /\ OnlyUserIsShown' /\ OnlyUserIsHeard'
      /\ due' \subseteq listening' /\ listening' \subseteq account'
  BY <1>1, ViewStep DEF server
<1>3. AccountTypeOK' /\ AnsweredHasAccount' /\ DocumentFollows'
  BY <1>1, <1>2 DEF IInv, AccountTypeOK, AnsweredHasAccount, DocumentFollows,
                    Waiting, SigningUp, server, history
<1> QED
  BY <1>2, <1>3 DEF IInv

(* Leaving, and showing the sign-in view.                                  *)
LEMMA LeaveAndShowStep == IInv /\ (LeaveAccount \/ ShowSignIn) => IInv'
<1>1. ASSUME IInv, LeaveAccount PROVE IInv'
  BY <1>1 DEF LeaveAccount, IInv, AccountTypeOK, AnsweredHasAccount,
              DocumentFollows, ShownIsCurrent, SeenFirst, OnlyUserIsShown,
              OnlyUserIsHeard, Waiting, SigningUp, server, listeners, history
<1>2. ASSUME IInv, ShowSignIn PROVE IInv'
  BY <1>2 DEF ShowSignIn, Touchable, IInv, AccountTypeOK, AnsweredHasAccount,
              DocumentFollows, ShownIsCurrent, SeenFirst, OnlyUserIsShown,
              OnlyUserIsHeard, Waiting, SigningUp, server, listeners, history
<1> QED
  BY <1>1, <1>2

(* Signing out: nobody is shown signed in and nobody is.                   *)
LEMMA PressSignOutStep == IInv /\ PressSignOut => IInv'
<1> SUFFICES ASSUME IInv, PressSignOut PROVE IInv'
  OBVIOUS
<1>1. /\ user' = None /\ subview' = "signUp"
      /\ UNCHANGED <<place, account, document, writing, label, listening, due, request,
                     trap, seen, deaf, rejected, cutOff>>
  BY DEF PressSignOut, UpdateView, server, listeners, history
<1>2. AccountTypeOK' /\ AnsweredHasAccount' /\ DocumentFollows'
  BY <1>1 DEF IInv, AccountTypeOK, AnsweredHasAccount, DocumentFollows, Waiting,
              SigningUp
<1>3. ShownIsCurrent' /\ SeenFirst' /\ OnlyUserIsHeard' /\ OnlyUserIsShown'
  BY <1>1 DEF IInv, ShownIsCurrent, SeenFirst, OnlyUserIsHeard, OnlyUserIsShown
<1> QED
  BY <1>2, <1>3 DEF IInv
(* A request is one of its kind; nothing else than its slot changes.       *)
LEMMA PressSignUpStep ==
  IInv /\ (\E r \in Requests, u \in Users : PressSignUp(r, u)) => IInv'
<1> SUFFICES ASSUME IInv, NEW r \in Requests, NEW u \in Users, PressSignUp(r, u)
             PROVE  IInv'
  OBVIOUS
<1>1. /\ request' \in [Requests -> {None} \cup Request]
      /\ r \notin Waiting /\ Waiting' = Waiting \cup {r}
      /\ request'[r].who = u /\ request'[r].kind = "up" /\ ~request'[r].done
      /\ \A q \in Waiting : request'[q] = request[q]
  BY AskFacts DEF PressSignUp, IInv
<1>2. UNCHANGED <<place, account, document, writing, user, subview, label, listening, due,
                  trap, seen, deaf, rejected, cutOff>>
  BY DEF PressSignUp, server, listeners, history
<1>3. AccountTypeOK' /\ AnsweredHasAccount'
  BY <1>1, <1>2 DEF IInv, AccountTypeOK, AnsweredHasAccount
<1>4. DocumentFollows'
  BY <1>1, <1>2 DEF IInv, DocumentFollows, SigningUp
<1>5. ShownIsCurrent' /\ SeenFirst' /\ OnlyUserIsShown' /\ OnlyUserIsHeard'
  BY <1>1, <1>2 DEF IInv, ShownIsCurrent, SeenFirst, OnlyUserIsShown,
                    OnlyUserIsHeard
<1> QED
  BY <1>3, <1>4, <1>5 DEF IInv

(* A sign-in also updates the view, before it is answered.                 *)
LEMMA PressSignInStep ==
  IInv /\ (\E r \in Requests, u \in Users : PressSignIn(r, u)) => IInv'
<1> SUFFICES ASSUME IInv, NEW r \in Requests, NEW u \in Users, PressSignIn(r, u)
             PROVE  IInv'
  OBVIOUS
<1>1. /\ request' \in [Requests -> {None} \cup Request]
      /\ r \notin Waiting /\ Waiting' = Waiting \cup {r}
      /\ request'[r].who = u /\ request'[r].kind = "in" /\ ~request'[r].done
      /\ \A q \in Waiting : request'[q] = request[q]
  BY AskFacts DEF PressSignIn, IInv
<1>2. /\ UpdateView(user) /\ account' = account
      /\ UNCHANGED <<place, document, writing, user, label, trap, history>>
  BY DEF PressSignIn, server
<1>3. /\ subview' \in {"signedIn", "signUp"} /\ ShownIsCurrent' /\ SeenFirst'
      /\ OnlyUserIsShown' /\ OnlyUserIsHeard'
      /\ due' \subseteq listening' /\ listening' \subseteq account'
  BY <1>2, ViewStep
<1>4. AccountTypeOK' /\ AnsweredHasAccount'
  BY <1>1, <1>2, <1>3 DEF IInv, AccountTypeOK, AnsweredHasAccount, history
<1>5. DocumentFollows'
  BY <1>1, <1>2 DEF IInv, DocumentFollows, SigningUp, history
<1> QED
  BY <1>3, <1>4, <1>5 DEF IInv

(* The server's answer changes the user; the view is not yet current, and  *)
(* no other user was seen who is still in the labels.                      *)
LEMMA AcceptedStep == IInv /\ (\E r \in Requests : Accepted(r)) => IInv'
<1> SUFFICES ASSUME IInv, NEW r \in Requests, Accepted(r) PROVE IInv'
  OBVIOUS
<1> DEFINE u == request[r].who
<1>1. r \in Waiting /\ request' = [request EXCEPT ![r].done = TRUE]
  BY DEF Accepted
<1>2. /\ request' \in [Requests -> {None} \cup Request]
      /\ Waiting' = Waiting /\ request'[r].done
      /\ \A q \in Waiting : /\ request'[q].who = request[q].who
                           /\ request'[q].kind = request[q].kind
      /\ \A q \in Waiting \ {r} : request'[q] = request[q]
      /\ u \in Users
  BY <1>1, AcceptFacts DEF IInv
<1>3. /\ account' = account \cup {u} /\ user' = u /\ seen' = seen \cup {u}
      /\ UNCHANGED <<place, document, writing, subview, label, listening, due, trap,
                     deaf, rejected, cutOff>>
      /\ request[r].kind = "in" <=> u \in account
  BY DEF Accepted, listeners
<1>4. u # None
  BY <1>2, AccountAssumption
<1> HIDE DEF u
<1>5. AccountTypeOK' /\ AnsweredHasAccount'
  <2>1. AccountTypeOK'
    BY <1>2, <1>3 DEF IInv, AccountTypeOK
  <2>2. AnsweredHasAccount'
    BY <1>2, <1>3 DEF IInv, AnsweredHasAccount, u
  <2> QED
    BY <2>1, <2>2
<1>6. DocumentFollows'
  <2>1. SigningUp' = SigningUp
    BY <1>2 DEF SigningUp
  <2>2. u \in account \/ u \in SigningUp
    <3>1. request[r].kind \in {"up", "in"}
      BY <1>1 DEF IInv, AccountTypeOK, Waiting, Request
    <3> QED
      BY <3>1, <1>1, <1>3 DEF SigningUp, u
  <2> QED
    BY <2>1, <2>2, <1>3 DEF IInv, DocumentFollows
<1>7. ShownIsCurrent'
  BY <1>1, <1>2 DEF ShownIsCurrent
<1>8. SeenFirst' /\ OnlyUserIsShown'
  BY <1>3, <1>4 DEF IInv, SeenFirst, OnlyUserIsShown
<1>9. OnlyUserIsHeard'
  BY <1>3 DEF IInv, SeenFirst, OnlyUserIsHeard
<1> QED
  BY <1>5, <1>6, <1>7, <1>8, <1>9 DEF IInv

(* The completion of a sign-in.                                            *)
LEMMA SignInAnsweredStep ==
  IInv /\ (\E r \in Requests : SignInAnswered(r)) => IInv'
<1> SUFFICES ASSUME IInv, NEW r \in Requests, SignInAnswered(r) PROVE IInv'
  OBVIOUS
<1>1. /\ r \in Waiting /\ request[r].kind = "in"
      /\ request' = [request EXCEPT ![r] = None]
  BY DEF SignInAnswered
<1>2. /\ request' \in [Requests -> {None} \cup Request]
      /\ Waiting' = Waiting \ {r}
      /\ \A q \in Waiting \ {r} : request'[q] = request[q]
  BY <1>1, FreeFacts DEF IInv
<1>3. /\ UpdateView(user) /\ account' = account
      /\ UNCHANGED <<place, document, writing, user, label, trap, history>>
  BY DEF SignInAnswered, server
<1>4. /\ subview' \in {"signedIn", "signUp"} /\ ShownIsCurrent' /\ SeenFirst'
      /\ OnlyUserIsShown' /\ OnlyUserIsHeard'
      /\ due' \subseteq listening' /\ listening' \subseteq account'
  BY <1>3, ViewStep
<1>5. AccountTypeOK' /\ AnsweredHasAccount'
  BY <1>2, <1>3, <1>4 DEF IInv, AccountTypeOK, AnsweredHasAccount, history
<1>6. DocumentFollows'
  BY <1>1, <1>2, <1>3 DEF IInv, DocumentFollows, SigningUp, history
<1> QED
  BY <1>4, <1>5, <1>6 DEF IInv

(* The completion of a sign-up: the document is on its way from now on.    *)
LEMMA SignedUpStep == IInv /\ (\E r \in Requests : SignedUp(r)) => IInv'
<1> SUFFICES ASSUME IInv, NEW r \in Requests, SignedUp(r) PROVE IInv'
  OBVIOUS
<1>1. /\ r \in Waiting /\ request[r].kind = "up" /\ request[r].done
      /\ request' = [request EXCEPT ![r] = None]
  BY DEF SignedUp
<1>2. /\ request' \in [Requests -> {None} \cup Request]
      /\ Waiting' = Waiting \ {r}
      /\ \A q \in Waiting \ {r} : request'[q] = request[q]
  BY <1>1, FreeFacts DEF IInv
<1>3. /\ UpdateView(user) /\ account' = account
      /\ writing' = writing \cup {request[r].who}
      /\ UNCHANGED <<place, document, user, label, trap, history>>
  BY DEF SignedUp
<1>4. /\ subview' \in {"signedIn", "signUp"} /\ ShownIsCurrent' /\ SeenFirst'
      /\ OnlyUserIsShown' /\ OnlyUserIsHeard'
      /\ due' \subseteq listening' /\ listening' \subseteq account'
  BY <1>3, ViewStep
<1>5. request[r].who \in account
  BY <1>1 DEF IInv, AnsweredHasAccount
<1>6. AccountTypeOK' /\ AnsweredHasAccount'
  BY <1>2, <1>3, <1>4, <1>5 DEF IInv, AccountTypeOK, AnsweredHasAccount, history
<1>7. DocumentFollows'
  BY <1>1, <1>2, <1>3 DEF IInv, DocumentFollows, SigningUp, history
<1> QED
  BY <1>4, <1>6, <1>7 DEF IInv

(* The completion of a refused sign-up ends the process.                   *)
LEMMA SignUpRefusedStep ==
  IInv /\ (\E r \in Requests : SignUpRefused(r)) => IInv'
BY DEF SignUpRefused, IInv, AccountTypeOK, AnsweredHasAccount, DocumentFollows,
       ShownIsCurrent, SeenFirst, OnlyUserIsShown, OnlyUserIsHeard, Waiting,
       SigningUp, server, listeners, history

(* An answered write leaves the queue for the documents or the rejected.   *)
LEMMA WriteAnsweredStep ==
  IInv /\ (\E u \in Users : WriteAnswered(u)) => IInv'
<1> SUFFICES ASSUME IInv, NEW u \in Users, WriteAnswered(u) PROVE IInv'
  OBVIOUS
<1>1. /\ u \in writing /\ writing' = writing \ {u}
      /\ \/ document' = document \cup {u} /\ due' = due /\ rejected' = rejected
         \/ /\ rejected' = rejected \cup {u} /\ document' = document
            /\ due' = due \cup ({u} \cap listening)
      /\ UNCHANGED <<place, account, user, subview, label, listening, request, trap,
                     seen, deaf, cutOff>>
  BY DEF WriteAnswered
<1>2. AccountTypeOK' /\ AnsweredHasAccount' /\ DocumentFollows'
  BY <1>1 DEF IInv, AccountTypeOK, AnsweredHasAccount, DocumentFollows, Waiting,
              SigningUp
<1>3. ShownIsCurrent' /\ SeenFirst' /\ OnlyUserIsShown' /\ OnlyUserIsHeard'
  BY <1>1 DEF IInv, ShownIsCurrent, SeenFirst, OnlyUserIsShown, OnlyUserIsHeard,
              Waiting
<1> QED
  BY <1>2, <1>3 DEF IInv

(* A snapshot puts its user in the labels, or ends the process.            *)
LEMMA SnapshotStep == IInv /\ (\E u \in Users : Snapshot(u)) => IInv'
<1> SUFFICES ASSUME IInv, NEW u \in Users, Snapshot(u) PROVE IInv'
  OBVIOUS
<1>1. /\ u \in due /\ due' = due \ {u}
      /\ \/ label' = u /\ trap' = trap
         \/ trap' = "snapshot" /\ label' = label
      /\ UNCHANGED <<place, account, document, writing, user, subview, listening, request,
                     seen, deaf, rejected, cutOff>>
  BY DEF Snapshot, server, history
<1>2. AccountTypeOK' /\ AnsweredHasAccount' /\ DocumentFollows'
  BY <1>1 DEF IInv, AccountTypeOK, AnsweredHasAccount, DocumentFollows, Waiting,
              SigningUp
<1>3. ShownIsCurrent' /\ SeenFirst' /\ OnlyUserIsHeard'
  BY <1>1 DEF IInv, ShownIsCurrent, SeenFirst, OnlyUserIsHeard, Waiting
<1>4. OnlyUserIsShown'
  <2>1. u \in seen
    BY <1>1 DEF IInv, AccountTypeOK, SeenFirst
  <2> QED
    BY <1>1, <2>1 DEF IInv, OnlyUserIsShown
<1> QED
  BY <1>2, <1>3, <1>4 DEF IInv

(* Listeners end, or are due again.                                        *)
LEMMA ListenerStep ==
  IInv /\ (\E u \in Users : SnapshotError(u) \/ DocumentChanges(u)) => IInv'
<1>1. ASSUME IInv, NEW u \in Users, SnapshotError(u) PROVE IInv'
  BY <1>1 DEF SnapshotError, IInv, AccountTypeOK, AnsweredHasAccount,
              DocumentFollows, ShownIsCurrent, SeenFirst, OnlyUserIsShown,
              OnlyUserIsHeard, Waiting, SigningUp, server
<1>2. ASSUME IInv, NEW u \in Users, DocumentChanges(u) PROVE IInv'
  BY <1>2 DEF DocumentChanges, IInv, AccountTypeOK, AnsweredHasAccount,
              DocumentFollows, ShownIsCurrent, SeenFirst, OnlyUserIsShown,
              OnlyUserIsHeard, Waiting, SigningUp, server, history
<1> QED
  BY <1>1, <1>2

(* A restart knows no request and no listener, and remembers as cut off    *)
(* every sign-up that was under way.                                       *)
LEMMA RestartStep == IInv /\ Restart => IInv'
<1> SUFFICES ASSUME IInv, Restart PROVE IInv'
  OBVIOUS
<1>1. SigningUp \subseteq Users
  BY DEF IInv, AccountTypeOK, SigningUp, Waiting, Request
<1>2. /\ account \subseteq account' /\ account' \subseteq account \cup SigningUp
      /\ cutOff' = cutOff \cup SigningUp
      /\ place' = "off" /\ subview' = "none" /\ label' = None
      /\ listening' = {} /\ due' = {} /\ trap' = "no"
      /\ seen' = {user} \ {None} /\ deaf' = {}
      /\ UNCHANGED <<document, writing, user, rejected>>
      /\ request' \in [Requests -> {None} \cup Request] /\ Waiting' = {}
  BY DEF Restart, Waiting
<1>3. AccountTypeOK' /\ AnsweredHasAccount'
  BY <1>1, <1>2 DEF IInv, AccountTypeOK, AnsweredHasAccount
<1>4. DocumentFollows'
  BY <1>2 DEF IInv, DocumentFollows, SigningUp
<1>5. ShownIsCurrent' /\ SeenFirst' /\ OnlyUserIsShown' /\ OnlyUserIsHeard'
  BY <1>2 DEF ShownIsCurrent, SeenFirst, OnlyUserIsShown, OnlyUserIsHeard
<1> QED
  BY <1>3, <1>4, <1>5 DEF IInv

(* The inductive invariant holds in every state.                           *)
THEOREM Invariance == AccountSpec => []IInv
<1>1. IInv /\ AccountNext => IInv'
  BY EnterAccountStep, LeaveAndShowStep, PressSignOutStep, PressSignUpStep,
     PressSignInStep, AcceptedStep, SignInAnsweredStep, SignedUpStep,
     SignUpRefusedStep, WriteAnsweredStep, SnapshotStep, ListenerStep, RestartStep DEF AccountNext
<1>2. IInv /\ UNCHANGED accountVars => IInv'
  BY DEF accountVars, server, listeners, history, IInv, AccountTypeOK,
         AnsweredHasAccount, DocumentFollows, ShownIsCurrent, SeenFirst,
         OnlyUserIsShown, OnlyUserIsHeard, Waiting, SigningUp
<1> QED
  BY <1>1, <1>2, InitHolds, PTL DEF AccountSpec

(* Every variable keeps its type; the documents are of accounts and the    *)
(* listeners of accounts.                                                  *)
THEOREM TypeCorrect == AccountSpec => []AccountTypeOK
BY Invariance, PTL DEF IInv

(* With no answer outstanding the signed-in view is shown if and only if   *)
(* somebody is signed in, for any number of requests at once.              *)
THEOREM ViewIsOfTheUser == AccountSpec => []ShownIsSignedIn
<1>1. IInv => ShownIsSignedIn
  BY DEF IInv, ShownIsCurrent, ShownIsSignedIn
<1> QED
  BY <1>1, Invariance, PTL

(* When every snapshot has come the labels are of the user, unless another *)
(* account was used since launch or a listener ended with an error.        *)
THEOREM LabelsFollow == AccountSpec => []LabelsAreOfTheUser
<1>1. IInv => LabelsAreOfTheUser
  BY DEF IInv, AccountTypeOK, SeenFirst, OnlyUserIsShown, OnlyUserIsHeard,
         LabelsAreOfTheUser
<1> QED
  BY <1>1, Invariance, PTL

(* A snapshot ends the process only for a user whose sign-up is unanswered *)
(* or was cut off, or whose document the server rejected.                  *)
THEOREM TrapsNeedLostDocuments == AccountSpec => []TrapNeedsLostDocument
<1>1. AccountInit => TrapNeedsLostDocument
  BY DEF AccountInit, TrapNeedsLostDocument
<1>2. IInv /\ TrapNeedsLostDocument /\ AccountNext => TrapNeedsLostDocument'
  <2> SUFFICES ASSUME IInv, AccountNext, trap' = "snapshot"
               PROVE  TrapNeedsLostDocument'
    BY DEF TrapNeedsLostDocument
  <2>1. PICK u \in Users : Snapshot(u)
    <3>1. ~EnterAccount /\ ~LeaveAccount /\ ~PressSignOut /\ ~ShowSignIn /\ ~Restart
      BY DEF EnterAccount, LeaveAccount, PressSignOut, ShowSignIn, Touchable, Restart
    <3>2. ASSUME NEW r \in Requests, NEW u \in Users
          PROVE  ~PressSignUp(r, u) /\ ~PressSignIn(r, u)
      BY DEF PressSignUp, PressSignIn, Touchable
    <3>3. ASSUME NEW r \in Requests
          PROVE  /\ ~Accepted(r) /\ ~SignInAnswered(r)
                 /\ ~SignedUp(r) /\ ~SignUpRefused(r)
      BY DEF Accepted, SignInAnswered, SignedUp, SignUpRefused
    <3>4. ASSUME NEW u \in Users
          PROVE  ~WriteAnswered(u) /\ ~SnapshotError(u) /\ ~DocumentChanges(u)
      BY DEF WriteAnswered, SnapshotError, DocumentChanges
    <3> QED
      BY <3>1, <3>2, <3>3, <3>4 DEF AccountNext
  <2>2. /\ u \in due /\ u \notin document \cup writing
        /\ UNCHANGED <<account, document, writing, listening, request, rejected, cutOff>>
    BY <2>1 DEF Snapshot, server, history
  <2>3. u \in listening /\ u \in SigningUp \cup rejected \cup cutOff
    BY <2>2 DEF IInv, AccountTypeOK, DocumentFollows
  <2>4. SigningUp' = SigningUp
    BY <2>2 DEF SigningUp, Waiting
  <2> QED
    BY <2>2, <2>3, <2>4 DEF TrapNeedsLostDocument
<1>3. TrapNeedsLostDocument /\ UNCHANGED accountVars => TrapNeedsLostDocument'
  BY DEF accountVars, server, listeners, history, TrapNeedsLostDocument, SigningUp,
         Waiting
<1> QED
  BY <1>1, <1>2, <1>3, Invariance, PTL DEF AccountSpec
=============================================================================
