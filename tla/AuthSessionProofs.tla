---- MODULE AuthSessionProofs ----
(***************************************************************************)
(* What is proved about AuthSession for every set of users: the types, the *)
(* exclusiveness of requests, that a sign-up writes the document of the    *)
(* account it created, that Sign Out is final and, of sessions that are    *)
(* not revoked, that the screen and Firestore follow them.                 *)
(***************************************************************************)
EXTENDS AuthSession, TLAPS

(***************************************************************************)
(* Blocks and queues.                                                      *)
(***************************************************************************)

\* NoUser and every account are values of FIRAuth's current user.
LEMMA MaybeUsers == NoUser \in MaybeUser /\ \A u \in Users : u \in MaybeUser
BY DEF MaybeUser

\* What the actions put on the main queue are blocks.
LEMMA BlocksAreTyped ==
    /\ \A u \in MaybeUser : Block("notify", u) \in Blocks
    /\ \A u \in MaybeUser : Block("initial", u) \in Blocks
    /\ \A u \in MaybeUser, r \in Requests : Block(r, u) \in Blocks
BY DEF Block, Blocks, Kinds

\* An answer queues two blocks, the announcement before the completion.
LEMMA OutcomeIsTwoBlocks ==
    ASSUME NEW r \in Requests, NEW u \in Users, NEW q \in Seq(Blocks)
    PROVE /\ q \o Outcome(r, u) = Append(Append(q, Block("notify", u)), Block(r, u))
          /\ q \o Outcome(r, u) \in Seq(Blocks)
<1>1. Block("notify", u) \in Blocks /\ Block(r, u) \in Blocks
  BY BlocksAreTyped, MaybeUsers
<1>2. q \o Outcome(r, u) = Append(Append(q, Block("notify", u)), Block(r, u))
  BY <1>1 DEF Outcome
<1> QED BY <1>1, <1>2

\* The main thread takes the first block and leaves the others in order.
LEMMA TakenBlock ==
    ASSUME mainQ \in Seq(Blocks), NEW kinds, MainTakes(kinds)
    PROVE /\ Head(mainQ) \in Blocks
          /\ mainQ' \in Seq(Blocks)
          /\ Len(mainQ) \in Nat \ {0}
          /\ Len(mainQ') = Len(mainQ) - 1
          /\ \A i \in 1..Len(mainQ') : mainQ'[i] = mainQ[i + 1]
          /\ Head(mainQ) = mainQ[1]
          /\ mainQ[1].kind \in kinds
BY DEF MainTakes

\* Answering a request keeps the counters of unanswered requests natural numbers.
LEMMA AnsweredIsCounted ==
    ASSUME inFlight \in [Requests -> Nat], NEW r \in Requests, Answered(r)
    PROVE inFlight' \in [Requests -> Nat]
BY DEF Answered, Due

\* Sending a request keeps the counters of unanswered requests natural numbers.
LEMMA SentIsCounted ==
    ASSUME inFlight \in [Requests -> Nat], NEW r \in Requests, Send(r)
    PROVE inFlight' \in [Requests -> Nat]
BY DEF Send

\* A launch leaves no completion on the queue.
LEMMA LaunchQueued ==
    ASSUME NEW u \in MaybeUser, NEW q \in LaunchQueues(u)
    PROVE /\ q \in Seq(Blocks)
          /\ \A i \in 1..Len(q) : q[i].kind \notin Requests
<1> DEFINE calls == <<Block("initial", NoUser)>>
<1>1. Block("initial", NoUser) \in Blocks /\ Block("notify", u) \in Blocks
  BY BlocksAreTyped, MaybeUsers
<1>2. /\ Block("initial", NoUser).kind \notin Requests
      /\ Block("notify", u).kind \notin Requests
  BY DEF Block, Requests
<1>3. CASE q = calls
  BY <1>1, <1>2, <1>3
<1>4. CASE q = <<Block("notify", u)>> \o calls
  BY <1>1, <1>2, <1>4
<1> QED BY <1>3, <1>4 DEF LaunchQueues

(***************************************************************************)
(* Types.                                                                  *)
(***************************************************************************)

\* A first launch has the types.
LEMMA TypeInit == Init => TypeOK
<1> SUFFICES ASSUME Init PROVE TypeOK
  OBVIOUS
<1>2. inFlight \in [Requests -> Nat]
  BY DEF Init
<1>3. keychain \in MaybeUser /\ currentUser \in MaybeUser /\ accounts \in SUBSET Users
  BY DEF Init, MaybeUser
<1>1. mainQ \in Seq(Blocks)
  BY <1>3, LaunchQueued DEF Init
<1> QED BY <1>1, <1>2, <1>3, MaybeUsers DEF Init, TypeOK

\* Every step of the session keeps them.
LEMMA TypeStep == TypeOK /\ [Next]_vars => TypeOK'
<1> SUFFICES ASSUME TypeOK, [Next]_vars PROVE TypeOK'
  OBVIOUS
<1> DEFINE Q == mainQ' \in Seq(Blocks)
<1>0. mainQ \in Seq(Blocks) /\ currentUser \in MaybeUser /\ inFlight \in [Requests -> Nat]
  BY DEF TypeOK
<1>1. CASE LoadStoredUser
  <2>1. currentUser' \in MaybeUser
    BY <1>1, MaybeUsers DEF LoadStoredUser, TypeOK
  <2>2. Q
    BY <1>0, <1>1, <2>1, BlocksAreTyped DEF LoadStoredUser
  <2> QED BY <1>1, <2>1, <2>2 DEF LoadStoredUser, stored, filter, screen, TypeOK
<1>2. ASSUME NEW r \in Requests, RequestSucceeds(r) PROVE TypeOK'
  <2>1. PICK u \in Eligible(r) : /\ accounts' = accounts \cup {u}
                                 /\ keychain' = u
                                 /\ currentUser' = u
                                 /\ mainQ' = mainQ \o Outcome(r, u)
    BY <1>2 DEF RequestSucceeds
  <2>2. u \in Users
    BY DEF Eligible, TypeOK
  <2>3. Q
    BY <1>0, <2>1, <2>2, OutcomeIsTwoBlocks
  <2>4. inFlight' \in [Requests -> Nat]
    BY <1>0, <1>2, AnsweredIsCounted DEF RequestSucceeds
  <2> QED BY <1>2, <2>1, <2>2, <2>3, <2>4, MaybeUsers
          DEF RequestSucceeds, Answered, filter, screen, TypeOK
<1>3. ASSUME NEW r \in Requests, RequestFails(r) PROVE TypeOK'
  <2>1. Q
    BY <1>0, <1>3, BlocksAreTyped, MaybeUsers DEF RequestFails
  <2>2. inFlight' \in [Requests -> Nat]
    BY <1>0, <1>3, AnsweredIsCounted DEF RequestFails
  <2>3. accounts' \in SUBSET Users
    BY <1>3 DEF RequestFails, Eligible, TypeOK
  <2> QED BY <1>3, <2>1, <2>2, <2>3 DEF RequestFails, Answered, filter, screen, TypeOK
<1>4. CASE RefreshToken
  <2>1. Q
    BY <1>0, <1>4, BlocksAreTyped DEF RefreshToken
  <2> QED BY <1>4, <2>1 DEF RefreshToken, stored, filter, screen, TypeOK
<1>5. CASE RevokeSession
  <2>1. Q
    BY <1>0, <1>5, BlocksAreTyped, MaybeUsers DEF RevokeSession
  <2> QED BY <1>5, <2>1, MaybeUsers DEF RevokeSession, filter, screen, TypeOK
<1>6. CASE RunInitial
  <2>1. Q
    BY <1>0, <1>6, TakenBlock DEF RunInitial
  <2> QED BY <1>6, <2>1 DEF RunInitial, FilterUser, stored, screen, TypeOK
<1>7. CASE RunNotify
  <2>1. Q
    BY <1>0, <1>7, TakenBlock DEF RunNotify
  <2> QED BY <1>7, <2>1 DEF RunNotify, FilterUser, stored, filter, screen, TypeOK
<1>8. CASE ListenerChecks
  BY <1>8, MaybeUsers DEF ListenerChecks, stored, filter, screen, TypeOK
<1>9. CASE ListenerStarts
  BY <1>9 DEF ListenerStarts, StartFor, stored, filter, screen, TypeOK
<1>10. CASE SignInCompletes
  <2>1. Q
    BY <1>0, <1>10, TakenBlock DEF SignInCompletes
  <2> QED BY <1>10, <2>1 DEF SignInCompletes, FinishRequest, stored, filter, TypeOK
<1>11. CASE SignUpCompletes
  <2>1. Q
    BY <1>0, <1>11, TakenBlock DEF SignUpCompletes, CreateUser
  <2>2. currentUser # NoUser => currentUser \in Users
    BY <1>0 DEF MaybeUser
  <2>3. docs \in SUBSET Users
    BY DEF TypeOK
  <2>4. docs' = docs \/ (currentUser # NoUser /\ docs' = docs \cup {currentUser})
    BY <1>11 DEF SignUpCompletes, CreateUser
  <2>5. docs' \in SUBSET Users
    BY <2>2, <2>3, <2>4
  <2> QED BY <1>11, <2>1, <2>5 DEF SignUpCompletes, CreateUser, FinishRequest, filter, screen, TypeOK
<1>12. CASE OnSignInTap
  <2>1. inFlight' \in [Requests -> Nat]
    BY <1>0, <1>12, SentIsCounted DEF OnSignInTap, Requests
  <2> QED BY <1>12, <2>1 DEF OnSignInTap, Send, stored, filter, TypeOK
<1>13. CASE OnSignUpTap
  <2>1. inFlight' \in [Requests -> Nat]
    BY <1>0, <1>13, SentIsCounted DEF OnSignUpTap, Requests
  <2> QED BY <1>13, <2>1 DEF OnSignUpTap, Send, FinishRequest, stored, filter, TypeOK
<1>14. CASE SignOutTap
  <2>1. Block("notify", NoUser) \in Blocks
    BY BlocksAreTyped, MaybeUsers
  <2>2. mainQ' = mainQ \/ mainQ' = Append(mainQ, Block("notify", NoUser))
    BY <1>14 DEF SignOutTap, AuthSignsOut, SignOutFails
  <2>3. Q
    BY <1>0, <2>1, <2>2
  <2> QED BY <1>14, <2>3, MaybeUsers
          DEF SignOutTap, StopListening, AuthSignsOut, SignOutFails, filter, screen, TypeOK
<1>15. CASE DismissAlert
  BY <1>15 DEF DismissAlert, stored, filter, TypeOK
<1>16. CASE Relaunch
  <2>1. currentUser' \in MaybeUser
    BY <1>16, MaybeUsers DEF Relaunch, TypeOK
  <2>2. Q
    BY <1>16, <2>1, LaunchQueued DEF Relaunch
  <2> QED BY <1>16, <2>1, <2>2, MaybeUsers DEF Relaunch, stored, TypeOK
<1>17. CASE UNCHANGED vars
  BY <1>17 DEF vars, stored, filter, screen, TypeOK
<1> QED BY <1>1, <1>2, <1>3, <1>4, <1>5, <1>6, <1>7, <1>8, <1>9, <1>10, <1>11, <1>12, <1>13,
           <1>14, <1>15, <1>16, <1>17 DEF Next, Answers, MainRuns, Taps

\* The variables of the session keep their types, whatever the accounts.
THEOREM TypeCorrect == Spec => []TypeOK
BY TypeInit, TypeStep, PTL DEF Spec

(***************************************************************************)
(* One request at a time.                                                  *)
(***************************************************************************)

\* The number of unanswered requests of both kinds is a natural number.
LEMMA UnansweredIsANumber ==
    ASSUME inFlight \in [Requests -> Nat]
    PROVE /\ inFlight["signIn"] \in Nat /\ inFlight["signUp"] \in Nat
          /\ Unanswered \in Nat
BY DEF Unanswered, Requests

\* An announcement is not a completion: queueing it leaves the completions as
\* they are.
LEMMA AnnouncementQueued ==
    ASSUME mainQ \in Seq(Blocks), NEW u \in MaybeUser,
           mainQ' = Append(mainQ, Block("notify", u))
    PROVE /\ Pending(Requests)' => Pending(Requests)
          /\ LoneCompletion => LoneCompletion'
<1>1. Block("notify", u) \in Blocks /\ Block("notify", u).kind \notin Requests
  BY BlocksAreTyped DEF Block, Requests
<1>2. /\ Len(mainQ') = Len(mainQ) + 1
      /\ Len(mainQ) \in Nat
      /\ \A i \in 1..Len(mainQ) : mainQ'[i] = mainQ[i]
      /\ mainQ'[Len(mainQ) + 1] = Block("notify", u)
  BY <1>1
<1>3. ASSUME NEW i \in 1..Len(mainQ'), mainQ'[i].kind \in Requests
      PROVE i \in 1..Len(mainQ) /\ mainQ[i].kind \in Requests
  BY <1>1, <1>2, <1>3
<1> QED BY <1>3 DEF Pending, LoneCompletion

\* Taking a block shifts the others by one.
LEMMA BlockTaken ==
    ASSUME mainQ \in Seq(Blocks), NEW kinds, MainTakes(kinds)
    PROVE /\ Pending(Requests)' => Pending(Requests)
          /\ LoneCompletion => LoneCompletion'
          /\ LoneCompletion /\ kinds \subseteq Requests => ~Pending(Requests)' /\ Pending(Requests)
<1>1. ASSUME NEW i \in 1..Len(mainQ')
      PROVE i + 1 \in 2..Len(mainQ) /\ mainQ'[i] = mainQ[i + 1]
  BY TakenBlock
<1>2. 1 \in 1..Len(mainQ) /\ mainQ[1].kind \in kinds /\ Len(mainQ) \in Nat
  BY TakenBlock
<1>3. Pending(Requests)' => Pending(Requests)
  BY <1>1, <1>2 DEF Pending
<1>4. LoneCompletion => LoneCompletion'
  BY <1>1, <1>2 DEF LoneCompletion
<1>5. LoneCompletion /\ kinds \subseteq Requests => ~Pending(Requests)' /\ Pending(Requests)
  BY <1>1, <1>2 DEF LoneCompletion, Pending
<1> QED BY <1>3, <1>4, <1>5

\* Steps that neither send nor answer a request nor touch the overlay.
LEMMA OneRequestFrame ==
    ASSUME TypeOK, OneRequest, UNCHANGED <<inFlight, isLoading>>,
           \/ UNCHANGED mainQ
           \/ \E u \in MaybeUser : mainQ' = Append(mainQ, Block("notify", u))
           \/ \E kinds : MainTakes(kinds)
    PROVE OneRequest'
<1>1. mainQ \in Seq(Blocks)
  BY DEF TypeOK
<1>2. (Pending(Requests)' => Pending(Requests)) /\ (LoneCompletion => LoneCompletion')
  <2>1. CASE UNCHANGED mainQ
    BY <2>1 DEF Pending, LoneCompletion
  <2>2. CASE \E u \in MaybeUser : mainQ' = Append(mainQ, Block("notify", u))
    BY <1>1, <2>2, AnnouncementQueued
  <2>3. CASE \E kinds : MainTakes(kinds)
    BY <1>1, <2>3, BlockTaken
  <2> QED BY <2>1, <2>2, <2>3
<1> QED BY <1>2 DEF OneRequest, Unanswered

\* An answered request was the only one, and no completion was queued.
LEMMA AnsweredAlone ==
    ASSUME TypeOK, OneRequest, NEW r \in Requests, Answered(r)
    PROVE Unanswered' = 0 /\ isLoading' /\ ~Pending(Requests)
<1>1. inFlight \in [Requests -> Nat]
  BY DEF TypeOK
<1>2. Unanswered = 1 /\ Unanswered' = 0
  <2>1. inFlight[r] > 0 /\ inFlight' = [inFlight EXCEPT ![r] = @ - 1]
    BY DEF Answered, Due
  <2>2. inFlight["signIn"] + inFlight["signUp"] <= 1
    BY DEF OneRequest, Unanswered
  <2>3. CASE r = "signIn"
    <3>1. inFlight'["signIn"] = inFlight["signIn"] - 1 /\ inFlight'["signUp"] = inFlight["signUp"]
      BY <1>1, <2>1, <2>3 DEF Requests
    <3> QED BY <1>1, <2>1, <2>2, <2>3, <3>1, UnansweredIsANumber DEF Unanswered
  <2>4. CASE r = "signUp"
    <3>1. inFlight'["signUp"] = inFlight["signUp"] - 1 /\ inFlight'["signIn"] = inFlight["signIn"]
      BY <1>1, <2>1, <2>4 DEF Requests
    <3> QED BY <1>1, <2>1, <2>2, <2>4, <3>1, UnansweredIsANumber DEF Unanswered
  <2> QED BY <2>3, <2>4 DEF Requests
<1>3. isLoading' /\ ~Pending(Requests)
  BY <1>2 DEF OneRequest, Answered, screen
<1> QED BY <1>2, <1>3

\* The answer to the one request there is queues the one completion.
LEMMA OneRequestAnswered ==
    ASSUME TypeOK, OneRequest, NEW r \in Requests, Answered(r), NEW q \in Seq(Blocks),
           NEW u \in MaybeUser, mainQ' = Append(q, Block(r, u)),
           q = mainQ \/ \E v \in MaybeUser : q = Append(mainQ, Block("notify", v))
    PROVE OneRequest'
<1>1. mainQ \in Seq(Blocks)
  BY DEF TypeOK
<1>3. Unanswered' = 0 /\ isLoading' /\ ~Pending(Requests)
  BY AnsweredAlone
<1>4. Block(r, u) \in Blocks
  BY BlocksAreTyped
<1>5. \A i \in 1..Len(q) : q[i].kind \notin Requests
  <2>1. CASE q = mainQ
    BY <1>3, <2>1 DEF Pending
  <2>2. ASSUME NEW v \in MaybeUser, q = Append(mainQ, Block("notify", v))
        PROVE \A i \in 1..Len(q) : q[i].kind \notin Requests
    <3>1. Block("notify", v) \in Blocks /\ Block("notify", v).kind \notin Requests
      BY BlocksAreTyped DEF Block, Requests
    <3>2. \A i \in 1..Len(mainQ) : mainQ[i].kind \notin Requests
      BY <1>3 DEF Pending
    <3> QED BY <1>1, <2>2, <3>1, <3>2
  <2> QED BY <2>1, <2>2
<1>6. \A i \in 1..Len(mainQ') : mainQ'[i].kind \in Requests => i = Len(mainQ')
  BY <1>4, <1>5
<1>7. LoneCompletion'
  BY <1>6 DEF LoneCompletion
<1> QED BY <1>3, <1>7 DEF OneRequest

\* A tap that sends a request finds no other one.
LEMMA OneRequestSent ==
    ASSUME TypeOK, OneRequest, ~isLoading, NEW r \in Requests, Send(r), UNCHANGED mainQ
    PROVE OneRequest'
<1>1. inFlight \in [Requests -> Nat]
  BY DEF TypeOK
<1>2. Unanswered = 0
  BY <1>1, UnansweredIsANumber DEF OneRequest
<1>3. inFlight["signIn"] = 0 /\ inFlight["signUp"] = 0
  BY <1>1, <1>2, UnansweredIsANumber DEF Unanswered
<1>4. Unanswered' = 1
  <2>1. inFlight' = [inFlight EXCEPT ![r] = @ + 1]
    BY DEF Send
  <2>2. CASE r = "signIn"
    BY <1>1, <1>3, <2>1, <2>2 DEF Unanswered, Requests
  <2>3. CASE r = "signUp"
    BY <1>1, <1>3, <2>1, <2>3 DEF Unanswered, Requests
  <2> QED BY <2>2, <2>3 DEF Requests
<1>5. ~Pending(Requests)' /\ LoneCompletion'
  BY DEF OneRequest, Pending, LoneCompletion
<1> QED BY <1>4, <1>5 DEF OneRequest, Send

\* A launch starts without a request.
LEMMA OneRequestInit == Init => OneRequest
<1> SUFFICES ASSUME Init PROVE OneRequest
  OBVIOUS
<1>1. Unanswered = 0
  BY DEF Init, Unanswered, Requests
<1>2. \A i \in 1..Len(mainQ) : mainQ[i].kind \notin Requests
  BY TypeInit, LaunchQueued DEF Init, TypeOK
<1> QED BY <1>1, <1>2 DEF OneRequest, Pending, LoneCompletion

\* Every step of the session keeps the requests exclusive; the types make the
\* invariant inductive.
LEMMA OneRequestStep == TypeOK /\ OneRequest /\ [Next]_vars => OneRequest'
<1> SUFFICES ASSUME TypeOK, OneRequest, [Next]_vars PROVE OneRequest'
  OBVIOUS
<1>0. mainQ \in Seq(Blocks) /\ currentUser \in MaybeUser /\ inFlight \in [Requests -> Nat]
  BY DEF TypeOK
<1>1. CASE LoadStoredUser
  <2>1. UNCHANGED mainQ \/ \E u \in MaybeUser : mainQ' = Append(mainQ, Block("notify", u))
    BY <1>1, MaybeUsers DEF LoadStoredUser, TypeOK
  <2> QED BY <1>1, <2>1, OneRequestFrame DEF LoadStoredUser, screen
<1>2. ASSUME NEW r \in Requests, RequestSucceeds(r) PROVE OneRequest'
  <2>1. PICK u \in Eligible(r) : mainQ' = mainQ \o Outcome(r, u)
    BY <1>2 DEF RequestSucceeds
  <2>2. u \in Users
    BY DEF Eligible, TypeOK
  <2>3. mainQ' = Append(Append(mainQ, Block("notify", u)), Block(r, u))
    BY <1>0, <2>1, <2>2, OutcomeIsTwoBlocks
  <2>4. Append(mainQ, Block("notify", u)) \in Seq(Blocks)
    BY <1>0, <2>2, BlocksAreTyped, MaybeUsers
  <2> QED BY <1>2, <2>2, <2>3, <2>4, MaybeUsers, OneRequestAnswered DEF RequestSucceeds
<1>3. ASSUME NEW r \in Requests, RequestFails(r) PROVE OneRequest'
  BY <1>0, <1>3, MaybeUsers, OneRequestAnswered DEF RequestFails
<1>4. CASE RefreshToken
  BY <1>0, <1>4, OneRequestFrame DEF RefreshToken, screen
<1>5. CASE RevokeSession
  BY <1>5, MaybeUsers, OneRequestFrame DEF RevokeSession, screen
<1>6. CASE RunInitial
  BY <1>6, OneRequestFrame DEF RunInitial, screen
<1>7. CASE RunNotify
  BY <1>7, OneRequestFrame DEF RunNotify, screen
<1>8. CASE ListenerChecks
  BY <1>8, OneRequestFrame DEF ListenerChecks, screen
<1>9. CASE ListenerStarts
  BY <1>9, OneRequestFrame DEF ListenerStarts, screen
<1>10. ASSUME NEW kinds \in SUBSET Requests, MainTakes(kinds), UNCHANGED inFlight
       PROVE OneRequest'
  <2>1. ~Pending(Requests)' /\ Pending(Requests) /\ LoneCompletion'
    BY <1>0, <1>10, BlockTaken DEF OneRequest
  <2>2. Unanswered = 0
    BY <1>0, <2>1, UnansweredIsANumber DEF OneRequest
  <2>3. Unanswered' = 0
    BY <1>10, <2>2 DEF Unanswered
  <2> QED BY <2>1, <2>3 DEF OneRequest
<1>11. CASE SignInCompletes
  BY <1>10, <1>11 DEF SignInCompletes, Requests
<1>12. CASE SignUpCompletes
  BY <1>10, <1>12 DEF SignUpCompletes, CreateUser, Requests
<1>13. CASE OnSignInTap
  BY <1>13, OneRequestSent DEF OnSignInTap, Touchable, Requests
<1>14. CASE OnSignUpTap
  <2>1. CASE Send("signUp")
    BY <1>14, <2>1, OneRequestSent DEF OnSignUpTap, Touchable, Requests
  <2>2. CASE FinishRequest(FALSE) /\ UNCHANGED inFlight
    BY <1>14, <2>2, OneRequestFrame DEF OnSignUpTap, Touchable, FinishRequest, TypeOK
  <2> QED BY <1>14, <2>1, <2>2 DEF OnSignUpTap
<1>15. CASE SignOutTap
  <2>1. UNCHANGED mainQ \/ mainQ' = Append(mainQ, Block("notify", NoUser))
    BY <1>15 DEF SignOutTap, AuthSignsOut, SignOutFails
  <2> QED BY <1>15, <2>1, MaybeUsers, OneRequestFrame DEF SignOutTap, screen
<1>16. CASE DismissAlert
  BY <1>16, OneRequestFrame DEF DismissAlert
<1>17. CASE Relaunch
  <2>1. Unanswered' = 0
    BY <1>17 DEF Relaunch, Unanswered, Requests
  <2>2. currentUser' \in MaybeUser
    BY TypeStep DEF TypeOK
  <2>3. \A i \in 1..Len(mainQ') : mainQ'[i].kind \notin Requests
    BY <1>17, <2>2, LaunchQueued DEF Relaunch
  <2> QED BY <2>1, <2>3 DEF OneRequest, Pending, LoneCompletion
<1>18. CASE UNCHANGED vars
  BY <1>18, OneRequestFrame DEF vars, screen
<1> QED BY <1>1, <1>2, <1>3, <1>4, <1>5, <1>6, <1>7, <1>8, <1>9, <1>11, <1>12, <1>13, <1>14,
           <1>15, <1>16, <1>17, <1>18 DEF Next, Answers, MainRuns, Taps

\* At any time at most one request is unanswered or unfinished, and the overlay
\* is up for it, whatever the order of answers, notifications and taps.
THEOREM OneRequestAtATime == Spec => []OneRequest
BY TypeInit, TypeStep, OneRequestInit, OneRequestStep, PTL DEF Spec

(***************************************************************************)
(* The document of a new account.  A completed sign-up that is still       *)
(* queued is about an account without a document, and nobody but that      *)
(* account can be signed in by then: no request was sent beside it, and    *)
(* the keychain had been read before it was answered.                      *)
(***************************************************************************)

NewAccount(b) == b.kind = "signUp" /\ b.user # NoUser

QueuedAccounts ==
    \A i \in 1..Len(mainQ) :
        /\ mainQ[i].kind \in Requests => loaded
        /\ NewAccount(mainQ[i]) => /\ mainQ[i].user \in accounts \ docs
                                   /\ currentUser \in {NoUser, mainQ[i].user}

KnownAccounts ==
    /\ docs \subseteq accounts
    /\ keychain \in accounts \cup {NoUser}
    /\ currentUser \in accounts \cup {NoUser}

\* With no completion on the queue there is nothing to say of one.
LEMMA NothingQueued ==
    ASSUME ~Pending(Requests)' PROVE QueuedAccounts'
BY DEF Pending, QueuedAccounts, NewAccount, Requests

\* Steps that sign nobody in, write no document and queue no new account.
LEMMA AccountsFrame ==
    ASSUME mainQ \in Seq(Blocks), KnownAccounts, QueuedAccounts, UNCHANGED docs,
           accounts \subseteq accounts', loaded => loaded',
           keychain' \in {keychain, NoUser}, currentUser' \in {currentUser, NoUser},
           \/ UNCHANGED mainQ
           \/ \E b \in Blocks : /\ mainQ' = Append(mainQ, b)
                                /\ b.kind \in Requests => loaded
                                /\ ~NewAccount(b)
           \/ \E kinds : MainTakes(kinds)
    PROVE KnownAccounts' /\ QueuedAccounts'
<1>1. KnownAccounts'
  BY DEF KnownAccounts
<1> DEFINE Fine(b) == /\ b.kind \in Requests => loaded
                      /\ NewAccount(b) => /\ b.user \in accounts \ docs
                                          /\ currentUser \in {NoUser, b.user}
<1>2. ASSUME NEW b, Fine(b)
      PROVE /\ b.kind \in Requests => loaded'
            /\ NewAccount(b) => /\ b.user \in accounts' \ docs'
                                /\ currentUser' \in {NoUser, b.user}
  BY <1>2
<1>3. \A i \in 1..Len(mainQ) : Fine(mainQ[i])
  BY DEF QueuedAccounts
<1>4. \A i \in 1..Len(mainQ') : Fine(mainQ'[i])
  <2> HIDE DEF Fine
  <2>1. CASE UNCHANGED mainQ
    BY <1>3, <2>1
  <2>2. ASSUME NEW kinds, MainTakes(kinds)
        PROVE \A i \in 1..Len(mainQ') : Fine(mainQ'[i])
    <3>1. /\ Len(mainQ) \in Nat \ {0} /\ Len(mainQ') = Len(mainQ) - 1
          /\ \A i \in 1..Len(mainQ') : mainQ'[i] = mainQ[i + 1]
      BY <2>2, TakenBlock
    <3>2. \A i \in 1..Len(mainQ') : i + 1 \in 1..Len(mainQ)
      BY <3>1
    <3> QED BY <1>3, <3>1, <3>2
  <2>3. CASE \E b \in Blocks : /\ mainQ' = Append(mainQ, b)
                               /\ b.kind \in Requests => loaded
                               /\ ~NewAccount(b)
    <3>1. PICK b \in Blocks : /\ mainQ' = Append(mainQ, b)
                              /\ b.kind \in Requests => loaded
                              /\ ~NewAccount(b)
      BY <2>3
    <3>2. Fine(b)
      BY <3>1 DEF Fine
    <3> QED BY <1>3, <3>1, <3>2
  <2>4. CASE \E kinds : MainTakes(kinds)
    BY <2>2, <2>4
  <2> QED BY <2>1, <2>3, <2>4
<1> HIDE DEF Fine
<1>5. QueuedAccounts'
  BY <1>2, <1>4 DEF QueuedAccounts
<1> QED BY <1>1, <1>5

\* The completion of a sign-up that writes a document writes the new account's.
LEMMA WritesTheNewDocument ==
    ASSUME TypeOK, QueuedAccounts, SignUpCompletes, docs' # docs
    PROVE /\ NewAccount(Head(mainQ))
          /\ Head(mainQ).user \in accounts \ docs
          /\ docs' = docs \cup {Head(mainQ).user}
<1>1. MainTakes({"signUp"}) /\ Head(mainQ).user # NoUser /\ currentUser # NoUser
      /\ docs' = docs \cup {currentUser}
  BY DEF SignUpCompletes, CreateUser
<1>2. mainQ \in Seq(Blocks)
  BY DEF TypeOK
<1>3. Head(mainQ) = mainQ[1] /\ mainQ[1].kind = "signUp" /\ 1 \in 1..Len(mainQ)
  BY <1>1, <1>2, TakenBlock
<1>4. NewAccount(mainQ[1])
  BY <1>1, <1>3 DEF NewAccount
<1>5. mainQ[1].user \in accounts \ docs /\ currentUser \in {NoUser, mainQ[1].user}
  BY <1>3, <1>4 DEF QueuedAccounts
<1> QED BY <1>1, <1>3, <1>4, <1>5

\* A launch queues no completion, and signs in the stored user if anybody.
LEMMA AccountsInit == Init => KnownAccounts /\ QueuedAccounts
<1> SUFFICES ASSUME Init PROVE KnownAccounts /\ QueuedAccounts
  OBVIOUS
<1>1. KnownAccounts
  BY DEF Init, KnownAccounts
<1>2. \A i \in 1..Len(mainQ) : mainQ[i].kind \notin Requests
  BY TypeInit, LaunchQueued DEF Init, TypeOK
<1>3. QueuedAccounts
  BY <1>2 DEF QueuedAccounts, NewAccount, Requests
<1> QED BY <1>1, <1>3

\* Every step keeps the accounts on the queue new, one request being there at a time.
LEMMA AccountsStep ==
    TypeOK /\ OneRequest /\ KnownAccounts /\ QueuedAccounts /\ [Next]_vars
        => KnownAccounts' /\ QueuedAccounts'
<1> SUFFICES ASSUME TypeOK, OneRequest, KnownAccounts, QueuedAccounts, [Next]_vars
             PROVE KnownAccounts' /\ QueuedAccounts'
  OBVIOUS
<1>0. mainQ \in Seq(Blocks) /\ currentUser \in MaybeUser
  BY DEF TypeOK
<1>a. \A u \in MaybeUser : LET b == Block("notify", u)
                          IN  b \in Blocks /\ b.kind \notin Requests /\ ~NewAccount(b)
  BY BlocksAreTyped DEF NewAccount, Block, Requests
<1>1. CASE LoadStoredUser
  <2>1. KnownAccounts'
    BY <1>1 DEF LoadStoredUser, stored, KnownAccounts
  <2>2. ~Pending(Requests)
    BY <1>1 DEF LoadStoredUser, QueuedAccounts, Pending
  <2>3. UNCHANGED mainQ \/ \E u \in MaybeUser : mainQ' = Append(mainQ, Block("notify", u))
    BY <1>1, MaybeUsers DEF LoadStoredUser, TypeOK
  <2>4. ~Pending(Requests)'
    BY <1>0, <2>2, <2>3, AnnouncementQueued DEF Pending
  <2> QED BY <2>1, <2>4, NothingQueued
<1>2. ASSUME NEW r \in Requests, RequestSucceeds(r) PROVE KnownAccounts' /\ QueuedAccounts'
  <2>1. PICK u \in Eligible(r) : /\ accounts' = accounts \cup {u}
                                 /\ keychain' = u
                                 /\ currentUser' = u
                                 /\ mainQ' = mainQ \o Outcome(r, u)
    BY <1>2 DEF RequestSucceeds
  <2>2. u \in Users /\ (r = "signUp" => u \notin accounts) /\ UNCHANGED docs /\ loaded'
    BY <1>2 DEF Eligible, TypeOK, RequestSucceeds, Answered
  <2>3. KnownAccounts'
    BY <2>1, <2>2 DEF KnownAccounts
  <2>4. mainQ' = Append(Append(mainQ, Block("notify", u)), Block(r, u))
    BY <1>0, <2>1, <2>2, OutcomeIsTwoBlocks
  <2>5. Block("notify", u) \in Blocks /\ Block(r, u) \in Blocks /\ u \in MaybeUser
    BY <2>2, BlocksAreTyped, MaybeUsers
  <2>6. \A i \in 1..Len(mainQ) : mainQ[i].kind \notin Requests
    BY <1>2, AnsweredAlone DEF RequestSucceeds, Pending
  <2>7. Block("notify", u).kind \notin Requests /\ Block(r, u).user = u /\ Block(r, u).kind = r
    BY DEF Block, Requests
  <2>8. \A i \in 1..Len(mainQ') : mainQ'[i].kind \in Requests => mainQ'[i] = Block(r, u)
    <3> DEFINE q == Append(mainQ, Block("notify", u))
    <3>1. q \in Seq(Blocks) /\ \A i \in 1..Len(q) : q[i].kind \notin Requests
      BY <1>0, <2>5, <2>6, <2>7
    <3> HIDE DEF q
    <3>2. mainQ' = Append(q, Block(r, u))
      BY <2>4 DEF q
    <3> QED BY <2>5, <3>1, <3>2
  <2>9. NewAccount(Block(r, u)) => u \in accounts' \ docs'
    BY <2>1, <2>2, <2>7 DEF NewAccount, KnownAccounts
  <2>10. QueuedAccounts'
    BY <2>1, <2>2, <2>7, <2>8, <2>9 DEF QueuedAccounts, NewAccount, Requests
  <2> QED BY <2>3, <2>10
<1>3. ASSUME NEW r \in Requests, RequestFails(r) PROVE KnownAccounts' /\ QueuedAccounts'
  <2>1. LET b == Block(r, NoUser) IN b \in Blocks /\ ~NewAccount(b)
    BY BlocksAreTyped, MaybeUsers DEF NewAccount, Block
  <2>2. mainQ' = Append(mainQ, Block(r, NoUser)) /\ loaded /\ UNCHANGED <<docs, loaded>>
        /\ accounts \subseteq accounts' /\ UNCHANGED <<keychain, currentUser>>
    BY <1>3 DEF RequestFails, Answered
  <2> QED BY <1>0, <2>1, <2>2, AccountsFrame
<1>4. CASE RefreshToken
  BY <1>0, <1>a, <1>4, AccountsFrame DEF RefreshToken, stored
<1>5. CASE RevokeSession
  BY <1>0, <1>a, <1>5, MaybeUsers, AccountsFrame DEF RevokeSession
<1>6. CASE RunInitial
  BY <1>0, <1>6, AccountsFrame DEF RunInitial, stored
<1>7. CASE RunNotify
  BY <1>0, <1>7, AccountsFrame DEF RunNotify, stored
<1>8. CASE ListenerChecks
  BY <1>0, <1>8, AccountsFrame DEF ListenerChecks, stored
<1>9. CASE ListenerStarts
  BY <1>0, <1>9, AccountsFrame DEF ListenerStarts, stored
<1>10. CASE SignInCompletes
  BY <1>0, <1>10, AccountsFrame DEF SignInCompletes, stored
<1>11. CASE SignUpCompletes
  <2>1. MainTakes({"signUp"}) /\ UNCHANGED <<keychain, accounts, currentUser, loaded>>
    BY <1>11 DEF SignUpCompletes, CreateUser
  <2>2. CASE docs' = docs
    BY <1>0, <2>1, <2>2, AccountsFrame
  <2>3. CASE docs' # docs
    <3>1. KnownAccounts'
      BY <1>11, <2>1, <2>3, WritesTheNewDocument DEF KnownAccounts
    <3>2. ~Pending(Requests)'
      BY <1>0, <2>1, BlockTaken DEF OneRequest, Requests
    <3> QED BY <3>1, <3>2, NothingQueued
  <2> QED BY <2>2, <2>3
<1>12. CASE OnSignInTap
  BY <1>0, <1>12, AccountsFrame DEF OnSignInTap, stored
<1>13. CASE OnSignUpTap
  BY <1>0, <1>13, AccountsFrame DEF OnSignUpTap, stored
<1>14. CASE SignOutTap
  <2>1. /\ keychain' \in {keychain, NoUser} /\ currentUser' \in {currentUser, NoUser}
        /\ UNCHANGED <<accounts, docs, loaded>>
        /\ UNCHANGED mainQ \/ mainQ' = Append(mainQ, Block("notify", NoUser))
    BY <1>14 DEF SignOutTap, AuthSignsOut, SignOutFails
  <2> QED BY <1>0, <1>a, <2>1, MaybeUsers, AccountsFrame
<1>15. CASE DismissAlert
  BY <1>0, <1>15, AccountsFrame DEF DismissAlert, stored
<1>16. CASE Relaunch
  <2>1. KnownAccounts'
    BY <1>16 DEF Relaunch, stored, KnownAccounts
  <2>2. currentUser' \in MaybeUser
    BY TypeStep DEF TypeOK
  <2>3. ~Pending(Requests)'
    BY <1>16, <2>2, LaunchQueued DEF Relaunch, Pending
  <2> QED BY <2>1, <2>3, NothingQueued
<1>17. CASE UNCHANGED vars
  BY <1>0, <1>17, AccountsFrame DEF vars, stored
<1> QED BY <1>1, <1>2, <1>3, <1>4, <1>5, <1>6, <1>7, <1>8, <1>9, <1>10, <1>11, <1>12, <1>13,
           <1>14, <1>15, <1>16, <1>17 DEF Next, Answers, MainRuns, Taps

\* Only the completion of a sign-up writes a document.
LEMMA DocumentsAreWrittenBySignUp ==
    ASSUME [Next]_vars, docs' # docs
    PROVE SignUpCompletes
<1>1. SignUpCompletes \/ UNCHANGED docs
  BY DEF Next, Answers, MainRuns, Taps, LoadStoredUser, RequestSucceeds, RequestFails, Answered,
         RefreshToken, RevokeSession, RunInitial, RunNotify, ListenerChecks, ListenerStarts,
         SignInCompletes, OnSignInTap, OnSignUpTap, SignOutTap, DismissAlert, Relaunch, stored, vars
<1> QED BY <1>1

\* Although AuthService.signUp asks FIRAuth anew who the user is, the document it
\* writes is that of the account the sign-up created, and none was there before:
\* for any accounts, any order of answers and announcements, and also when the
\* server ends sessions in between.
THEOREM SignUpWritesItsDocument == Spec => DocForTheNewAccount
<1> DEFINE Step == docs' # docs =>
                     /\ Head(mainQ).kind = "signUp"
                     /\ Head(mainQ).user \notin docs
                     /\ docs' = docs \cup {Head(mainQ).user}
<1>1. TypeOK /\ QueuedAccounts /\ [Next]_vars => [Step]_vars
  BY DocumentsAreWrittenBySignUp, WritesTheNewDocument DEF NewAccount
<1>2. Spec => [](TypeOK /\ OneRequest /\ KnownAccounts /\ QueuedAccounts)
  BY TypeInit, TypeStep, OneRequestInit, OneRequestStep, AccountsInit, AccountsStep, PTL DEF Spec
<1>3. Spec => [][Step]_vars
  BY <1>1, <1>2, PTL DEF Spec
<1> QED BY <1>3 DEF DocForTheNewAccount

(***************************************************************************)
(* Signing out.  A sign-out needs a screen nothing covers, so no request   *)
(* is under way and the initial call is over; and it leaves the screen of  *)
(* a signed-in user, on which no request can be sent.                      *)
(***************************************************************************)

\* Nobody is shown as signed in before the stored user was loaded.
ShownWhenLoaded == listener = "start" \/ isSignedIn => loaded

\* After a sign-out nothing is left that could sign somebody in.
AllQuiet ==
    ~observing =>
        /\ currentUser = NoUser /\ userID = NoUser
        /\ loaded /\ isSignedIn /\ listener = "idle"
        /\ Unanswered = 0
        /\ ~Pending(Requests) /\ ~Pending({"initial"})

Quiet == ShownWhenLoaded /\ AllQuiet

\* Nothing is sent while there is nothing to answer.
LEMMA NothingToAnswer ==
    ASSUME TypeOK, Unanswered = 0, NEW r \in Requests
    PROVE ~Answered(r)
<1>1. inFlight["signIn"] \in Nat /\ inFlight["signUp"] \in Nat
  BY UnansweredIsANumber DEF TypeOK
<1>2. inFlight["signIn"] = 0 /\ inFlight["signUp"] = 0
  BY <1>1 DEF Unanswered
<1> QED BY <1>2 DEF Answered, Due, Requests

\* Announcements and the taking of blocks bring no completion and no initial call.
LEMMA QuietQueue ==
    ASSUME mainQ \in Seq(Blocks), ~Pending(Requests), ~Pending({"initial"}),
           \/ UNCHANGED mainQ
           \/ \E u \in MaybeUser : mainQ' = Append(mainQ, Block("notify", u))
           \/ \E kinds : MainTakes(kinds)
    PROVE ~Pending(Requests)' /\ ~Pending({"initial"})'
<1>1. CASE UNCHANGED mainQ
  BY <1>1 DEF Pending
<1>2. ASSUME NEW u \in MaybeUser, mainQ' = Append(mainQ, Block("notify", u))
      PROVE ~Pending(Requests)' /\ ~Pending({"initial"})'
  <2>1. /\ Block("notify", u) \in Blocks
        /\ Block("notify", u).kind \notin Requests \cup {"initial"}
    BY BlocksAreTyped DEF Block, Requests
  <2>2. \A i \in 1..Len(mainQ') :
            mainQ'[i] = Block("notify", u) \/ (i \in 1..Len(mainQ) /\ mainQ'[i] = mainQ[i])
    BY <1>2, <2>1
  <2> QED BY <2>1, <2>2 DEF Pending
<1>3. ASSUME NEW kinds, MainTakes(kinds)
      PROVE ~Pending(Requests)' /\ ~Pending({"initial"})'
  <2>1. \A i \in 1..Len(mainQ') : i + 1 \in 1..Len(mainQ) /\ mainQ'[i] = mainQ[i + 1]
    BY <1>3, TakenBlock
  <2> QED BY <2>1 DEF Pending
<1> QED BY <1>1, <1>2, <1>3

\* The main thread takes only blocks that are there.
LEMMA TakesWhatIsPending ==
    ASSUME mainQ \in Seq(Blocks), NEW kinds, MainTakes(kinds)
    PROVE Pending(kinds)
<1>1. 1 \in 1..Len(mainQ) /\ mainQ[1].kind \in kinds
  BY TakenBlock
<1> QED BY <1>1 DEF Pending

\* A launch observes, and shows nobody.
LEMMA QuietInit == Init => Quiet
BY DEF Init, Quiet, ShownWhenLoaded, AllQuiet

\* Every step keeps the quiet after a sign-out.
LEMMA QuietStep == TypeOK /\ OneRequest /\ Quiet /\ [Next]_vars => Quiet'
<1> SUFFICES ASSUME TypeOK, OneRequest, Quiet, [Next]_vars PROVE Quiet'
  OBVIOUS
<1>0. mainQ \in Seq(Blocks) /\ currentUser \in MaybeUser
  BY DEF TypeOK
<1>f. ASSUME UNCHANGED <<currentUser, loaded, inFlight, observing, isSignedIn>>,
             listener' \in {listener, "idle", "check"}, ~observing => UNCHANGED listener,
             userID' \in {userID, NoUser},
             \/ UNCHANGED mainQ
             \/ \E u \in MaybeUser : mainQ' = Append(mainQ, Block("notify", u))
             \/ \E kinds : MainTakes(kinds)
      PROVE Quiet'
  <2>1. ShownWhenLoaded'
    BY <1>f DEF Quiet, ShownWhenLoaded
  <2>2. Unanswered' = Unanswered
    BY <1>f DEF Unanswered
  <2>3. AllQuiet'
    BY <1>0, <1>f, <2>2, QuietQueue DEF Quiet, AllQuiet
  <2> QED BY <2>1, <2>3 DEF Quiet
<1>1. CASE LoadStoredUser
  BY <1>1 DEF LoadStoredUser, Quiet, ShownWhenLoaded, AllQuiet
<1>2. ASSUME NEW r \in Requests, Answered(r), UNCHANGED observing PROVE Quiet'
  <2>1. observing
    BY <1>2, NothingToAnswer DEF Quiet, AllQuiet
  <2>2. loaded /\ UNCHANGED loaded
    BY <1>2 DEF Answered
  <2> QED BY <1>2, <2>1, <2>2 DEF Quiet, ShownWhenLoaded, AllQuiet
<1>3. CASE Answers
  BY <1>2, <1>3 DEF Answers, RequestSucceeds, RequestFails, Answered
<1>4. CASE RefreshToken
  BY <1>0, <1>4, <1>f DEF RefreshToken
<1>5. CASE RevokeSession
  BY <1>5 DEF RevokeSession, Quiet, ShownWhenLoaded, AllQuiet
<1>6. CASE RunInitial
  <2>1. Pending({"initial"})
    BY <1>0, <1>6, TakesWhatIsPending DEF RunInitial
  <2> QED BY <1>6, <2>1 DEF RunInitial, FilterUser, Quiet, ShownWhenLoaded, AllQuiet
<1>7. CASE RunNotify
  BY <1>7, <1>f DEF RunNotify, FilterUser, filter
<1>8. CASE ListenerChecks
  BY <1>8 DEF ListenerChecks, Quiet, ShownWhenLoaded, AllQuiet
<1>9. CASE ListenerStarts
  BY <1>9 DEF ListenerStarts, StartFor, Quiet, ShownWhenLoaded, AllQuiet
<1>10. CASE SignInCompletes
  BY <1>10, <1>f DEF SignInCompletes
<1>11. CASE SignUpCompletes
  BY <1>11, <1>f DEF SignUpCompletes, CreateUser
<1>12. CASE OnSignInTap
  BY <1>12 DEF OnSignInTap, Quiet, ShownWhenLoaded, AllQuiet
<1>13. CASE OnSignUpTap
  BY <1>13 DEF OnSignUpTap, Quiet, ShownWhenLoaded, AllQuiet
<1>14. CASE SignOutTap
  <2>1. CASE UNCHANGED observing
    <3>1. UNCHANGED <<userID, mainQ, currentUser>>
      BY <1>14, <2>1 DEF SignOutTap, StopListening, SignOutFails, AuthSignsOut, Quiet, AllQuiet
    <3> QED BY <1>14, <2>1, <3>1, <1>f DEF SignOutTap
  <2>2. CASE observing' # observing
    <3>1. /\ userID' = NoUser /\ currentUser' = NoUser /\ Touchable /\ isSignedIn
          /\ UNCHANGED <<loaded, inFlight, listener, isSignedIn>>
          /\ UNCHANGED mainQ \/ mainQ' = Append(mainQ, Block("notify", NoUser))
      BY <1>14, <2>2 DEF SignOutTap, StopListening, SignOutFails, AuthSignsOut
    <3>4. Unanswered \in Nat
      BY UnansweredIsANumber DEF TypeOK
    <3>2. Unanswered = 0 /\ ~Pending(Requests) /\ ~Pending({"initial"})
      BY <3>1, <3>4 DEF Touchable, OneRequest
    <3>3. ~Pending(Requests)' /\ ~Pending({"initial"})'
      BY <1>0, <3>1, <3>2, MaybeUsers, QuietQueue
    <3> QED BY <3>1, <3>2, <3>3 DEF Touchable, Quiet, ShownWhenLoaded, AllQuiet, Unanswered
  <2> QED BY <2>1, <2>2
<1>15. CASE DismissAlert
  BY <1>15, <1>f DEF DismissAlert
<1>16. CASE Relaunch
  BY <1>16 DEF Relaunch, Quiet, ShownWhenLoaded, AllQuiet
<1>17. CASE UNCHANGED vars
  BY <1>17, <1>f DEF vars
<1> QED BY <1>1, <1>3, <1>4, <1>5, <1>6, <1>7, <1>8, <1>9, <1>10, <1>11, <1>12, <1>13, <1>14,
           <1>15, <1>16, <1>17 DEF Next, MainRuns, Taps

\* Sign Out is final: whatever is still queued when RecordViewModel.signOut removes the
\* observer, nobody is signed in again in this launch and Firestore has no user; for any
\* accounts and also when the server ends sessions.
THEOREM SignedOutForGood == Spec => []SignedOutStays
<1>1. Quiet => SignedOutStays
  BY DEF Quiet, AllQuiet, SignedOutStays
<1> QED BY <1>1, TypeInit, TypeStep, OneRequestInit, OneRequestStep, QuietInit, QuietStep, PTL
        DEF Spec

(***************************************************************************)
(* Agreement.  A session that is not revoked begins once and ends only     *)
(* with Sign Out.  FIRAuth's filter, AuthService's listener and the screen *)
(* follow it, each behind the other.                                       *)
(***************************************************************************)

\* The announcement of a new session is ahead of the completion that began it.
AnnouncedFirst ==
    \E i, j \in 1..Len(mainQ) :
        i < j /\ mainQ[i].kind = "notify" /\ mainQ[j].kind \in Requests

\* The screen and FirestoreService show the same, and nobody but the current user.
Shown ==
    /\ userID = IF isSignedIn THEN currentUser ELSE NoUser
    /\ isSignedIn => currentUser # NoUser
    /\ prevUser \in {NoUser, currentUser}

\* A user who is not shown yet will be: before the filter was called first, while the listener
\* runs, or when the announcement comes, which the filter lets through.
Heard ==
    /\ first => Pending({"initial"})
    /\ ~first /\ currentUser # NoUser /\ ~isSignedIn /\ listener = "idle" =>
          prevUser # currentUser /\ AnnouncedFirst

\* A completion that reports success is for the current user.
Reported ==
    \A i \in 1..Len(mainQ) :
        mainQ[i].kind \in Requests /\ mainQ[i].user # NoUser => mainQ[i].user = currentUser

\* A request is sent, answered and completed in a session that was announced.
Begun == Pending(Requests) \/ Unanswered = 1 => ~first /\ loaded

Lasting ==
    /\ OnlySignOutCrashes
    /\ currentUser # NoUser => loaded
    /\ listener = "start" => currentUser # NoUser
    /\ ~loaded => first \/ listener = "check"
    /\ Unanswered = 1 => currentUser = NoUser
    /\ Begun /\ Reported
    /\ observing => Shown /\ Heard

\* A block is put behind the queue.
LEMMA Appending ==
    ASSUME mainQ \in Seq(Blocks), NEW b \in Blocks, mainQ' = Append(mainQ, b)
    PROVE /\ \A kinds : Pending(kinds) => Pending(kinds)'
          /\ Pending(Requests)' => Pending(Requests) \/ b.kind \in Requests
          /\ AnnouncedFirst => AnnouncedFirst'
          /\ Reported /\ (b.kind \in Requests /\ b.user # NoUser => b.user = currentUser)
                /\ currentUser' = currentUser => Reported'
<1>1. /\ Len(mainQ) \in Nat /\ Len(mainQ') = Len(mainQ) + 1
      /\ \A i \in 1..Len(mainQ) : i \in 1..Len(mainQ') /\ mainQ'[i] = mainQ[i]
      /\ \A i \in 1..Len(mainQ') : mainQ'[i] = b \/ (i \in 1..Len(mainQ) /\ mainQ'[i] = mainQ[i])
  OBVIOUS
<1>2. \A kinds : Pending(kinds) => Pending(kinds)'
  BY <1>1 DEF Pending
<1>3. Pending(Requests)' => Pending(Requests) \/ b.kind \in Requests
  BY <1>1 DEF Pending
<1>4. AnnouncedFirst => AnnouncedFirst'
  BY <1>1 DEF AnnouncedFirst
<1>5. Reported /\ (b.kind \in Requests /\ b.user # NoUser => b.user = currentUser)
            /\ currentUser' = currentUser => Reported'
  BY <1>1 DEF Reported
<1> QED BY <1>2, <1>3, <1>4, <1>5

\* The first block of the queue runs.
LEMMA Taking ==
    ASSUME mainQ \in Seq(Blocks), NEW kinds, MainTakes(kinds), currentUser' = currentUser
    PROVE /\ Pending(Requests)' => Pending(Requests)
          /\ Reported => Reported'
<1>1. \A i \in 1..Len(mainQ') : i + 1 \in 1..Len(mainQ) /\ mainQ'[i] = mainQ[i + 1]
  BY TakenBlock
<1>2. Pending(Requests)' => Pending(Requests)
  BY <1>1 DEF Pending
<1>3. Reported => Reported'
  BY <1>1 DEF Reported
<1> QED BY <1>2, <1>3

\* A completion that runs finds nothing ahead of it.
LEMMA NothingAhead ==
    ASSUME mainQ \in Seq(Blocks), LoneCompletion, MainTakes(Requests)
    PROVE ~AnnouncedFirst
<1>1. 1 \in 1..Len(mainQ) /\ mainQ[1].kind \in Requests
  BY TakenBlock
<1>2. \A j \in 1..Len(mainQ) : mainQ[j].kind \in Requests => j = 1
  BY <1>1 DEF LoneCompletion
<1>3. \A i \in 1..Len(mainQ) : ~(i < 1)
  OBVIOUS
<1> QED BY <1>2, <1>3 DEF AnnouncedFirst

\* Who can touch the sign-in form is not signed in, and the keychain was read.
LEMMA NobodyYet ==
    ASSUME TypeOK, OneRequest, Quiet, Lasting, Touchable, ~isSignedIn
    PROVE currentUser = NoUser /\ loaded /\ ~first /\ observing
<1>1. observing /\ listener = "idle" /\ ~Pending({"initial"}) /\ ~isLoading
  BY DEF Quiet, AllQuiet, Touchable
<1>2. ~first /\ loaded
  BY <1>1 DEF Lasting, Heard
<1>3. ~Pending(Requests)
  BY <1>1 DEF OneRequest
<1>4. ~AnnouncedFirst
  BY <1>3 DEF Pending, AnnouncedFirst
<1> QED BY <1>1, <1>2, <1>4 DEF Lasting, Heard

\* A launch has nothing under way, and its initial call is still to come.
LEMMA LastingInit == Init => Lasting
<1> SUFFICES ASSUME Init PROVE Lasting
  OBVIOUS
<1>1. Unanswered = 0
  BY DEF Init, Unanswered, Requests
<1>2. mainQ \in LaunchQueues(currentUser) /\ currentUser \in MaybeUser
  BY TypeInit DEF Init, TypeOK
<1>3. ~Pending(Requests) /\ Reported
  BY <1>2, LaunchQueued DEF Pending, Reported
<1>4. Pending({"initial"})
  BY <1>2 DEF LaunchQueues, Pending, Block
<1> QED BY <1>1, <1>3, <1>4 DEF Init, Lasting, OnlySignOutCrashes, Begun, Shown, Heard

\* Steps that change neither the session nor what follows it: at most one more announcement.
LEMMA LastingFrame ==
    ASSUME TypeOK, Lasting,
           UNCHANGED <<currentUser, loaded, observing, first, prevUser, listener, userID, isSignedIn>>,
           Unanswered' = Unanswered, crash' \in {crash, "none", "sign out failed"},
           UNCHANGED mainQ \/ \E u \in MaybeUser : mainQ' = Append(mainQ, Block("notify", u))
    PROVE Lasting'
<1> DEFINE Kept == /\ Pending({"initial"}) => Pending({"initial"})'
                   /\ Pending(Requests)' => Pending(Requests)
                   /\ AnnouncedFirst => AnnouncedFirst'
                   /\ Reported => Reported'
<1>1. Kept
  <2>1. CASE UNCHANGED mainQ
    BY <2>1 DEF Pending, AnnouncedFirst, Reported
  <2>2. ASSUME NEW u \in MaybeUser, mainQ' = Append(mainQ, Block("notify", u))
        PROVE Kept
    <3>1. Block("notify", u) \in Blocks /\ Block("notify", u).kind \notin Requests
      BY BlocksAreTyped DEF Block, Requests
    <3>2. mainQ \in Seq(Blocks)
      BY DEF TypeOK
    <3> QED BY <2>2, <3>1, <3>2, Appending
  <2> QED BY <2>1, <2>2
<1>2. (observing => Shown /\ Heard) => (observing => Shown /\ Heard)'
  BY <1>1 DEF Shown, Heard
<1>3. Begun => Begun'
  BY <1>1 DEF Begun
<1> QED BY <1>1, <1>2, <1>3 DEF Lasting, OnlySignOutCrashes

\* Before an answer nobody is signed in and nobody is shown.
LEMMA BeforeTheAnswer ==
    ASSUME TypeOK, OneRequest, Quiet, Lasting, NEW r \in Requests, Answered(r)
    PROVE /\ currentUser = NoUser /\ loaded /\ ~first /\ observing
          /\ ~isSignedIn /\ userID = NoUser /\ prevUser = NoUser /\ listener # "start"
          /\ ~Pending(Requests) /\ Unanswered' = 0
<1>1. Unanswered \in Nat
  BY UnansweredIsANumber DEF TypeOK
<1>2. Unanswered # 0
  BY NothingToAnswer
<1>3. Unanswered = 1
  BY <1>1, <1>2 DEF OneRequest
<1>4. observing
  BY <1>2 DEF Quiet, AllQuiet
<1> QED BY <1>3, <1>4, AnsweredAlone DEF Lasting, Begun, Shown

\* The block of the current user's filter: whoever is not shown yet keeps the listener running.
LEMMA LastingFilter ==
    ASSUME TypeOK, Lasting, observing, NEW kinds, MainTakes(kinds), FilterUser(currentUser),
           UNCHANGED <<currentUser, loaded, inFlight, observing, userID, isSignedIn, crash>>
    PROVE Lasting'
<1>1. mainQ \in Seq(Blocks)
  BY DEF TypeOK
<1>2. (Pending(Requests)' => Pending(Requests)) /\ Reported'
  BY <1>1, Taking DEF Lasting
<1>3. ~first' /\ prevUser' = currentUser /\ listener = "idle"
  BY DEF FilterUser, MainTakes
<1>4. listener' = "check" \/ (listener' = "idle" /\ ~first /\ prevUser = currentUser)
  BY DEF FilterUser
<1>5. Shown' /\ Heard'
  BY <1>3, <1>4 DEF Lasting, Shown, Heard
<1>6. Begun'
  BY <1>2, <1>3 DEF Lasting, Begun, Unanswered
<1> QED BY <1>2, <1>3, <1>4, <1>5, <1>6 DEF Lasting, OnlySignOutCrashes, Unanswered

\* The stored user, when there is one, is announced to a listener that is still waiting.
LEMMA LastingLoads ==
    TypeOK /\ OneRequest /\ Quiet /\ Lasting /\ LoadStoredUser => Lasting'
<1> SUFFICES ASSUME TypeOK, OneRequest, Quiet, Lasting, LoadStoredUser PROVE Lasting'
  OBVIOUS
<1>1. /\ mainQ \in Seq(Blocks) /\ currentUser' \in MaybeUser
      /\ UNCHANGED <<inFlight, observing, first, prevUser, listener, userID, isSignedIn, crash>>
      /\ ~loaded /\ loaded'
  BY TypeStep DEF LoadStoredUser, Next, TypeOK, filter
<1>2. /\ observing /\ currentUser = NoUser
      /\ first \/ listener = "check"
      /\ listener # "start" /\ ~Pending(Requests) /\ Unanswered # 1
  BY <1>1 DEF Lasting, Quiet, AllQuiet, Begun
<1>3. ~isSignedIn /\ userID = NoUser /\ prevUser = NoUser
  BY <1>2 DEF Lasting, Shown
<1>4. Unanswered' = Unanswered
  BY <1>1 DEF Unanswered
<1>5. ~Pending(Requests)' /\ (Pending({"initial"}) => Pending({"initial"})')
  <2>1. CASE UNCHANGED mainQ
    BY <1>2, <2>1 DEF Pending
  <2>2. CASE mainQ' = Append(mainQ, Block("notify", currentUser'))
    <3>1. Block("notify", currentUser') \in Blocks
          /\ Block("notify", currentUser').kind \notin Requests
      BY <1>1, BlocksAreTyped DEF Block, Requests
    <3> QED BY <1>1, <1>2, <2>2, <3>1, Appending
  <2> QED BY <2>1, <2>2 DEF LoadStoredUser
<1>6. Reported'
  BY <1>5 DEF Pending, Reported
<1>7. Shown' /\ Heard'
  BY <1>1, <1>2, <1>3, <1>5 DEF Lasting, Shown, Heard
<1> QED BY <1>1, <1>2, <1>4, <1>5, <1>6, <1>7 DEF Lasting, OnlySignOutCrashes, Begun

\* A success queues the announcement of its user and then its completion.
LEMMA SuccessQueued ==
    ASSUME mainQ \in Seq(Blocks), NEW r \in Requests, NEW u \in Users,
           mainQ' = mainQ \o Outcome(r, u)
    PROVE /\ Len(mainQ) \in Nat /\ Len(mainQ') = Len(mainQ) + 2
          /\ \A i \in 1..Len(mainQ) : mainQ'[i] = mainQ[i]
          /\ mainQ'[Len(mainQ) + 1] = Block("notify", u)
          /\ mainQ'[Len(mainQ) + 2] = Block(r, u)
          /\ AnnouncedFirst'
          /\ \A kinds : Pending(kinds) => Pending(kinds)'
<1>1. mainQ' = Append(Append(mainQ, Block("notify", u)), Block(r, u))
  BY OutcomeIsTwoBlocks
<1>2. Block("notify", u) \in Blocks /\ Block(r, u) \in Blocks
  BY BlocksAreTyped, MaybeUsers
<1>3. /\ Len(mainQ) \in Nat /\ Len(mainQ') = Len(mainQ) + 2
      /\ \A i \in 1..Len(mainQ) : mainQ'[i] = mainQ[i]
      /\ mainQ'[Len(mainQ) + 1] = Block("notify", u)
      /\ mainQ'[Len(mainQ) + 2] = Block(r, u)
  BY <1>1, <1>2
<1>4. AnnouncedFirst'
  <2>1. Block("notify", u).kind = "notify" /\ Block(r, u).kind \in Requests
    BY DEF Block
  <2>2. Len(mainQ) + 1 \in 1..Len(mainQ') /\ Len(mainQ) + 2 \in 1..Len(mainQ')
        /\ Len(mainQ) + 1 < Len(mainQ) + 2
    BY <1>3
  <2> QED BY <1>3, <2>1, <2>2 DEF AnnouncedFirst
<1>5. \A kinds : Pending(kinds) => Pending(kinds)'
  <2>1. \A i \in 1..Len(mainQ) : i \in 1..Len(mainQ')
    BY <1>3
  <2> QED BY <1>3, <2>1 DEF Pending
<1> QED BY <1>3, <1>4, <1>5

\* A success announces the new user ahead of its completion.
LEMMA LastingSucceeds ==
    ASSUME TypeOK, OneRequest, Quiet, Lasting, NEW r \in Requests, RequestSucceeds(r)
    PROVE Lasting'
<1>1. /\ currentUser = NoUser /\ loaded /\ ~first /\ observing
      /\ ~isSignedIn /\ userID = NoUser /\ prevUser = NoUser /\ listener # "start"
      /\ ~Pending(Requests) /\ Unanswered' = 0
  BY BeforeTheAnswer DEF RequestSucceeds
<1>2. UNCHANGED <<loaded, observing, first, prevUser, listener, userID, isSignedIn, crash>>
  BY DEF RequestSucceeds, Answered, filter
<1>3. PICK u \in Eligible(r) : currentUser' = u /\ mainQ' = mainQ \o Outcome(r, u)
  BY DEF RequestSucceeds
<1>4. u \in Users /\ u # NoUser /\ mainQ \in Seq(Blocks)
  BY NoUserAssumption DEF Eligible, TypeOK
<1>5. /\ Len(mainQ) \in Nat /\ Len(mainQ') = Len(mainQ) + 2
      /\ \A i \in 1..Len(mainQ) : mainQ'[i] = mainQ[i]
      /\ mainQ'[Len(mainQ) + 1] = Block("notify", u)
      /\ mainQ'[Len(mainQ) + 2] = Block(r, u)
      /\ AnnouncedFirst'
  BY <1>3, <1>4, SuccessQueued
<1>6. Reported'
  <2>1. /\ Block("notify", u).kind \notin Requests /\ Block(r, u).user = u
    BY DEF Block, Requests
  <2>2. \A i \in 1..Len(mainQ) : mainQ[i].kind \notin Requests
    BY <1>1 DEF Pending
  <2>3. \A i \in 1..Len(mainQ') :
            i \in 1..Len(mainQ) \/ i = Len(mainQ) + 1 \/ i = Len(mainQ) + 2
    BY <1>5
  <2> QED BY <1>3, <1>5, <2>1, <2>2, <2>3 DEF Reported
<1>7. Shown' /\ Heard'
  BY <1>1, <1>2, <1>3, <1>4, <1>5 DEF Shown, Heard
<1>8. loaded' /\ ~first' /\ listener' # "start" /\ Unanswered' # 1
  BY <1>1, <1>2
<1>9. OnlySignOutCrashes'
  BY <1>2 DEF Lasting, OnlySignOutCrashes
<1> QED BY <1>6, <1>7, <1>8, <1>9 DEF Lasting, Begun

\* A failure changes nobody's session.
LEMMA LastingFails ==
    ASSUME TypeOK, OneRequest, Quiet, Lasting, NEW r \in Requests, RequestFails(r)
    PROVE Lasting'
<1>1. /\ currentUser = NoUser /\ loaded /\ ~first /\ observing
      /\ ~isSignedIn /\ userID = NoUser /\ prevUser = NoUser /\ listener # "start"
      /\ Unanswered' = 0
  BY BeforeTheAnswer DEF RequestFails
<1>2. UNCHANGED <<currentUser, loaded, observing, first, prevUser, listener, userID, isSignedIn, crash>>
  BY DEF RequestFails, Answered, filter
<1>3. mainQ' = Append(mainQ, Block(r, NoUser)) /\ mainQ \in Seq(Blocks)
      /\ Block(r, NoUser) \in Blocks /\ Block(r, NoUser).user = NoUser
  BY BlocksAreTyped, MaybeUsers DEF RequestFails, TypeOK, Block
<1>4. Reported'
  BY <1>2, <1>3, Appending DEF Lasting
<1>5. Shown' /\ Heard'
  BY <1>1, <1>2 DEF Shown, Heard
<1> QED BY <1>1, <1>2, <1>4, <1>5 DEF Lasting, OnlySignOutCrashes, Begun

\* A completion runs behind the announcement of its session.
LEMMA LastingCompletes ==
    ASSUME TypeOK, OneRequest, Quiet, Lasting, SignInCompletes \/ SignUpCompletes
    PROVE Lasting'
<1>1. /\ mainQ \in Seq(Blocks) /\ listener = "idle"
      /\ UNCHANGED <<currentUser, loaded, inFlight, observing, first, prevUser, listener,
                     userID, isSignedIn>>
      /\ MainTakes({"signIn"}) \/ MainTakes({"signUp"})
      /\ MainTakes(Requests)
  BY DEF SignInCompletes, SignUpCompletes, TypeOK, filter, MainTakes, Requests, CreateUser
<1>2. Pending(Requests) /\ Head(mainQ) = mainQ[1] /\ 1 \in 1..Len(mainQ)
      /\ mainQ[1].kind \in Requests
  BY <1>1, TakesWhatIsPending, TakenBlock
<1>3. ~first /\ loaded /\ observing /\ ~AnnouncedFirst
  BY <1>1, <1>2, NothingAhead DEF Lasting, Begun, Quiet, AllQuiet, OneRequest
<1>4. (Pending(Requests)' => Pending(Requests)) /\ Reported'
  BY <1>1, Taking DEF Lasting
<1>5. Head(mainQ).user # NoUser => currentUser # NoUser
  BY <1>2 DEF Lasting, Reported
<1>6. UNCHANGED crash
  BY <1>5 DEF SignInCompletes, SignUpCompletes, FinishRequest
<1>7. Shown' /\ Heard'
  BY <1>1, <1>3 DEF Lasting, Shown, Heard
<1> QED BY <1>1, <1>3, <1>4, <1>6, <1>7 DEF Lasting, OnlySignOutCrashes, Begun, Unanswered

\* A request is sent by somebody who is not signed in, after the first call of the filter.
LEMMA LastingSends ==
    ASSUME TypeOK, OneRequest, Quiet, Lasting, OnSignInTap \/ OnSignUpTap
    PROVE Lasting'
<1>1. Touchable /\ ~isSignedIn
  BY DEF OnSignInTap, OnSignUpTap
<1>2. currentUser = NoUser /\ loaded /\ ~first /\ observing
  BY <1>1, NobodyYet
<1>3. UNCHANGED <<currentUser, loaded, mainQ, observing, first, prevUser, listener, userID,
                  isSignedIn, crash>>
  BY DEF OnSignInTap, OnSignUpTap, filter
<1>4. Shown' /\ Heard'
  BY <1>2, <1>3 DEF Lasting, Shown, Heard
<1>5. Begun' /\ Reported'
  BY <1>2, <1>3 DEF Lasting, Begun, Reported
<1> QED BY <1>2, <1>3, <1>4, <1>5 DEF Lasting, OnlySignOutCrashes

\* Sign Out leaves a queue without completions, or a process that died.
LEMMA LastingEnds ==
    ASSUME TypeOK, OneRequest, Quiet, Lasting, SignOutTap
    PROVE Lasting'
<1>1. CASE SignOutFails
  BY <1>1, LastingFrame DEF SignOutTap, SignOutFails, filter, Unanswered
<1>2. CASE userID' = NoUser /\ StopListening /\ AuthSignsOut /\ UNCHANGED crash
  <2>1. /\ ~observing' /\ currentUser' = NoUser /\ Touchable /\ isSignedIn
        /\ UNCHANGED <<loaded, inFlight, first, listener, isSignedIn, crash>>
        /\ UNCHANGED mainQ \/ mainQ' = Append(mainQ, Block("notify", NoUser))
    BY <1>2 DEF SignOutTap, StopListening, AuthSignsOut, filter
  <2>a. Unanswered \in Nat
    BY UnansweredIsANumber DEF TypeOK
  <2>2. Unanswered = 0 /\ ~Pending(Requests) /\ ~Pending({"initial"})
    BY <2>1, <2>a DEF Touchable, OneRequest
  <2>3. ~Pending(Requests)'
    BY <2>1, <2>2, MaybeUsers, QuietQueue DEF TypeOK
  <2>4. loaded /\ listener = "idle"
    BY <2>1 DEF Quiet, ShownWhenLoaded, Touchable
  <2>5. Reported' /\ Begun'
    BY <2>1, <2>2, <2>3 DEF Reported, Begun, Pending, Unanswered
  <2> QED BY <2>1, <2>4, <2>5 DEF Lasting, OnlySignOutCrashes
<1> QED BY <1>1, <1>2 DEF SignOutTap

\* A launch loses what was under way, and its initial call is still to come.
LEMMA LastingRelaunch == TypeOK /\ Relaunch => Lasting'
<1> SUFFICES ASSUME TypeOK, Relaunch PROVE Lasting'
  OBVIOUS
<1>1. Unanswered' = 0
  BY DEF Relaunch, Unanswered, Requests
<1>2. mainQ' \in LaunchQueues(currentUser') /\ currentUser' \in MaybeUser
  BY TypeStep DEF Relaunch, Next, TypeOK
<1>3. ~Pending(Requests)' /\ Reported'
  BY <1>2, LaunchQueued DEF Pending, Reported
<1>4. Pending({"initial"})'
  BY <1>2 DEF LaunchQueues, Pending, Block
<1>5. Shown' /\ Heard'
  BY <1>4 DEF Relaunch, Shown, Heard
<1> QED BY <1>1, <1>3, <1>5 DEF Relaunch, Lasting, OnlySignOutCrashes, Begun

\* Every step of a session that is not revoked keeps them.
LEMMA LastingStep ==
    ASSUME ~Revocable
    PROVE TypeOK /\ OneRequest /\ Quiet /\ Lasting /\ [Next]_vars => Lasting'
<1> SUFFICES ASSUME TypeOK, OneRequest, Quiet, Lasting, [Next]_vars PROVE Lasting'
  OBVIOUS
<1>1. CASE LoadStoredUser
  BY <1>1, LastingLoads
<1>2. CASE Answers
  BY <1>2, LastingSucceeds, LastingFails DEF Answers
<1>3. CASE RefreshToken
  BY <1>3, LastingFrame DEF RefreshToken, filter, Unanswered, TypeOK
<1>4. CASE RevokeSession
  BY <1>4 DEF RevokeSession
<1>5. CASE RunInitial
  <2>1. observing
    BY <1>5, TakesWhatIsPending DEF RunInitial, TypeOK, Quiet, AllQuiet
  <2> QED BY <1>5, <2>1, LastingFilter DEF RunInitial
<1>6. CASE RunNotify
  <2>1. CASE observing
    BY <1>6, <2>1, LastingFilter DEF RunNotify
  <2>2. CASE ~observing
    <3>1. /\ UNCHANGED <<currentUser, loaded, inFlight, observing, listener, crash>>
          /\ MainTakes({"notify"}) /\ mainQ \in Seq(Blocks)
      BY <1>6, <2>2 DEF RunNotify, TypeOK
    <3>2. currentUser = NoUser /\ loaded /\ listener = "idle" /\ Unanswered = 0
          /\ ~Pending(Requests)
      BY <2>2 DEF Quiet, AllQuiet
    <3>3. ~Pending(Requests)' /\ Reported'
      BY <3>1, <3>2, Taking DEF Lasting
    <3>4. Unanswered' = 0
      BY <3>1, <3>2 DEF Unanswered
    <3>5. OnlySignOutCrashes'
      BY <3>1 DEF Lasting, OnlySignOutCrashes
    <3> QED BY <2>2, <3>1, <3>2, <3>3, <3>4, <3>5 DEF Lasting, Begun
  <2> QED BY <2>1, <2>2
<1>7. CASE ListenerChecks
  <2>1. /\ UNCHANGED <<currentUser, loaded, inFlight, mainQ, observing, first, prevUser, crash>>
        /\ loaded
    BY <1>7 DEF ListenerChecks, filter
  <2>2. Begun' /\ Reported'
    BY <2>1 DEF Lasting, Begun, Reported, Pending, Unanswered
  <2>3. observing => Shown' /\ Heard'
    BY <1>7, <2>1 DEF ListenerChecks, Lasting, Shown, Heard, Pending
  <2>4. listener' = "start" => currentUser # NoUser
    BY <1>7 DEF ListenerChecks
  <2> QED BY <2>1, <2>2, <2>3, <2>4 DEF Lasting, OnlySignOutCrashes, Unanswered
<1>8. CASE ListenerStarts
  <2>1. /\ UNCHANGED <<currentUser, loaded, inFlight, mainQ, observing, first, prevUser, crash>>
        /\ currentUser # NoUser /\ loaded /\ listener' = "idle"
        /\ userID' = currentUser /\ isSignedIn' = TRUE
    BY <1>8 DEF ListenerStarts, StartFor, Lasting, filter
  <2>2. Begun' /\ Reported'
    BY <2>1 DEF Lasting, Begun, Reported, Pending, Unanswered
  <2>3. observing => Shown' /\ Heard'
    BY <2>1 DEF Lasting, Shown, Heard, Pending
  <2> QED BY <2>1, <2>2, <2>3 DEF Lasting, OnlySignOutCrashes, Unanswered
<1>9. CASE SignInCompletes \/ SignUpCompletes
  BY <1>9, LastingCompletes
<1>10. CASE OnSignInTap \/ OnSignUpTap
  BY <1>10, LastingSends
<1>11. CASE SignOutTap
  BY <1>11, LastingEnds
<1>12. CASE DismissAlert
  BY <1>12, LastingFrame DEF DismissAlert, filter, Unanswered
<1>13. CASE Relaunch
  BY <1>13, LastingRelaunch
<1>14. CASE UNCHANGED vars
  BY <1>14, LastingFrame DEF vars, filter, Unanswered
<1> QED BY <1>1, <1>2, <1>3, <1>4, <1>5, <1>6, <1>7, <1>8, <1>9, <1>10, <1>11, <1>12, <1>13,
           <1>14 DEF Next, MainRuns, Taps

\* All that is known of a session that is not revoked.
LEMMA LastingAlways ==
    ASSUME ~Revocable
    PROVE Spec => [](TypeOK /\ OneRequest /\ Quiet /\ Lasting)
BY TypeInit, TypeStep, OneRequestInit, OneRequestStep, QuietInit, QuietStep, LastingInit,
   LastingStep, PTL DEF Spec

\* A listener that has nothing left to hear has shown the current user.
LEMMA LastingAgrees == TypeOK /\ Lasting => Agreement
<1> SUFFICES ASSUME TypeOK, Lasting, Settled
             PROVE userID = currentUser /\ isSignedIn = (currentUser # NoUser)
  BY DEF Agreement
<1>1. ~AnnouncedFirst
  BY DEF Settled, Pending, AnnouncedFirst
<1>2. Shown /\ (currentUser = NoUser \/ isSignedIn)
  BY <1>1 DEF Settled, Lasting, Heard
<1>3. isSignedIn \in BOOLEAN
  BY DEF TypeOK
<1>4. CASE isSignedIn
  BY <1>2, <1>3, <1>4 DEF Shown
<1>5. CASE ~isSignedIn
  BY <1>2, <1>3, <1>5 DEF Shown
<1> QED BY <1>4, <1>5

\* A completion at the head of the queue has its announcement behind it, and it was heard.
LEMMA LastingShowsFirst ==
    TypeOK /\ OneRequest /\ Quiet /\ Lasting => NoSignInFormAfterSuccess
<1> SUFFICES ASSUME TypeOK, OneRequest, Quiet, Lasting, Running, listener = "idle", mainQ # <<>>,
                    Head(mainQ).kind \in Requests, Head(mainQ).user # NoUser
             PROVE isSignedIn /\ userID = Head(mainQ).user
  BY DEF NoSignInFormAfterSuccess
<1>0. mainQ \in Seq(Blocks)
  BY DEF TypeOK
<1>1. Head(mainQ) = mainQ[1] /\ 1 \in 1..Len(mainQ)
  BY <1>0
<1>2. Pending(Requests) /\ currentUser = Head(mainQ).user
  BY <1>1 DEF Pending, Lasting, Reported
<1>3. ~AnnouncedFirst
  BY <1>1 DEF OneRequest, LoneCompletion, AnnouncedFirst
<1>4. observing /\ ~first
  BY <1>2 DEF Lasting, Begun, Quiet, AllQuiet
<1> QED BY <1>2, <1>3, <1>4 DEF Lasting, Shown, Heard

\* Once FIRAuth's announcements are delivered, FirestoreService works for the user FIRAuth
\* has, and LandingViewModel's screen is a signed-in user's exactly when there is one: for
\* any accounts, whatever the order of the keychain load, the initial call, the answers and
\* the notifications, if the server ends no session.
THEOREM ScreenAgrees == ASSUME ~Revocable PROVE Spec => []Agreement
BY LastingAlways, LastingAgrees, PTL

\* The overlay that SignInViewModel and SignUpViewModel take away when a request succeeds
\* never uncovers the form of somebody who is signed in: the listener has switched the
\* screen by then; for any accounts, if the server ends no session.
THEOREM NoFormAfterSuccess == ASSUME ~Revocable PROVE Spec => []NoSignInFormAfterSuccess
BY LastingAlways, LastingShowsFirst, PTL

\* The listener and AuthService.signUp read the current user twice and unwrap the second
\* answer; a session that the server leaves alone dies of neither, for any accounts.
THEOREM OnlySignOutDies == ASSUME ~Revocable PROVE Spec => []OnlySignOutCrashes
<1>1. Lasting => OnlySignOutCrashes
  BY DEF Lasting
<1> QED BY <1>1, LastingAlways, PTL

(***************************************************************************)
(* Sessions that may be revoked.  The screen can then lag behind FIRAuth,  *)
(* but it never shows, and Firestore never works for, another user than    *)
(* the current one.                                                        *)
(***************************************************************************)

\* Who is shown: nobody but the current user, as long as there is one.
ShowsNobodyElse ==
    /\ userID # NoUser => isSignedIn /\ currentUser \in {NoUser, userID}
    /\ isSignedIn /\ observing => userID # NoUser

\* A request is sent from the sign-in form, and until it is answered no session begins.
BeginsByAnswer ==
    Unanswered = 1 =>
        /\ ~isSignedIn /\ ~first /\ loaded
        /\ currentUser \in {NoUser, prevUser}
        /\ listener # "idle" => currentUser = NoUser

\* A user the filter was not called with is announced, or about to be shown.
Filtered ==
    currentUser \in {NoUser, prevUser} \/ first \/ AnnouncedFirst \/ listener # "idle" \/ isSignedIn

\* The filter is called first by the initial call at the latest, and its listener waits for
\* the load of the keychain.
Waits ==
    /\ ~loaded => first \/ listener = "check"
    /\ observing /\ first => Pending({"initial"})

Known == ShowsNobodyElse /\ BeginsByAnswer /\ Filtered /\ Waits

\* A launch shows nobody.
LEMMA KnownInit == Init => Known
<1> SUFFICES ASSUME Init PROVE Known
  OBVIOUS
<1>1. Unanswered = 0
  BY DEF Init, Unanswered, Requests
<1>2. Pending({"initial"})
  BY DEF Init, LaunchQueues, Pending, Block
<1> QED BY <1>1, <1>2 DEF Init, Known, ShowsNobodyElse, BeginsByAnswer, Filtered, Waits

\* Steps that change neither the user nor what follows.
LEMMA KnownFrame ==
    ASSUME Known,
           UNCHANGED <<currentUser, loaded, observing, first, prevUser, listener, userID, isSignedIn>>,
           Unanswered' \in {Unanswered, 0},
           Pending({"initial"}) => Pending({"initial"})',
           AnnouncedFirst => AnnouncedFirst'
    PROVE Known'
<1>1. ShowsNobodyElse' /\ BeginsByAnswer'
  BY DEF Known, ShowsNobodyElse, BeginsByAnswer
<1>2. Filtered' /\ Waits'
  BY DEF Known, Filtered, Waits
<1> QED BY <1>1, <1>2 DEF Known

\* What stays in the queue when its first block runs.
LEMMA TakenKeeps ==
    ASSUME mainQ \in Seq(Blocks), NEW kinds, MainTakes(kinds)
    PROVE /\ "initial" \notin kinds /\ Pending({"initial"}) => Pending({"initial"})'
          /\ "notify" \notin kinds /\ AnnouncedFirst => AnnouncedFirst'
<1>1. /\ Len(mainQ) \in Nat /\ Len(mainQ') = Len(mainQ) - 1 /\ mainQ[1].kind \in kinds
      /\ \A i \in 1..Len(mainQ') : mainQ'[i] = mainQ[i + 1]
  BY TakenBlock
<1>2. \A i \in 2..Len(mainQ) : i - 1 \in 1..Len(mainQ') /\ mainQ'[i - 1] = mainQ[i]
  BY <1>1
<1>3. ASSUME "initial" \notin kinds, Pending({"initial"}) PROVE Pending({"initial"})'
  <2>1. PICK i \in 1..Len(mainQ) : mainQ[i].kind = "initial"
    BY <1>3 DEF Pending
  <2>2. i \in 2..Len(mainQ)
    BY <1>1, <1>3, <2>1
  <2> QED BY <1>2, <2>1, <2>2 DEF Pending
<1>4. ASSUME "notify" \notin kinds, AnnouncedFirst PROVE AnnouncedFirst'
  <2>1. PICK i, j \in 1..Len(mainQ) :
            i < j /\ mainQ[i].kind = "notify" /\ mainQ[j].kind \in Requests
    BY <1>4 DEF AnnouncedFirst
  <2>2. i \in 2..Len(mainQ) /\ j \in 2..Len(mainQ) /\ i - 1 < j - 1
    BY <1>1, <1>4, <2>1
  <2> QED BY <1>2, <2>1, <2>2 DEF AnnouncedFirst
<1> QED BY <1>3, <1>4

\* One more block changes nothing for those before it.
LEMMA KnownAppends ==
    ASSUME TypeOK, Known,
           UNCHANGED <<currentUser, loaded, observing, first, prevUser, listener, userID, isSignedIn>>,
           Unanswered' \in {Unanswered, 0},
           UNCHANGED mainQ \/ \E b \in Blocks : mainQ' = Append(mainQ, b)
    PROVE Known'
<1>1. mainQ \in Seq(Blocks)
  BY DEF TypeOK
<1>2. /\ Pending({"initial"}) => Pending({"initial"})'
      /\ AnnouncedFirst => AnnouncedFirst'
  <2>1. CASE UNCHANGED mainQ
    BY <2>1 DEF Pending, AnnouncedFirst
  <2>2. CASE \E b \in Blocks : mainQ' = Append(mainQ, b)
    BY <1>1, <2>2, Appending
  <2> QED BY <2>1, <2>2
<1> QED BY <1>2, KnownFrame

\* The filter is called.
LEMMA KnownFilter ==
    ASSUME TypeOK, Known, observing, NEW kinds, MainTakes(kinds), FilterUser(currentUser),
           UNCHANGED <<currentUser, loaded, inFlight, observing, userID, isSignedIn>>
    PROVE Known'
<1>1. ~first' /\ prevUser' = currentUser /\ listener = "idle"
      /\ listener' = IF first \/ currentUser # prevUser THEN "check" ELSE "idle"
  BY DEF FilterUser, MainTakes
<1>2. Waits'
  BY <1>1 DEF Known, Waits
<1>3. ShowsNobodyElse' /\ Filtered'
  BY <1>1 DEF Known, ShowsNobodyElse, Filtered
<1>4. BeginsByAnswer'
  BY <1>1 DEF Known, BeginsByAnswer, Unanswered
<1> QED BY <1>2, <1>3, <1>4 DEF Known

\* The stored user is loaded before anybody is shown.
LEMMA KnownLoads == TypeOK /\ Quiet /\ Known /\ LoadStoredUser => Known'
<1> SUFFICES ASSUME TypeOK, Quiet, Known, LoadStoredUser PROVE Known'
  OBVIOUS
<1>1. /\ mainQ \in Seq(Blocks) /\ currentUser' \in MaybeUser
      /\ UNCHANGED <<inFlight, observing, first, prevUser, listener, userID, isSignedIn>>
      /\ ~loaded /\ loaded'
  BY TypeStep DEF LoadStoredUser, Next, TypeOK, filter
<1>2. ~isSignedIn /\ userID = NoUser /\ Unanswered # 1
  BY <1>1 DEF Known, ShowsNobodyElse, BeginsByAnswer, Quiet, ShownWhenLoaded
<1>3. Pending({"initial"}) => Pending({"initial"})'
  <2>1. CASE UNCHANGED mainQ
    BY <2>1 DEF Pending
  <2>2. CASE mainQ' = Append(mainQ, Block("notify", currentUser'))
    BY <1>1, <2>2, BlocksAreTyped, Appending
  <2> QED BY <2>1, <2>2 DEF LoadStoredUser
<1>4. Unanswered' = Unanswered
  BY <1>1 DEF Unanswered
<1>5. Waits' /\ Filtered'
  BY <1>1, <1>3 DEF Known, Waits, Filtered
<1>6. ShowsNobodyElse' /\ BeginsByAnswer'
  BY <1>1, <1>2, <1>4 DEF ShowsNobodyElse, BeginsByAnswer
<1> QED BY <1>5, <1>6 DEF Known

\* An answer comes to nobody's screen.
LEMMA KnownAnswers == TypeOK /\ OneRequest /\ Known /\ Answers => Known'
<1> SUFFICES ASSUME TypeOK, OneRequest, Known, NEW r \in Requests,
                    RequestSucceeds(r) \/ RequestFails(r)
             PROVE Known'
  BY DEF Answers
<1>1. Answered(r)
  BY DEF RequestSucceeds, RequestFails
<1>2. Unanswered = 1
  <2>1. Unanswered \in Nat
    BY UnansweredIsANumber DEF TypeOK
  <2>2. Unanswered # 0
    BY <1>1, NothingToAnswer
  <2> QED BY <2>1, <2>2 DEF OneRequest
<1>3. Unanswered' = 0
  BY <1>1, AnsweredAlone
<1>4. UNCHANGED <<loaded, observing, first, prevUser, listener, userID, isSignedIn>>
  BY <1>1 DEF Answered, filter
<1>5. CASE RequestSucceeds(r)
  <2>1. PICK u \in Eligible(r) : mainQ' = mainQ \o Outcome(r, u)
    BY <1>5 DEF RequestSucceeds
  <2>2. AnnouncedFirst' /\ (Pending({"initial"}) => Pending({"initial"})')
    BY <2>1, SuccessQueued DEF Eligible, TypeOK
  <2>3. ~isSignedIn /\ userID = NoUser
    BY <1>2 DEF Known, ShowsNobodyElse, BeginsByAnswer
  <2>4. ShowsNobodyElse' /\ BeginsByAnswer' /\ Filtered'
    BY <1>3, <1>4, <2>2, <2>3 DEF ShowsNobodyElse, BeginsByAnswer, Filtered
  <2>5. Waits'
    BY <1>4, <2>2 DEF Known, Waits
  <2> QED BY <2>4, <2>5 DEF Known
<1>6. CASE RequestFails(r)
  <2>1. mainQ' = Append(mainQ, Block(r, NoUser)) /\ Block(r, NoUser) \in Blocks
        /\ UNCHANGED currentUser
    BY <1>6, BlocksAreTyped, MaybeUsers DEF RequestFails
  <2> QED BY <1>3, <1>4, <2>1, KnownAppends
<1> QED BY <1>5, <1>6

\* Every step keeps them, also when the server ends sessions.
LEMMA KnownStep == TypeOK /\ OneRequest /\ Quiet /\ Known /\ [Next]_vars => Known'
<1> SUFFICES ASSUME TypeOK, OneRequest, Quiet, Known, [Next]_vars PROVE Known'
  OBVIOUS
<1>0. mainQ \in Seq(Blocks) /\ currentUser \in MaybeUser
  BY DEF TypeOK
<1>1. CASE LoadStoredUser
  BY <1>1, KnownLoads
<1>2. CASE Answers
  BY <1>2, KnownAnswers
<1>3. CASE RefreshToken
  BY <1>0, <1>3, BlocksAreTyped, KnownAppends DEF RefreshToken, filter, Unanswered
<1>4. CASE RevokeSession
  <2>1. /\ currentUser' = NoUser /\ mainQ' = Append(mainQ, Block("notify", NoUser))
        /\ UNCHANGED <<loaded, inFlight, observing, first, prevUser, listener, userID, isSignedIn>>
    BY <1>4 DEF RevokeSession, filter
  <2>2. Pending({"initial"}) => Pending({"initial"})'
    BY <1>0, <2>1, BlocksAreTyped, MaybeUsers, Appending
  <2>3. Waits' /\ Filtered'
    BY <2>1, <2>2 DEF Known, Waits, Filtered
  <2>4. ShowsNobodyElse' /\ BeginsByAnswer'
    BY <2>1 DEF Known, ShowsNobodyElse, BeginsByAnswer, Unanswered
  <2> QED BY <2>3, <2>4 DEF Known
<1>5. CASE RunInitial
  <2>1. observing
    BY <1>0, <1>5, TakesWhatIsPending DEF RunInitial, Quiet, AllQuiet
  <2> QED BY <1>5, <2>1, KnownFilter DEF RunInitial
<1>6. CASE RunNotify
  <2>1. CASE observing
    BY <1>6, <2>1, KnownFilter DEF RunNotify
  <2>2. CASE ~observing
    <3>1. /\ UNCHANGED <<currentUser, loaded, inFlight, observing, first, prevUser, listener,
                         userID, isSignedIn>>
      BY <1>6, <2>2 DEF RunNotify, filter
    <3>2. currentUser = NoUser /\ userID = NoUser
      BY <2>2 DEF Quiet, AllQuiet
    <3>3. Filtered' /\ Waits' /\ ShowsNobodyElse'
      BY <2>2, <3>1, <3>2 DEF Known, Filtered, Waits, ShowsNobodyElse
    <3>4. BeginsByAnswer'
      BY <3>1 DEF Known, BeginsByAnswer, Unanswered
    <3> QED BY <3>3, <3>4 DEF Known
  <2> QED BY <2>1, <2>2
<1>7. CASE ListenerChecks
  <2>1. /\ UNCHANGED <<currentUser, loaded, inFlight, mainQ, observing, first, prevUser>>
        /\ loaded /\ listener = "check"
    BY <1>7 DEF ListenerChecks, filter
  <2>2. Waits'
    BY <2>1 DEF Known, Waits, Pending
  <2>3. CASE currentUser # NoUser /\ listener' = "start" /\ UNCHANGED <<userID, isSignedIn>>
    <3>1. Unanswered # 1
      BY <2>1, <2>3 DEF Known, BeginsByAnswer
    <3>2. Filtered' /\ ShowsNobodyElse'
      BY <2>1, <2>3 DEF Known, Filtered, ShowsNobodyElse
    <3>3. BeginsByAnswer'
      BY <2>1, <3>1 DEF BeginsByAnswer, Unanswered
    <3> QED BY <2>2, <3>2, <3>3 DEF Known
  <2>4. CASE currentUser = NoUser /\ listener' = "idle" /\ isSignedIn' = FALSE /\ userID' = NoUser
    <3>1. Filtered' /\ ShowsNobodyElse'
      BY <2>1, <2>4 DEF Filtered, ShowsNobodyElse
    <3>2. BeginsByAnswer'
      BY <2>1, <2>4 DEF Known, BeginsByAnswer, Unanswered
    <3> QED BY <2>2, <3>1, <3>2 DEF Known
  <2> QED BY <1>7, <2>3, <2>4 DEF ListenerChecks
<1>8. CASE ListenerStarts
  <2>1. CASE currentUser = NoUser
    BY <1>8, <2>1, KnownAppends DEF ListenerStarts, filter, Unanswered
  <2>2. CASE currentUser # NoUser
    <3>1. /\ UNCHANGED <<currentUser, loaded, inFlight, mainQ, observing, first, prevUser>>
          /\ userID' = currentUser /\ isSignedIn' = TRUE /\ listener = "start"
      BY <1>8, <2>2 DEF ListenerStarts, StartFor, filter
    <3>2. Unanswered # 1
      BY <2>2, <3>1 DEF Known, BeginsByAnswer
    <3>3. BeginsByAnswer' /\ Filtered' /\ ShowsNobodyElse'
      BY <2>2, <3>1, <3>2 DEF BeginsByAnswer, Unanswered, Filtered, ShowsNobodyElse
    <3>4. Waits'
      BY <3>1 DEF Known, Waits, Pending
    <3> QED BY <3>3, <3>4 DEF Known
  <2> QED BY <2>1, <2>2
<1>9. CASE SignInCompletes \/ SignUpCompletes
  <2>1. /\ UNCHANGED <<currentUser, loaded, inFlight, observing, first, prevUser, listener,
                       userID, isSignedIn>>
        /\ MainTakes({"signIn"}) \/ MainTakes({"signUp"})
    BY <1>9 DEF SignInCompletes, SignUpCompletes, filter, CreateUser
  <2>2. /\ Pending({"initial"}) => Pending({"initial"})'
        /\ AnnouncedFirst => AnnouncedFirst'
    BY <1>0, <2>1, TakenKeeps
  <2>3. Unanswered' = Unanswered
    BY <2>1 DEF Unanswered
  <2> QED BY <2>1, <2>2, <2>3, KnownFrame
<1>10. CASE OnSignInTap \/ OnSignUpTap
  <2>1. /\ UNCHANGED <<currentUser, loaded, mainQ, observing, first, prevUser, listener, userID,
                       isSignedIn>>
        /\ Touchable /\ ~isSignedIn
    BY <1>10 DEF OnSignInTap, OnSignUpTap, filter
  <2>2. observing /\ listener = "idle" /\ ~Pending({"initial"}) /\ ~Pending(Requests)
    BY <2>1 DEF Quiet, AllQuiet, Touchable, OneRequest
  <2>3. ~first /\ loaded
    BY <2>2 DEF Known, Waits
  <2>4. ~AnnouncedFirst
    BY <2>2 DEF Pending, AnnouncedFirst
  <2>5. currentUser \in {NoUser, prevUser}
    BY <2>1, <2>2, <2>3, <2>4 DEF Known, Filtered
  <2>6. BeginsByAnswer' /\ Filtered'
    BY <2>1, <2>2, <2>3, <2>5 DEF BeginsByAnswer, Filtered
  <2>7. ShowsNobodyElse' /\ Waits'
    BY <2>1, <2>3 DEF Known, ShowsNobodyElse, Waits
  <2> QED BY <2>6, <2>7 DEF Known
<1>11. CASE SignOutTap
  <2>1. CASE SignOutFails
    BY <1>11, <2>1, KnownAppends DEF SignOutTap, SignOutFails, filter, Unanswered
  <2>2. CASE userID' = NoUser /\ StopListening /\ AuthSignsOut
    <3>1. /\ ~observing' /\ userID' = NoUser /\ currentUser' = NoUser /\ ~isLoading /\ isSignedIn
          /\ UNCHANGED <<loaded, inFlight, first, listener, isSignedIn>>
      BY <1>11, <2>2 DEF SignOutTap, StopListening, AuthSignsOut, Touchable, filter
    <3>2. Unanswered' # 1 /\ loaded
      BY <3>1 DEF OneRequest, Unanswered, Quiet, ShownWhenLoaded
    <3> QED BY <3>1, <3>2 DEF Known, ShowsNobodyElse, BeginsByAnswer, Filtered, Waits
  <2> QED BY <1>11, <2>1, <2>2 DEF SignOutTap
<1>12. CASE DismissAlert
  BY <1>12, KnownAppends DEF DismissAlert, filter, Unanswered
<1>13. CASE Relaunch
  <2>1. Unanswered' = 0
    BY <1>13 DEF Relaunch, Unanswered, Requests
  <2>2. Pending({"initial"})'
    BY <1>13 DEF Relaunch, LaunchQueues, Pending, Block
  <2> QED BY <1>13, <2>1, <2>2 DEF Relaunch, Known, ShowsNobodyElse, BeginsByAnswer, Filtered, Waits
<1>14. CASE UNCHANGED vars
  BY <1>14, KnownAppends DEF vars, filter, Unanswered
<1> QED BY <1>1, <1>2, <1>3, <1>4, <1>5, <1>6, <1>7, <1>8, <1>9, <1>10, <1>11, <1>12, <1>13,
           <1>14 DEF Next, MainRuns, Taps

(***************************************************************************)
(* The session in the app.  Blocks of others come between its own on the   *)
(* main queue, and others use its overlay.                                 *)
(***************************************************************************)

\* A step of the session that is not a launch, and one that does not run an announcement.
Ongoing == LoadStoredUser \/ Answers \/ RefreshToken \/ RevokeSession \/ MainRuns \/ Taps
Untold == LoadStoredUser \/ Answers \/ RefreshToken \/ RevokeSession \/ RunInitial
          \/ ListenerChecks \/ ListenerStarts \/ SignInCompletes \/ SignUpCompletes \/ Taps

\* A step of the rest of the app: it queues or runs a block of its own, may raise the overlay,
\* takes it away only when no request needs it, and may end the process.
Beside ==
    /\ UNCHANGED <<stored, currentUser, loaded, inFlight, observing, filter, listener, userID,
                   isSignedIn>>
    /\ \/ UNCHANGED mainQ
       \/ \E b \in OtherBlocks : mainQ' = Append(mainQ, b)
       \/ \E kinds : kinds \cap Kinds = {} /\ MainTakes(kinds)
    /\ isLoading' \in BOOLEAN /\ alertShowing' \in BOOLEAN
    /\ isLoading' = isLoading \/ isLoading' \/ (Unanswered = 0 /\ ~Pending(Requests))
    /\ crash' \in {crash} \cup OtherCrashes

\* What the rest of the app does to the queue leaves the blocks of the session as they are.
LEMMA BesideQueue ==
    ASSUME TypeOK, Beside
    PROVE /\ mainQ' \in Seq(Blocks)
          /\ \A kinds : kinds \subseteq Kinds => (Pending(kinds)' <=> Pending(kinds))
          /\ LoneCompletion => LoneCompletion'
          /\ AnnouncedFirst => AnnouncedFirst'
          /\ Reported => Reported'
<1>0. mainQ \in Seq(Blocks) /\ currentUser' = currentUser /\ Requests \subseteq Kinds
  BY DEF TypeOK, Beside, Kinds
<1>1. CASE UNCHANGED mainQ
  BY <1>0, <1>1 DEF Pending, LoneCompletion, AnnouncedFirst, Reported
<1>2. CASE \E b \in OtherBlocks : mainQ' = Append(mainQ, b)
  <2>1. PICK b \in OtherBlocks : mainQ' = Append(mainQ, b)
    BY <1>2
  <2>2. b \in Blocks /\ b.kind \notin Kinds
    BY OtherBlocksAssumption DEF Blocks
  <2>3. /\ Len(mainQ) \in Nat /\ Len(mainQ') = Len(mainQ) + 1 /\ mainQ' \in Seq(Blocks)
        /\ \A i \in 1..Len(mainQ) : i \in 1..Len(mainQ') /\ mainQ'[i] = mainQ[i]
        /\ \A i \in 1..Len(mainQ') : mainQ'[i].kind \in Kinds =>
                                        i \in 1..Len(mainQ) /\ mainQ'[i] = mainQ[i]
    BY <1>0, <2>1, <2>2
  <2>4. \A kinds : kinds \subseteq Kinds => (Pending(kinds)' <=> Pending(kinds))
    BY <2>3 DEF Pending
  <2>5. LoneCompletion => LoneCompletion'
    BY <1>0, <2>3 DEF LoneCompletion
  <2> QED BY <1>0, <2>1, <2>2, <2>3, <2>4, <2>5, Appending
<1>3. CASE \E kinds : kinds \cap Kinds = {} /\ MainTakes(kinds)
  <2>1. PICK other : other \cap Kinds = {} /\ MainTakes(other)
    BY <1>3
  <2>2. /\ Len(mainQ) \in Nat \ {0} /\ Len(mainQ') = Len(mainQ) - 1 /\ mainQ' \in Seq(Blocks)
        /\ mainQ[1].kind \in other
        /\ \A i \in 1..Len(mainQ') : mainQ'[i] = mainQ[i + 1]
    BY <1>0, <2>1, TakenBlock
  <2>3. /\ \A i \in 1..Len(mainQ') : i + 1 \in 1..Len(mainQ) /\ mainQ'[i] = mainQ[i + 1]
        /\ \A i \in 1..Len(mainQ) : mainQ[i].kind \in Kinds =>
                                       i - 1 \in 1..Len(mainQ') /\ mainQ'[i - 1] = mainQ[i]
    BY <2>1, <2>2
  <2>4. \A kinds : kinds \subseteq Kinds => (Pending(kinds)' <=> Pending(kinds))
    BY <2>3 DEF Pending
  <2>5. AnnouncedFirst => AnnouncedFirst'
    BY <1>0, <2>1, TakenKeeps DEF Kinds
  <2> QED BY <1>0, <2>1, <2>2, <2>4, <2>5, BlockTaken, Taking
<1> QED BY <1>1, <1>2, <1>3 DEF Beside

\* The rest of the app keeps what is known of the session.
LEMMA BesideKnown ==
    ASSUME TypeOK, OneRequest, Quiet, Known, Beside
    PROVE TypeOK' /\ OneRequest' /\ Quiet' /\ Known'
<1>1. TypeOK'
  BY BesideQueue DEF TypeOK, Beside, stored, filter
<1>2. Unanswered' = Unanswered /\ {"initial"} \subseteq Kinds /\ Requests \subseteq Kinds
  BY DEF Beside, Unanswered, Kinds
<1>3. OneRequest'
  BY <1>2, BesideQueue DEF OneRequest, Beside
<1>4. Quiet'
  BY <1>2, BesideQueue DEF Quiet, ShownWhenLoaded, AllQuiet, Beside
<1>5. Known'
  BY <1>2, BesideQueue, KnownFrame DEF Beside, filter
<1> QED BY <1>1, <1>3, <1>4, <1>5

\* The rest of the app keeps what is known of a session that lasts.
LEMMA BesideLasting ==
    ASSUME TypeOK, Lasting, Beside,
           OtherCrashes \cap {"nil user in listener", "user id is null"} = {}
    PROVE Lasting'
<1>1. Unanswered' = Unanswered /\ {"initial"} \subseteq Kinds /\ Requests \subseteq Kinds
  BY DEF Beside, Unanswered, Kinds
<1>2. (observing => Shown /\ Heard)'
  BY <1>1, BesideQueue DEF Lasting, Shown, Heard, Beside, filter
<1>3. Begun' /\ Reported'
  BY <1>1, BesideQueue DEF Lasting, Begun, Beside, filter
<1> QED BY <1>1, <1>2, <1>3 DEF Lasting, OnlySignOutCrashes, Beside, filter

\* A step of the session queues blocks of its own, or runs one.
LEMMA UntoldQueue ==
    ASSUME TypeOK, Untold
    PROVE \/ UNCHANGED mainQ
          \/ \E b \in Blocks : b.kind \in Kinds /\ mainQ' = Append(mainQ, b)
          \/ \E b, c \in Blocks : {b.kind, c.kind} \subseteq Kinds
                                     /\ mainQ' = Append(Append(mainQ, b), c)
          \/ \E kinds \in SUBSET (Kinds \ {"notify"}) : MainTakes(kinds)
<1> DEFINE One(b) == b.kind \in Kinds /\ mainQ' = Append(mainQ, b)
<1>0. mainQ \in Seq(Blocks) /\ currentUser \in MaybeUser /\ keychain \in MaybeUser
  BY DEF TypeOK
<1>n. \A u \in MaybeUser : Block("notify", u) \in Blocks /\ Block("notify", u).kind \in Kinds
  BY BlocksAreTyped DEF Block, Kinds
<1>r. \A u \in MaybeUser, r \in Requests : Block(r, u) \in Blocks /\ Block(r, u).kind \in Kinds
  BY BlocksAreTyped DEF Block, Kinds
<1>1. CASE LoadStoredUser
  BY <1>0, <1>1, <1>n, MaybeUsers DEF LoadStoredUser
<1>2. ASSUME NEW r \in Requests, RequestSucceeds(r)
      PROVE \E b, c \in Blocks : {b.kind, c.kind} \subseteq Kinds
                                     /\ mainQ' = Append(Append(mainQ, b), c)
  <2>1. PICK u \in Eligible(r) : mainQ' = mainQ \o Outcome(r, u)
    BY <1>2 DEF RequestSucceeds
  <2>2. u \in Users /\ u \in MaybeUser
    BY MaybeUsers DEF Eligible, TypeOK
  <2>3. mainQ' = Append(Append(mainQ, Block("notify", u)), Block(r, u))
    BY <1>0, <2>1, <2>2, OutcomeIsTwoBlocks
  <2> QED BY <1>n, <1>r, <2>2, <2>3
<1>3. ASSUME NEW r \in Requests, RequestFails(r) PROVE \E b \in Blocks : One(b)
  BY <1>3, <1>r, MaybeUsers DEF RequestFails
<1>4. CASE RefreshToken
  BY <1>0, <1>4, <1>n DEF RefreshToken
<1>5. CASE RevokeSession
  BY <1>5, <1>n, MaybeUsers DEF RevokeSession
<1>6. CASE RunInitial \/ SignInCompletes \/ SignUpCompletes
  BY <1>6 DEF RunInitial, SignInCompletes, SignUpCompletes, Kinds, Requests
<1>7. CASE ListenerChecks \/ ListenerStarts \/ OnSignInTap \/ OnSignUpTap \/ DismissAlert
  BY <1>7 DEF ListenerChecks, ListenerStarts, OnSignInTap, OnSignUpTap, DismissAlert
<1>8. CASE SignOutTap
  BY <1>8, <1>n, MaybeUsers DEF SignOutTap, SignOutFails, AuthSignsOut
<1> QED BY <1>1, <1>2, <1>3, <1>4, <1>5, <1>6, <1>7, <1>8 DEF Untold, Answers, Taps

LEMMA OngoingQueue ==
    ASSUME TypeOK, Ongoing
    PROVE \/ UNCHANGED mainQ
          \/ \E b \in Blocks : b.kind \in Kinds /\ mainQ' = Append(mainQ, b)
          \/ \E b, c \in Blocks : {b.kind, c.kind} \subseteq Kinds
                                     /\ mainQ' = Append(Append(mainQ, b), c)
          \/ \E kinds \in SUBSET Kinds : MainTakes(kinds)
<1>1. CASE Untold
  BY <1>1, UntoldQueue
<1>2. CASE RunNotify
  BY <1>2 DEF RunNotify, Kinds
<1> QED BY <1>1, <1>2 DEF Ongoing, Untold, MainRuns

\* What the process can die of in a step of the session, and that nobody registers the
\* observer again.
LEMMA OngoingEnds ==
    ASSUME Ongoing
    PROVE /\ crash' \in {crash, "nil user in listener", "user id is null", "sign out failed"}
          /\ observing' \in {observing, FALSE}
<1>1. CASE Answers
  BY <1>1 DEF Answers, RequestSucceeds, RequestFails, Answered
<1>2. CASE LoadStoredUser \/ RefreshToken \/ RevokeSession \/ MainRuns
  BY <1>2 DEF LoadStoredUser, RefreshToken, RevokeSession, MainRuns, RunInitial, RunNotify,
     ListenerChecks, ListenerStarts, SignInCompletes, SignUpCompletes, FinishRequest
<1>3. CASE Taps
  BY <1>3 DEF Taps, OnSignInTap, OnSignUpTap, SignOutTap, SignOutFails, StopListening,
     DismissAlert, FinishRequest
<1> QED BY <1>1, <1>2, <1>3 DEF Ongoing

\* The overlay is up, and no request put it there: nobody signs in or out, and the overlay
\* stays.
Covered == isLoading /\ Unanswered = 0 /\ ~Pending(Requests)

LEMMA CoveredStep ==
    ASSUME TypeOK, OneRequest, Quiet, Covered, Ongoing
    PROVE /\ Covered'
          /\ UNCHANGED observing
          /\ loaded => loaded' /\ currentUser' \in {currentUser, NoUser}
                               /\ userID' \in {userID, currentUser, NoUser}
<1>0. mainQ \in Seq(Blocks)
  BY DEF TypeOK
<1>a. ASSUME UNCHANGED inFlight, isLoading' = isLoading,
             \/ UNCHANGED mainQ
             \/ \E u \in MaybeUser : mainQ' = Append(mainQ, Block("notify", u))
             \/ \E kinds : MainTakes(kinds)
      PROVE Covered'
  <2>1. Pending(Requests)' => Pending(Requests)
    <3>1. CASE UNCHANGED mainQ
      BY <3>1 DEF Pending
    <3>2. CASE \E u \in MaybeUser : mainQ' = Append(mainQ, Block("notify", u))
      BY <1>0, <3>2, AnnouncementQueued
    <3>3. CASE \E kinds : MainTakes(kinds)
      BY <1>0, <3>3, BlockTaken
    <3> QED BY <1>a, <3>1, <3>2, <3>3
  <2> QED BY <1>a, <2>1 DEF Covered, Unanswered
<1>1. CASE LoadStoredUser
  <2>1. currentUser' \in MaybeUser
    BY <1>1, MaybeUsers DEF LoadStoredUser, TypeOK
  <2> QED BY <1>1, <1>a, <2>1 DEF LoadStoredUser, screen
<1>2. ~Answers
  BY NothingToAnswer DEF Answers, RequestSucceeds, RequestFails, Covered
<1>3. CASE RefreshToken
  BY <1>3, <1>a DEF RefreshToken, screen, TypeOK
<1>4. CASE RevokeSession
  BY <1>4, <1>a, MaybeUsers DEF RevokeSession, screen
<1>5. CASE RunInitial \/ RunNotify
  BY <1>5, <1>a DEF RunInitial, RunNotify, screen
<1>6. CASE ListenerChecks
  BY <1>6, <1>a DEF ListenerChecks, screen
<1>7. CASE ListenerStarts
  BY <1>7, <1>a DEF ListenerStarts, StartFor, screen
<1>8. ~(SignInCompletes \/ SignUpCompletes)
  <2>1. ~MainTakes({"signIn"}) /\ ~MainTakes({"signUp"})
    BY <1>0, TakesWhatIsPending DEF Covered, Pending, Requests
  <2> QED BY <2>1 DEF SignInCompletes, SignUpCompletes
<1>9. ~(OnSignInTap \/ OnSignUpTap \/ SignOutTap)
  BY DEF OnSignInTap, OnSignUpTap, SignOutTap, Touchable, Covered
<1>10. CASE DismissAlert
  BY <1>10, <1>a DEF DismissAlert
<1> QED BY <1>1, <1>2, <1>3, <1>4, <1>5, <1>6, <1>7, <1>8, <1>9, <1>10
        DEF Ongoing, MainRuns, Taps

\* Until a sign-out every announcement is of the current user.
Announces ==
    observing => \A i \in 1..Len(mainQ) :
                     mainQ[i].kind = "notify" => mainQ[i].user = currentUser /\ currentUser # NoUser

LEMMA AnnouncesInit == Init => Announces
<1> SUFFICES ASSUME Init PROVE Announces
  OBVIOUS
<1> QED BY DEF Init, LaunchQueues, Announces, Block

LEMMA AnnouncesRelaunch == Relaunch => Announces'
<1> SUFFICES ASSUME Relaunch PROVE Announces'
  OBVIOUS
<1> QED BY DEF Relaunch, LaunchQueues, Announces, Block

\* A session begins with its announcement, on a screen that shows nobody.
LEMMA SessionBegins ==
    ASSUME ~Revocable, TypeOK, OneRequest, Quiet, Lasting, Ongoing,
           currentUser' # currentUser, currentUser' # NoUser
    PROVE currentUser = NoUser /\ ~isSignedIn /\ Pending({"notify"})'
<1>0. mainQ \in Seq(Blocks)
  BY DEF TypeOK
<1>1. CASE LoadStoredUser
  <2>1. currentUser = NoUser /\ ~isSignedIn
    BY <1>1 DEF LoadStoredUser, Lasting, Quiet, ShownWhenLoaded
  <2>2. /\ mainQ' = Append(mainQ, Block("notify", currentUser')) /\ currentUser' \in MaybeUser
        /\ Len(mainQ) \in Nat
    <3>0. Len(mainQ) \in Nat
      BY <1>0
    <3>1. currentUser' \in {keychain, NoUser} /\ keychain \in MaybeUser
      BY <1>1 DEF LoadStoredUser, TypeOK
    <3> QED BY <1>1, <3>0, <3>1, MaybeUsers DEF LoadStoredUser
  <2>3. Len(mainQ') = Len(mainQ) + 1 /\ mainQ'[Len(mainQ) + 1].kind = "notify"
    BY <1>0, <2>2, BlocksAreTyped DEF Block
  <2> QED BY <2>1, <2>2, <2>3 DEF Pending
<1>2. ASSUME NEW r \in Requests, RequestSucceeds(r)
      PROVE currentUser = NoUser /\ ~isSignedIn /\ Pending({"notify"})'
  <2>1. PICK u \in Eligible(r) : mainQ' = mainQ \o Outcome(r, u)
    BY <1>2 DEF RequestSucceeds
  <2>2. AnnouncedFirst'
    BY <1>2, <2>1, SuccessQueued DEF Eligible, TypeOK
  <2> QED BY <1>2, <2>2, BeforeTheAnswer DEF RequestSucceeds, AnnouncedFirst, Pending
<1>3. CASE \E r \in Requests : RequestFails(r)
  BY <1>3 DEF RequestFails
<1>4. ASSUME NEW kinds, MainTakes(kinds), UNCHANGED currentUser PROVE FALSE
  BY <1>4
<1>5. ~(RefreshToken \/ RevokeSession \/ MainRuns)
  BY DEF RefreshToken, RevokeSession, MainRuns, RunInitial, RunNotify, ListenerChecks,
         ListenerStarts, SignInCompletes, SignUpCompletes
<1>6. ~Taps
  BY DEF Taps, OnSignInTap, OnSignUpTap, SignOutTap, SignOutFails, AuthSignsOut, DismissAlert
<1> QED BY <1>1, <1>2, <1>3, <1>5, <1>6 DEF Ongoing, Answers

LEMMA AnnouncesStep ==
    ASSUME ~Revocable, TypeOK, OneRequest, Quiet, Lasting, Announces, Ongoing
    PROVE Announces'
<1>0. mainQ \in Seq(Blocks) /\ currentUser \in MaybeUser
  BY DEF TypeOK
<1> DEFINE Told(q, u) == \A i \in 1..Len(q) : q[i].kind = "notify" => q[i].user = u /\ u # NoUser
<1>a. ASSUME NEW u \in MaybeUser, NEW b \in Blocks, Told(mainQ, u),
             b.kind = "notify" => b.user = u /\ u # NoUser
      PROVE Told(Append(mainQ, b), u)
  <2>1. \A i \in 1..Len(Append(mainQ, b)) :
            Append(mainQ, b)[i] = b \/ (i \in 1..Len(mainQ) /\ Append(mainQ, b)[i] = mainQ[i])
    BY <1>0
  <2> QED BY <1>a, <2>1
<1>b. \A u \in MaybeUser : Block("notify", u) \in Blocks /\ Block("notify", u).user = u
  BY BlocksAreTyped DEF Block
<1>1. CASE LoadStoredUser
  <2>1. /\ UNCHANGED observing /\ currentUser' \in MaybeUser /\ currentUser = NoUser
        /\ mainQ' = IF currentUser' = NoUser THEN mainQ
                    ELSE Append(mainQ, Block("notify", currentUser'))
    BY <1>1, MaybeUsers DEF LoadStoredUser, Lasting, TypeOK
  <2>2. observing => Told(mainQ, currentUser')
    BY <2>1 DEF Announces
  <2>3. observing => Told(mainQ', currentUser')
    BY <1>a, <1>b, <2>1, <2>2
  <2> QED BY <2>1, <2>3 DEF Announces
<1>2. ASSUME NEW r \in Requests, RequestSucceeds(r) PROVE Announces'
  <2>1. PICK u \in Eligible(r) : currentUser' = u /\ mainQ' = mainQ \o Outcome(r, u)
    BY <1>2 DEF RequestSucceeds
  <2>2. u \in Users /\ u \in MaybeUser /\ u # NoUser
    BY MaybeUsers, NoUserAssumption DEF Eligible, TypeOK
  <2>3. currentUser = NoUser /\ observing
    BY <1>2, BeforeTheAnswer DEF RequestSucceeds
  <2>4. \A i \in 1..Len(mainQ) : mainQ[i].kind # "notify"
    BY <2>3 DEF Announces
  <2>5. /\ mainQ' = Append(Append(mainQ, Block("notify", u)), Block(r, u))
        /\ Block("notify", u) \in Blocks /\ Block(r, u) \in Blocks
    BY <1>0, <2>1, <2>2, OutcomeIsTwoBlocks, BlocksAreTyped
  <2>6. /\ Block("notify", u).user = u /\ Block(r, u).user = u
    BY DEF Block
  <2>7. \A i \in 1..Len(mainQ') : (i \in 1..Len(mainQ) /\ mainQ'[i] = mainQ[i])
                                  \/ mainQ'[i] \in {Block("notify", u), Block(r, u)}
    BY <1>0, <2>5
  <2> QED BY <2>1, <2>2, <2>4, <2>6, <2>7 DEF Announces
<1>3. ASSUME NEW r \in Requests, RequestFails(r) PROVE Announces'
  <2>1. /\ UNCHANGED <<currentUser, observing>> /\ mainQ' = Append(mainQ, Block(r, NoUser))
        /\ Block(r, NoUser) \in Blocks /\ Block(r, NoUser).kind # "notify"
    BY <1>3, BlocksAreTyped, MaybeUsers DEF RequestFails, Answered, Block, Requests
  <2> QED BY <1>0, <1>a, <2>1 DEF Announces
<1>4. CASE RefreshToken
  BY <1>0, <1>4, <1>a, <1>b DEF RefreshToken, Announces
<1>5. ~RevokeSession
  BY DEF RevokeSession
<1>6. ASSUME NEW kinds, MainTakes(kinds), UNCHANGED <<currentUser, observing>> PROVE Announces'
  <2>1. \A i \in 1..Len(mainQ') : i + 1 \in 1..Len(mainQ) /\ mainQ'[i] = mainQ[i + 1]
    BY <1>0, <1>6, TakenBlock
  <2> QED BY <1>6, <2>1 DEF Announces
<1>7. CASE RunInitial \/ RunNotify \/ SignInCompletes \/ SignUpCompletes
  BY <1>6, <1>7 DEF RunInitial, RunNotify, SignInCompletes, SignUpCompletes
<1>8. CASE ListenerChecks \/ ListenerStarts \/ OnSignInTap \/ OnSignUpTap \/ DismissAlert
  BY <1>8 DEF ListenerChecks, ListenerStarts, OnSignInTap, OnSignUpTap, DismissAlert, Announces
<1>9. CASE SignOutTap
  BY <1>9 DEF SignOutTap, SignOutFails, StopListening, Announces
<1> QED BY <1>1, <1>2, <1>3, <1>4, <1>5, <1>7, <1>8, <1>9
        DEF Ongoing, Answers, MainRuns, Taps

LEMMA AnnouncesBeside == ASSUME TypeOK, Announces, Beside PROVE Announces'
<1>0. mainQ \in Seq(Blocks) /\ UNCHANGED <<currentUser, observing>>
  BY DEF TypeOK, Beside
<1>1. \A i \in 1..Len(mainQ') :
          mainQ'[i].kind \in Kinds => \E j \in 1..Len(mainQ) : mainQ'[i] = mainQ[j]
  <2>1. CASE UNCHANGED mainQ
    BY <2>1
  <2>2. ASSUME NEW b \in OtherBlocks, mainQ' = Append(mainQ, b)
        PROVE \A i \in 1..Len(mainQ') :
                  mainQ'[i].kind \in Kinds => \E j \in 1..Len(mainQ) : mainQ'[i] = mainQ[j]
    <3>1. b.kind \notin Kinds /\ b \in Blocks
      BY OtherBlocksAssumption DEF Blocks
    <3>2. \A i \in 1..Len(mainQ') : mainQ'[i] = b \/ (i \in 1..Len(mainQ) /\ mainQ'[i] = mainQ[i])
      BY <1>0, <2>2, <3>1
    <3> QED BY <3>1, <3>2
  <2>3. CASE \E kinds : MainTakes(kinds)
    <3>1. \A i \in 1..Len(mainQ') : i + 1 \in 1..Len(mainQ) /\ mainQ'[i] = mainQ[i + 1]
      BY <1>0, <2>3, TakenBlock
    <3> QED BY <3>1
  <2> QED BY <2>1, <2>2, <2>3 DEF Beside
<1>2. "notify" \in Kinds
  BY DEF Kinds
<1> QED BY <1>0, <1>1, <1>2 DEF Announces

\* Whoever is shown as signed in stays on the screen, and FirestoreService works for nobody else.
LEMMA StaysShown ==
    ASSUME ~Revocable, TypeOK, Quiet, Lasting, Ongoing, isSignedIn
    PROVE isSignedIn' /\ userID' \in {userID, NoUser}
<1>1. CASE LoadStoredUser \/ RefreshToken \/ RevokeSession
  BY <1>1 DEF LoadStoredUser, RefreshToken, RevokeSession
<1>2. CASE Answers
  BY <1>2 DEF Answers, RequestSucceeds, RequestFails, Answered
<1>3. CASE RunInitial \/ RunNotify \/ SignInCompletes \/ SignUpCompletes
  BY <1>3 DEF RunInitial, RunNotify, SignInCompletes, SignUpCompletes
<1>4. CASE ListenerChecks
  <2>1. observing /\ currentUser # NoUser
    BY <1>4 DEF ListenerChecks, Quiet, AllQuiet, Lasting, Shown
  <2> QED BY <1>4, <2>1 DEF ListenerChecks
<1>5. CASE ListenerStarts
  <2>1. observing /\ userID = currentUser
    BY <1>5 DEF ListenerStarts, Quiet, AllQuiet, Lasting, Shown
  <2> QED BY <1>5, <2>1 DEF ListenerStarts, StartFor
<1>6. CASE Taps
  BY <1>6 DEF Taps, OnSignInTap, OnSignUpTap, SignOutTap, SignOutFails, DismissAlert
<1> QED BY <1>1, <1>2, <1>3, <1>4, <1>5, <1>6 DEF Ongoing, MainRuns
====
