-------------------------- MODULE CardResolverProofs --------------------------
(***************************************************************************)
(* A health check does not miss an answer that was there all along, for    *)
(* every set of schemes, Secrets, demands and cards and any number of      *)
(* moves.  SteadyAnswerFound speaks of the end of a check; what carries it *)
(* is what a check knows half way: the answers that have held since it     *)
(* began can still be had, and none of them is on a path already tried.    *)
(***************************************************************************)
EXTENDS CardResolver, TLAPS

SteadyHolds == steady \subseteq Answers(headers)

TriedInVain ==
    attempt = 2 => \A c \in Cards : <<"agent-card.json", c>> \notin steady

Inv ==
    /\ attempt \in 0..2
    /\ offers \in [Paths -> Cards \cup {NoCard}]
    /\ SteadyHolds
    /\ TriedInVain

(* The two paths, in order (resolver.go, 44-50). *)
LEMMA PathsInOrder ==
    /\ wellKnownPaths[1] = "agent-card.json"
    /\ wellKnownPaths[2] = "agent.json"
    /\ Len(wellKnownPaths) = 2
BY DEF wellKnownPaths

(* An answer to be had is the card that tryFetch gets from its path        *)
(* (resolver.go, 82-117).                                                  *)
LEMMA AnswersFetched ==
    ASSUME NEW header, NEW x \in Answers(header)
    PROVE  \E p \in Paths : /\ x = <<p, tryFetch(p, header)>>
                            /\ tryFetch(p, header) # NoCard
BY DEF Answers

(* Between two requests an answer that has held and is still to be had     *)
(* stays so; the rest is dropped from the history.                         *)
LEMMA MoveKeepsInv ==
    ASSUME Inv, Move
    PROVE  Inv'
<1>1. attempt' = attempt /\ headers' = headers
  BY DEF Move, checkVars
<1>2. offers' \in [Paths -> Cards \cup {NoCard}]
  BY DEF Move, Inv
<1>3. steady' \subseteq steady
  BY DEF Move
<1>4. SteadyHolds'
  BY DEF Move, SteadyHolds
<1> QED
  BY <1>1, <1>2, <1>3, <1>4 DEF Inv, TriedInVain

(* Every step of the check, of users, of the endpoint and of the informer  *)
(* keeps the invariant (resolver.go, 58-80).                               *)
LEMMA StepKeepsInv ==
    ASSUME Inv, [Next]_vars
    PROVE  Inv'
<1>1. CASE StartCheck
  <2>1. attempt' = 1 /\ offers' = offers /\ demand' = demand
    BY <1>1 DEF StartCheck, worldVars
  <2>2. Answers(headers') = Answers(headers)'
    BY <2>1 DEF Answers, tryFetch, Accepts
  <2> QED
    BY <1>1, <2>1, <2>2 DEF StartCheck, Inv, SteadyHolds, TriedInVain
<1>2. CASE TryPath
  <2> DEFINE card == tryFetch(wellKnownPaths[attempt], headers)
  <2>1. offers' = offers /\ demand' = demand
    BY <1>2 DEF TryPath, worldVars
  <2>2. CASE EndCheck(card)
    BY <2>1, <2>2 DEF EndCheck, Inv, SteadyHolds, TriedInVain
  <2>3. CASE /\ card = NoCard
             /\ attempt < Len(wellKnownPaths)
             /\ attempt' = attempt + 1
             /\ UNCHANGED <<copy, headers, result, steady>>
    <3>1. attempt = 1 /\ attempt' = 2
      BY <1>2, <2>3, PathsInOrder DEF Inv, TryPath
    <3>2. tryFetch("agent-card.json", headers) = NoCard
      BY <2>3, <3>1, PathsInOrder
    <3>3. ASSUME NEW c \in Cards, <<"agent-card.json", c>> \in steady
          PROVE  FALSE
      BY <3>2, <3>3, AnswersFetched DEF Inv, SteadyHolds
    <3>4. Answers(headers)' = Answers(headers)
      BY <2>1, <2>3 DEF Answers, tryFetch, Accepts
    <3> QED
      BY <2>1, <2>3, <3>1, <3>3, <3>4 DEF Inv, SteadyHolds, TriedInVain
  <2> QED
    BY <1>2, <2>2, <2>3 DEF TryPath
<1>3. CASE Move
  BY <1>3, MoveKeepsInv
<1>4. CASE GetAgent \/ DeliverAgent \/ DeliverSecret \/ UNCHANGED vars
  <2>1. /\ attempt' = attempt /\ headers' = headers /\ steady' = steady
        /\ offers' = offers /\ demand' = demand
    BY <1>4 DEF GetAgent, DeliverAgent, DeliverSecret, vars, checkVars, worldVars
  <2>2. Answers(headers)' = Answers(headers)
    BY <2>1 DEF Answers, tryFetch, Accepts
  <2> QED
    BY <2>1, <2>2 DEF Inv, SteadyHolds, TriedInVain
<1> QED
  BY <1>1, <1>2, <1>3, <1>4 DEF Next

(* Only TryPath ends a check, with what the path it asks answers now; by   *)
(* the invariant that is the steady answer if there is one                 *)
(* (resolver.go, 66-80).                                                   *)
LEMMA CheckEndsWell ==
    ASSUME Inv, Next, attempt # 0, attempt' = 0
    PROVE  /\ result' = NoCard => steady = {}
           /\ \A c \in Cards :
                  <<"agent-card.json", c>> \in steady => result' = c
<1> DEFINE card == tryFetch(wellKnownPaths[attempt], headers)
<1>1. /\ EndCheck(card)
      /\ card # NoCard \/ attempt = Len(wellKnownPaths)
  BY DEF Next, GetAgent, StartCheck, TryPath, Move, DeliverAgent, DeliverSecret,
         checkVars, Inv
<1>2. result' = card
  BY <1>1 DEF EndCheck
<1>3. ASSUME NEW c \in Cards, <<"agent-card.json", c>> \in steady
      PROVE  result' = c
  <2>1. attempt = 1
    BY <1>3 DEF Inv, TriedInVain
  <2>2. c = tryFetch("agent-card.json", headers)
    BY <1>3, AnswersFetched DEF Inv, SteadyHolds
  <2> QED
    BY <1>2, <2>1, <2>2, PathsInOrder
<1>4. ASSUME result' = NoCard, NEW x \in steady
      PROVE  FALSE
  <2>1. attempt = 2 /\ tryFetch("agent.json", headers) = NoCard
    BY <1>1, <1>2, <1>4, PathsInOrder
  <2>2. PICK p \in Paths : /\ x = <<p, tryFetch(p, headers)>>
                           /\ tryFetch(p, headers) # NoCard
    BY <1>4, AnswersFetched DEF Inv, SteadyHolds
  <2>3. p = "agent-card.json"
    BY <2>1, <2>2 DEF Paths
  <2>4. tryFetch(p, headers) \in Cards
    BY <2>2 DEF tryFetch, Inv
  <2> QED
    BY <1>4, <2>1, <2>2, <2>3, <2>4 DEF Inv, TriedInVain
<1> QED
  BY <1>3, <1>4

(* A path that would have answered throughout a health check is found, and *)
(* the preferred one's card is taken while it is served, whatever users    *)
(* and the endpoint do meanwhile (resolver.go, 66-80).                     *)
THEOREM SteadyAnswerTheorem == Spec => SteadyAnswerFound
<1>1. Init => Inv
  BY DEF Init, Inv, SteadyHolds, TriedInVain
<1>2. Inv /\ [Next]_vars => Inv'
  BY StepKeepsInv
<1>3. Inv /\ [Next]_vars =>
        [attempt # 0 /\ attempt' = 0 =>
            /\ result' = NoCard => steady = {}
            /\ \A c \in Cards :
                   <<"agent-card.json", c>> \in steady => result' = c]_vars
  BY CheckEndsWell
<1> QED
  BY <1>1, <1>2, <1>3, PTL DEF Spec, SteadyAnswerFound

=============================================================================
