-------------------------- MODULE EventLoopProofs ---------------------------
(***************************************************************************)
(* Proofs about EventLoop, for any rules on any descriptors and any        *)
(* callbacks that do not call add_rule() themselves.                       *)
(*                                                                         *)
(* Aligned speaks of the results loop only.  It holds there because the    *)
(* first loop leaves behind one pollfd for each rule it did not erase and  *)
(* because nothing adds a rule before the results are walked; Phases says  *)
(* so for each part of wait_next_event().                                  *)
(***************************************************************************)
EXTENDS EventLoop, SequenceTheorems, TLAPS

(* The pollfd p was set up for rule r.                                     *)
Match(p, r) == p.fd = RuleFd[r] /\ p.events \in {RuleDir[r], "None"}

(* poll(2) found the entry readable or writable.                           *)
Ready(p) == {"In", "Out"} \cap p.revents # {}

(* Of In and Out the entry reports only what was asked for.                *)
AsAsked(p) == {"In", "Out"} \cap p.revents \subseteq {p.events}

(* The types the argument needs.                                           *)
LoopTypeOK ==
  /\ rules \in Seq(Rule)
  /\ pollfds \in Seq(Pollfd)
  /\ it \in Nat \ {0} /\ idx \in Nat \ {0}
  /\ it <= Len(rules) + 1
  /\ pc \in {"idle", "setup", "poll", "results"}

(* How rules and pollfds pair up in each part of wait_next_event().        *)
Phases ==
  /\ pc = "idle" => pollfds = <<>> /\ it = 1 /\ idx = 1
  /\ pc = "setup" => /\ it = Len(pollfds) + 1 /\ idx = 1
                     /\ \A k \in 1 .. Len(pollfds) : Match(pollfds[k], rules[k])
  /\ pc = "poll" => /\ Len(rules) = Len(pollfds) /\ idx = 1
                    /\ \A k \in 1 .. Len(pollfds) : Match(pollfds[k], rules[k])
  /\ pc = "results" => /\ Len(rules) - it = Len(pollfds) - idx
                       /\ \A k \in 0 .. Len(rules) - it :
                            Match(pollfds[idx + k], rules[it + k])

LoopInv == LoopTypeOK /\ Phases

(* Erasing the rule at i (std::list::erase): those before it stay, those   *)
(* behind it move up by one.                                               *)
LEMMA RemoveAtProperties ==
  ASSUME NEW s \in Seq(Rule), NEW i \in 1 .. Len(s)
  PROVE  /\ RemoveAt(s, i) \in Seq(Rule)
         /\ Len(RemoveAt(s, i)) = Len(s) - 1
         /\ \A k \in 1 .. i - 1 : RemoveAt(s, i)[k] = s[k]
         /\ \A k \in i .. Len(s) - 1 : RemoveAt(s, i)[k] = s[k + 1]
<1> DEFINE front == SubSeq(s, 1, i - 1)
           back  == SubSeq(s, i + 1, Len(s))
<1>1. front \in Seq(Rule) /\ Len(front) = i - 1 /\ \A k \in 1 .. i - 1 : front[k] = s[k]
  OBVIOUS
<1>2. /\ back \in Seq(Rule) /\ Len(back) = Len(s) - i
      /\ \A k \in 1 .. Len(s) - i : back[k] = s[i + k]
  OBVIOUS
<1>3. RemoveAt(s, i) = front \o back
  BY DEF RemoveAt
<1> HIDE DEF front, back
<1>4. /\ front \o back \in Seq(Rule) /\ Len(front \o back) = Len(s) - 1
      /\ \A k \in 1 .. i - 1 : (front \o back)[k] = front[k]
      /\ \A k \in i .. Len(s) - 1 : (front \o back)[k] = back[k - i + 1]
  <2>1. /\ front \o back \in Seq(Rule) /\ Len(front \o back) = Len(front) + Len(back)
        /\ \A k \in 1 .. Len(front) + Len(back) :
             (front \o back)[k] = IF k <= Len(front) THEN front[k] ELSE back[k - Len(front)]
    BY <1>1, <1>2, ConcatProperties
  <2>2. Len(front) + Len(back) = Len(s) - 1 /\ Len(s) \in Nat
    BY <1>1, <1>2
  <2>3. ASSUME NEW k \in 1 .. i - 1 PROVE (front \o back)[k] = front[k]
    <3>1. k \in 1 .. Len(front) + Len(back) /\ k <= Len(front)
      BY <1>1, <2>2
    <3> QED BY <2>1, <3>1
  <2>4. ASSUME NEW k \in i .. Len(s) - 1 PROVE (front \o back)[k] = back[k - i + 1]
    <3>1. /\ k \in 1 .. Len(front) + Len(back) /\ ~ (k <= Len(front))
          /\ k - Len(front) = k - i + 1
      BY <1>1, <2>2
    <3> QED BY <2>1, <3>1
  <2> QED BY <2>1, <2>2, <2>3, <2>4
<1> QED BY <1>1, <1>2, <1>3, <1>4, SMTT(20)

(* An EventLoop is constructed without rules.                              *)
LEMMA InitLoopInv == Init => LoopInv
  BY DEF Init, LoopInv, LoopTypeOK, Phases

(* Leaving wait_next_event() clears its local variables.                   *)
LEMMA ReturnsKeepsLoopInv ==
  ASSUME NEW res, Returns(res), rules' \in Seq(Rule)
  PROVE  LoopInv'
  BY DEF Returns, LoopInv, LoopTypeOK, Phases

(* A step that leaves rules and loop positions alone keeps the invariant.  *)
LEMMA FrameKeepsLoopInv ==
  ASSUME LoopInv, UNCHANGED <<rules, pollfds, it, idx, pc>>
  PROVE  LoopInv'
  BY DEF LoopInv, LoopTypeOK, Phases, Match

(* The first loop: an erased rule gets no pollfd, every other gets one.    *)
LEMMA SetupKeepsLoopInv ==
  ASSUME LoopInv, SetupStep
  PROVE  LoopInv'
<1>1. CASE SetupErases
  <2>1. /\ pc' = pc /\ it' = it /\ idx' = idx /\ pollfds' = pollfds
        /\ rules' = RemoveAt(rules, it) /\ pc = "setup" /\ it \in 1 .. Len(rules)
    BY <1>1 DEF SetupErases, LoopInv, LoopTypeOK, loop
  <2>2. /\ rules' \in Seq(Rule) /\ Len(rules') = Len(rules) - 1
        /\ \A k \in 1 .. it - 1 : rules'[k] = rules[k]
    BY <2>1, RemoveAtProperties DEF LoopInv, LoopTypeOK
  <2>3. LoopTypeOK'
    BY <2>1, <2>2 DEF LoopInv, LoopTypeOK
  <2>4. Phases'
    BY <2>1, <2>2 DEF LoopInv, LoopTypeOK, Phases, Match
  <2> QED BY <2>3, <2>4 DEF LoopInv
<1>2. CASE SetupPushes
  <2> DEFINE r == rules[it]
             p == [fd |-> RuleFd[r], events |-> IF interest[r] THEN RuleDir[r] ELSE "None",
                   revents |-> {}]
  <2>1. /\ pc = "setup" /\ it \in 1 .. Len(rules) /\ r \in Rule
        /\ pc' = pc /\ idx' = idx /\ it' = it + 1 /\ rules' = rules
        /\ pollfds' = Append(pollfds, p)
    BY <1>2 DEF SetupPushes, LoopInv, LoopTypeOK, app
  <2>2. p \in Pollfd /\ Match(p, r)
    BY <2>1, EventLoopAssumption DEF Pollfd, Match
  <2> HIDE DEF p
  <2> QED BY <2>1, <2>2 DEF LoopInv, LoopTypeOK, Phases
<1>3. CASE SetupEnds
  <2>1. CASE Returns("Exit")
    BY <1>3, <2>1, ReturnsKeepsLoopInv DEF SetupEnds, LoopInv, LoopTypeOK, app
  <2>2. CASE pc' = "poll" /\ UNCHANGED <<it, idx, pollfds, rules>>
    BY <1>3, <2>2 DEF SetupEnds, LoopInv, LoopTypeOK, Phases, Match
  <2> QED BY <1>3, <2>1, <2>2 DEF SetupEnds, app
<1> QED BY <1>1, <1>2, <1>3 DEF SetupStep

(* poll(2) fills in revents and nothing else, and of In and Out it reports *)
(* only what was asked for.                                                *)
LEMMA PolledProperties ==
  ASSUME LoopInv
  PROVE  /\ Polled \in Seq(Pollfd) /\ Len(Polled) = Len(pollfds)
         /\ \A i \in 1 .. Len(pollfds) : /\ Polled[i].fd = pollfds[i].fd
                                         /\ Polled[i].events = pollfds[i].events
                                         /\ AsAsked(Polled[i])
<1>1. ASSUME NEW i \in 1 .. Len(pollfds)
      PROVE  /\ Polled[i] \in Pollfd
             /\ Polled[i].fd = pollfds[i].fd
             /\ Polled[i].events = pollfds[i].events
             /\ AsAsked(Polled[i])
  <2> DEFINE rev == Revents(pollfds[i].fd, pollfds[i].events)
  <2>1. rev \subseteq {"In", "Out", "HUP", "ERR", "NVAL"}
    BY Zenon DEF Revents
  <2>2. {"In", "Out"} \cap rev \subseteq {pollfds[i].events}
    BY DEF Revents
  <2>3. pollfds[i] \in Pollfd
    BY DEF LoopInv, LoopTypeOK
  <2>4. Polled[i] = [pollfds[i] EXCEPT !.revents = rev]
    BY Zenon DEF Polled
  <2> HIDE DEF rev
  <2> QED BY <2>1, <2>2, <2>3, <2>4 DEF Pollfd, AsAsked
<1>2. Len(pollfds) \in Nat
  BY DEF LoopInv, LoopTypeOK
<1>3. Polled \in [1 .. Len(pollfds) -> Pollfd]
  BY <1>1, Zenon DEF Polled
<1>4. Polled \in Seq(Pollfd) /\ Len(Polled) = Len(pollfds)
  BY <1>2, <1>3
<1> QED BY <1>1, <1>4

(* poll(2) leaves rules and pollfds paired.                                *)
LEMMA PollKeepsLoopInv ==
  ASSUME LoopInv, PollStep
  PROVE  LoopInv'
<1>1. CASE PollReports
  <2>3. /\ pc = "poll" /\ pc' = "results" /\ it' = 1 /\ idx' = 1
        /\ rules' = rules /\ pollfds' = Polled
    BY <1>1 DEF PollReports, StartResults, app
  <2> QED BY <2>3, PolledProperties DEF LoopInv, LoopTypeOK, Phases, Match
<1>2. CASE PollTimesOut
  BY <1>2, ReturnsKeepsLoopInv DEF PollTimesOut, LoopInv, LoopTypeOK, app
<1>3. CASE PollInterrupted
  BY <1>3, ReturnsKeepsLoopInv DEF PollInterrupted, LoopInv, LoopTypeOK, app
<1>4. CASE PollFails
  BY <1>4 DEF PollFails, StartResults, app, LoopInv, LoopTypeOK, Phases, Match
<1> QED BY <1>1, <1>2, <1>3, <1>4 DEF PollStep

(* Passing on from a rule to the next with the rules left alone.           *)
LEMMA AdvanceKeepsLoopInv ==
  ASSUME LoopInv, AtResult, Advance, rules' = rules
  PROVE  LoopInv'
<1>1. /\ pc = "results" /\ it \in 1 .. Len(rules)
      /\ pc' = pc /\ it' = it + 1 /\ idx' = idx + 1 /\ pollfds' = pollfds
  BY DEF AtResult, Advance, LoopInv, LoopTypeOK
<1>2. LoopTypeOK'
  BY <1>1 DEF LoopInv, LoopTypeOK
<1>3. \A k \in 0 .. Len(rules) - it' : it' + k = it + (k + 1) /\ idx' + k = idx + (k + 1)
  BY <1>1 DEF LoopInv, LoopTypeOK
<1>4. \A k \in 0 .. Len(rules) - it' : Match(pollfds[idx' + k], rules[it' + k])
  <2> TAKE k \in 0 .. Len(rules) - it'
  <2>1. k + 1 \in 0 .. Len(rules) - it
    BY <1>1 DEF LoopInv, LoopTypeOK
  <2>2. Match(pollfds[idx + (k + 1)], rules[it + (k + 1)])
    BY <1>1, <2>1 DEF LoopInv, Phases
  <2> QED BY <1>3, <2>2
<1> QED BY <1>1, <1>2, <1>4 DEF LoopInv, LoopTypeOK, Phases, Match

(* The results loop: erasing a rule moves on in pollfds only.              *)
LEMMA ResultsKeepLoopInv ==
  ASSUME LoopInv, ResultStep, ~ ReentrantAdd
  PROVE  LoopInv'
<1>1. ASSUME NEW p, ResultError(p) PROVE LoopInv'
  BY <1>1, ReturnsKeepsLoopInv DEF ResultError, Throws, LoopInv, LoopTypeOK, app
<1>2. ASSUME NEW p, ResultHungUp(p) PROVE LoopInv'
  <2>1. /\ pc = "results" /\ it \in 1 .. Len(rules) /\ rules' = RemoveAt(rules, it)
        /\ pc' = pc /\ it' = it /\ idx' = idx + 1 /\ pollfds' = pollfds
    BY <1>2 DEF ResultHungUp, AtResult, LoopInv, LoopTypeOK
  <2>2. /\ rules' \in Seq(Rule) /\ Len(rules') = Len(rules) - 1
        /\ \A k \in it .. Len(rules) - 1 : rules'[k] = rules[k + 1]
    BY <2>1, RemoveAtProperties DEF LoopInv, LoopTypeOK
  <2>3. LoopTypeOK'
    BY <2>1, <2>2 DEF LoopInv, LoopTypeOK
  <2>4. \A k \in 0 .. Len(rules') - it' :
           rules'[it' + k] = rules[it + (k + 1)] /\ idx' + k = idx + (k + 1)
    BY <2>1, <2>2 DEF LoopInv, LoopTypeOK
  <2>5. \A k \in 0 .. Len(rules') - it' : Match(pollfds'[idx' + k], rules'[it' + k])
    <3> TAKE k \in 0 .. Len(rules') - it'
    <3>1. k + 1 \in 0 .. Len(rules) - it
      BY <2>1, <2>2 DEF LoopInv, LoopTypeOK
    <3>2. Match(pollfds[idx + (k + 1)], rules[it + (k + 1)])
      BY <2>1, <3>1 DEF LoopInv, Phases
    <3> QED BY <2>1, <2>4, <3>2
  <2> QED BY <2>1, <2>2, <2>3, <2>5 DEF LoopInv, LoopTypeOK, Phases, Match
<1>3. ASSUME NEW p, ResultQuiet(p) PROVE LoopInv'
  BY <1>3, AdvanceKeepsLoopInv DEF ResultQuiet, app
<1>4. ASSUME NEW p, ResultCallback(p) PROVE LoopInv'
  <2> PICK serviced \in BOOLEAN, C \in AtMostOneFd :
        CallbackBody(rules[it], serviced, C) /\ AfterCallback(serviced)
    BY <1>4 DEF ResultCallback
  <2>1. rules' = rules
    BY DEF CallbackBody, AddableInCallback
  <2>2. CASE Throws
    BY <2>1, <2>2, ReturnsKeepsLoopInv DEF Throws, LoopInv, LoopTypeOK
  <2>3. CASE Advance
    BY <1>4, <2>1, <2>3, AdvanceKeepsLoopInv DEF ResultCallback
  <2> QED BY <2>2, <2>3 DEF AfterCallback
<1>5. ASSUME NEW p, ResultCallbackThrows(p) PROVE LoopInv'
  BY <1>5, ReturnsKeepsLoopInv DEF ResultCallbackThrows, Throws, LoopInv, LoopTypeOK, app
<1>6. CASE ResultsEnd
  BY <1>6, ReturnsKeepsLoopInv DEF ResultsEnd, LoopInv, LoopTypeOK, app
<1> QED BY <1>1, <1>2, <1>3, <1>4, <1>5, <1>6 DEF ResultStep

(* Every step keeps the pairing.                                           *)
LEMMA NextKeepsLoopInv ==
  ASSUME LoopInv, [Next]_vars, ~ ReentrantAdd
  PROVE  LoopInv'
<1>1. CASE Environment
  BY <1>1, FrameKeepsLoopInv
     DEF Environment, Arrive, PeerEnds, HangUp, Breaks, Drains, app, loop
<1>2. ASSUME NEW r \in Rule, add_rule(r) PROVE LoopInv'
  BY <1>2 DEF add_rule, loop, LoopInv, LoopTypeOK, Phases
<1>3. ASSUME NEW r \in Rule, InterestChanges(r) PROVE LoopInv'
  BY <1>3, FrameKeepsLoopInv DEF InterestChanges, loop
<1>4. CASE Call
  BY <1>4 DEF Call, app, LoopInv, LoopTypeOK, Phases
<1>5. CASE UNCHANGED vars
  BY <1>5, FrameKeepsLoopInv DEF vars, app, loop
<1> QED
  BY <1>1, <1>2, <1>3, <1>4, <1>5, SetupKeepsLoopInv, PollKeepsLoopInv, ResultsKeepLoopInv
     DEF Next

(* The pairing holds throughout, if no callback calls add_rule().          *)
LEMMA LoopInvHolds ==
  ASSUME ~ ReentrantAdd
  PROVE  Spec => []LoopInv
<1>1. LoopInv /\ [Next]_vars => LoopInv'
  BY NextKeepsLoopInv
<1> QED BY <1>1, InitLoopInv, PTL DEF Spec

(* However many rules are erased in either loop of wait_next_event(), and  *)
(* whatever the callbacks close or change, the rule visited in the results *)
(* loop and the poll result consulted for it belong together, provided no  *)
(* callback calls add_rule().                                              *)
THEOREM Pairing ==
  ASSUME ~ ReentrantAdd
  PROVE  Spec => []Aligned
<1>1. LoopInv => Aligned
  BY DEF LoopInv, Phases, Aligned, Match
<1> QED BY <1>1, LoopInvHolds, PTL

(* Under the same proviso pollfds[idx] in the results loop is never read   *)
(* beyond the end of the vector; eventloop.cc:66 promises "the pollfd for  *)
(* each rule".                                                             *)
THEOREM NoReadPastPollfds ==
  ASSUME ~ ReentrantAdd
  PROVE  Spec => []EachRuleHasPollfd
<1>1. LoopInv => EachRuleHasPollfd
  BY DEF LoopInv, LoopTypeOK, Phases, EachRuleHasPollfd
<1> QED BY <1>1, LoopInvHolds, PTL
-----------------------------------------------------------------------------
(* Why the results loop serves every ready rule and no other.              *)

(* Before poll(2) nothing is due and no entry has a result.  In the        *)
(* results loop, what is due and not yet called lies ahead, and what lies  *)
(* ahead and is ready is due.                                              *)
Served ==
  /\ pc # "idle" => result = "None"
  /\ pc # "results" => due = {} /\ called = {}
  /\ pc \in {"setup", "poll"} =>
       \A k \in 1 .. Len(pollfds) : pollfds[k].revents = {}
  /\ pc = "results" =>
       /\ called \subseteq due
       /\ \A k \in 0 .. Len(rules) - it :
            /\ AsAsked(pollfds[idx + k])
            /\ Ready(pollfds[idx + k]) => rules[it + k] \in due
       /\ \A r \in due \ called :
            \E k \in 0 .. Len(rules) - it :
               r = rules[it + k] /\ Ready(pollfds[idx + k])

(* Nothing is due before the first call.                                   *)
LEMMA InitServed == Init => Served
  BY DEF Init, Served

(* Leaving wait_next_event() clears the round's history.                   *)
LEMMA ReturnsKeepsServed ==
  ASSUME NEW res, Returns(res)
  PROVE  Served'
  BY DEF Returns, Served

(* Steps that touch neither loop state nor rules keep Served.              *)
LEMMA FrameKeepsServed ==
  ASSUME Served, UNCHANGED <<rules, pollfds, it, idx, pc, result, due, called>>
  PROVE  Served'
  BY DEF Served, AsAsked, Ready

(* Outside the results loop Served speaks only of pollfds and histories.   *)
LEMMA SetupKeepsServed ==
  ASSUME LoopInv, Served, SetupStep
  PROVE  Served'
<1>1. CASE SetupErases
  BY <1>1 DEF SetupErases, loop, Served
<1>2. CASE SetupPushes
  <2> DEFINE r == rules[it]
             p == [fd |-> RuleFd[r], events |-> IF interest[r] THEN RuleDir[r] ELSE "None",
                   revents |-> {}]
  <2>1. /\ pc = "setup" /\ it \in 1 .. Len(rules) /\ r \in Rule
        /\ pc' = pc /\ result' = result /\ due' = due /\ called' = called
        /\ pollfds' = Append(pollfds, p)
    BY <1>2 DEF SetupPushes, LoopInv, LoopTypeOK
  <2>2. p \in Pollfd /\ p.revents = {}
    BY <2>1, EventLoopAssumption DEF Pollfd
  <2> HIDE DEF p
  <2>3. pollfds' \in Seq(Pollfd) /\ Len(pollfds') = Len(pollfds) + 1
    BY <2>1, <2>2 DEF LoopInv, LoopTypeOK
  <2>4. \A k \in 1 .. Len(pollfds') : pollfds'[k].revents = {}
    BY <2>1, <2>2 DEF Served, LoopInv, LoopTypeOK
  <2> QED BY <2>1, <2>4 DEF Served
<1>3. CASE SetupEnds
  BY <1>3, ReturnsKeepsServed DEF SetupEnds, Served
<1> QED BY <1>1, <1>2, <1>3 DEF SetupStep

(* poll(2): what it finds ready becomes due; if it fails nothing does.     *)
LEMMA PollKeepsServed ==
  ASSUME LoopInv, Served, PollStep
  PROVE  Served'
<1>1. CASE PollReports
  <2>1. /\ pc = "poll" /\ pc' = "results" /\ it' = 1 /\ idx' = 1
        /\ rules' = rules /\ result' = result /\ pollfds' = Polled /\ called' = {}
        /\ due' = {rules[i] : i \in {j \in 1 .. Len(Polled) : Ready(Polled[j])}}
    BY <1>1 DEF PollReports, StartResults, app, Served, Ready
  <2>2. Len(Polled) = Len(pollfds) /\ Len(pollfds) = Len(rules) /\ Len(pollfds) \in Nat
    BY <2>1, PolledProperties DEF LoopInv, LoopTypeOK, Phases
  <2>3. \A i \in 1 .. Len(pollfds) : AsAsked(Polled[i])
    BY PolledProperties
  <2>4. \A k \in 0 .. Len(rules) - 1 : 1 + k \in 1 .. Len(pollfds)
    BY <2>2
  <2>5. \A k \in 0 .. Len(rules) - 1 :
           AsAsked(Polled[1 + k]) /\ (Ready(Polled[1 + k]) => rules[1 + k] \in due')
    BY <2>1, <2>2, <2>3, <2>4, Zenon
  <2>6. ASSUME NEW r \in due'
        PROVE  \E k \in 0 .. Len(rules) - 1 : r = rules[1 + k] /\ Ready(Polled[1 + k])
    <3>1. PICK i \in 1 .. Len(Polled) : Ready(Polled[i]) /\ r = rules[i]
      BY <2>1, <2>6, Zenon
    <3>2. i - 1 \in 0 .. Len(rules) - 1 /\ 1 + (i - 1) = i
      BY <2>2
    <3> QED BY <3>1, <3>2
  <2> QED BY <2>1, <2>5, <2>6 DEF Served
<1>2. CASE PollTimesOut
  BY <1>2, ReturnsKeepsServed DEF PollTimesOut
<1>3. CASE PollInterrupted
  BY <1>3, ReturnsKeepsServed DEF PollInterrupted
<1>4. CASE PollFails
  <2>1. /\ pc = "poll" /\ pc' = "results" /\ it' = 1 /\ idx' = 1
        /\ rules' = rules /\ pollfds' = pollfds /\ result' = result /\ due' = {} /\ called' = {}
    BY <1>4 DEF PollFails, StartResults, app, Served
  <2>2. \A k \in 0 .. Len(rules) - 1 : pollfds[1 + k].revents = {}
    BY <2>1 DEF LoopInv, LoopTypeOK, Phases, Served
  <2> QED BY <2>1, <2>2 DEF Served, AsAsked, Ready
<1> QED BY <1>1, <1>2, <1>3, <1>4 DEF PollStep

(* One entry is passed over: either it was not ready, or its rule has been *)
(* called back.  The rules ahead are the same in both, one entry on.       *)
LEMMA PassingKeepsServed ==
  ASSUME LoopInv, Served, AtResult,
         pc' = pc, result' = result, pollfds' = pollfds, due' = due, idx' = idx + 1,
         Len(rules') - it' = Len(rules) - it - 1,
         \A k \in 0 .. Len(rules') - it' : rules'[it' + k] = rules[it + (k + 1)],
         \/ ~ Ready(pollfds[idx]) /\ called' = called
         \/ Ready(pollfds[idx]) /\ called' = called \cup {rules[it]}
  PROVE  Served'
<1> DEFINE n == Len(rules) - it
<1>1. /\ pc = "results" /\ n \in Nat /\ it \in Nat /\ idx \in Nat
      /\ idx + 0 = idx /\ it + 0 = it /\ 0 \in 0 .. n
  BY DEF AtResult, LoopInv, LoopTypeOK
<1>2. ASSUME NEW k \in 0 .. n - 1
      PROVE  k + 1 \in 0 .. n /\ idx' + k = idx + (k + 1)
  BY <1>1
<1>3. called' \subseteq due'
  <2>1. Ready(pollfds[idx]) => rules[it] \in due
    BY <1>1 DEF Served
  <2> QED BY <1>1, <2>1 DEF Served
<1>4. ASSUME NEW k \in 0 .. n - 1
      PROVE  AsAsked(pollfds'[idx' + k]) /\ (Ready(pollfds'[idx' + k]) => rules'[it' + k] \in due')
  <2>1. /\ AsAsked(pollfds[idx + (k + 1)])
        /\ Ready(pollfds[idx + (k + 1)]) => rules[it + (k + 1)] \in due
    BY <1>1, <1>2 DEF Served
  <2> QED BY <1>2, <2>1
<1>5. ASSUME NEW r \in due' \ called'
      PROVE  \E k \in 0 .. n - 1 : r = rules'[it' + k] /\ Ready(pollfds'[idx' + k])
  <2>1. PICK j \in 0 .. n : r = rules[it + j] /\ Ready(pollfds[idx + j])
    BY <1>1, <1>5 DEF Served
  <2>2. j # 0
    BY <1>1, <1>5, <2>1
  <2>3. j - 1 \in 0 .. n - 1 /\ (j - 1) + 1 = j
    BY <1>1, <2>2
  <2> QED BY <1>2, <2>1, <2>3
<1> QED BY <1>1, <1>3, <1>4, <1>5 DEF Served

(* The entry the results loop looks at is inside the vector, and is ready  *)
(* for its rule exactly if poll(2) reported In or Out.                     *)
LEMMA EntryProperties ==
  ASSUME LoopInv, Served, AtResult, NEW p \in EntriesAt(idx)
  PROVE  p = pollfds[idx] /\ (poll_ready(p) <=> Ready(p))
<1>1. /\ pc = "results" /\ idx <= Len(pollfds) /\ 0 \in 0 .. Len(rules) - it
      /\ idx + 0 = idx /\ it + 0 = it /\ it \in 1 .. Len(rules)
  BY DEF AtResult, LoopInv, LoopTypeOK, Phases
<1>2. p = pollfds[idx]
  BY <1>1 DEF EntriesAt
<1>3. AsAsked(p) /\ Match(p, rules[it])
  BY <1>1, <1>2 DEF Served, LoopInv, Phases
<1>4. p.revents \subseteq {"In", "Out", "HUP", "ERR", "NVAL"}
  <2>1. pollfds[idx] \in Pollfd
    BY <1>1 DEF LoopInv, LoopTypeOK
  <2> QED BY <1>2, <2>1 DEF Pollfd
<1>5. RuleDir[rules[it]] \in {"In", "Out"}
  BY <1>1, EventLoopAssumption DEF LoopInv, LoopTypeOK
<1> QED BY <1>2, <1>3, <1>4, <1>5 DEF AsAsked, Match, poll_ready, Ready

(* Each iteration of the results loop keeps Served.                        *)
LEMMA ResultsKeepServed ==
  ASSUME LoopInv, Served, ResultStep, ~ ReentrantAdd
  PROVE  Served'
<1>1. ASSUME NEW p, ResultError(p) PROVE Served'
  BY <1>1, ReturnsKeepsServed DEF ResultError, Throws
<1>2. ASSUME NEW p \in EntriesAt(idx), ResultHungUp(p) PROVE Served'
  <2>1. /\ AtResult /\ it \in 1 .. Len(rules) /\ rules' = RemoveAt(rules, it)
        /\ pc' = pc /\ it' = it /\ idx' = idx + 1 /\ pollfds' = pollfds
        /\ result' = result /\ due' = due /\ called' = called /\ ~ poll_ready(p)
    BY <1>2 DEF ResultHungUp, HungUp, AtResult, LoopInv, LoopTypeOK
  <2>2. /\ Len(rules') = Len(rules) - 1
        /\ \A k \in it .. Len(rules) - 1 : rules'[k] = rules[k + 1]
    BY <2>1, RemoveAtProperties DEF LoopInv, LoopTypeOK
  <2>3. /\ Len(rules') - it' = Len(rules) - it - 1
        /\ \A k \in 0 .. Len(rules') - it' : rules'[it' + k] = rules[it + (k + 1)]
    <3>1. Len(rules) \in Nat /\ it \in Nat
      BY DEF LoopInv, LoopTypeOK
    <3>2. \A k \in 0 .. Len(rules') - it' :
             it + k \in it .. Len(rules) - 1 /\ (it + k) + 1 = it + (k + 1)
      BY <2>1, <2>2, <3>1
    <3> QED BY <2>1, <2>2, <3>1, <3>2
  <2>4. ~ Ready(pollfds[idx])
    BY <2>1, EntryProperties
  <2> QED BY <2>1, <2>3, <2>4, PassingKeepsServed
<1>3. ASSUME AtResult, Advance, rules' = rules
      PROVE  /\ pc' = pc /\ result' = result /\ pollfds' = pollfds /\ due' = due /\ idx' = idx + 1
             /\ Len(rules') - it' = Len(rules) - it - 1
             /\ \A k \in 0 .. Len(rules') - it' : rules'[it' + k] = rules[it + (k + 1)]
  BY <1>3 DEF Advance, LoopInv, LoopTypeOK
<1>4. ASSUME NEW p \in EntriesAt(idx), ResultQuiet(p) PROVE Served'
  <2>1. AtResult /\ Advance /\ rules' = rules /\ called' = called /\ ~ poll_ready(p)
    BY <1>4 DEF ResultQuiet, app
  <2>2. ~ Ready(pollfds[idx])
    BY <2>1, EntryProperties
  <2> QED BY <1>3, <2>1, <2>2, PassingKeepsServed
<1>5. ASSUME NEW p \in EntriesAt(idx), ResultCallback(p) PROVE Served'
  <2> PICK serviced \in BOOLEAN, C \in AtMostOneFd :
        CallbackBody(rules[it], serviced, C) /\ AfterCallback(serviced)
    BY <1>5 DEF ResultCallback
  <2>1. CASE Throws
    BY <2>1, ReturnsKeepsServed DEF Throws
  <2>2. CASE Advance /\ called' = called \cup {rules[it]}
    <3>1. AtResult /\ poll_ready(p) /\ rules' = rules
      BY <1>5 DEF ResultCallback, CallbackBody, AddableInCallback
    <3>2. Ready(pollfds[idx])
      BY <3>1, EntryProperties
    <3> QED BY <1>3, <2>2, <3>1, <3>2, PassingKeepsServed
  <2> QED BY <2>1, <2>2 DEF AfterCallback
<1>6. ASSUME NEW p, ResultCallbackThrows(p) PROVE Served'
  BY <1>6, ReturnsKeepsServed DEF ResultCallbackThrows, Throws
<1>7. CASE ResultsEnd
  BY <1>7, ReturnsKeepsServed DEF ResultsEnd
<1> QED BY <1>1, <1>2, <1>4, <1>5, <1>6, <1>7 DEF ResultStep

(* Every step keeps Served.                                                *)
LEMMA NextKeepsServed ==
  ASSUME LoopInv, Served, [Next]_vars, ~ ReentrantAdd
  PROVE  Served'
<1>1. CASE Environment
  BY <1>1, FrameKeepsServed
     DEF Environment, Arrive, PeerEnds, HangUp, Breaks, Drains, app, loop
<1>2. ASSUME NEW r \in Rule, add_rule(r) PROVE Served'
  BY <1>2 DEF add_rule, loop, Served
<1>3. ASSUME NEW r \in Rule, InterestChanges(r) PROVE Served'
  BY <1>3, FrameKeepsServed DEF InterestChanges, loop
<1>4. CASE Call
  BY <1>4 DEF Call, app, Served, LoopInv, LoopTypeOK, Phases
<1>5. CASE UNCHANGED vars
  BY <1>5, FrameKeepsServed DEF vars, app, loop
<1> QED
  BY <1>1, <1>2, <1>3, <1>4, <1>5, SetupKeepsServed, PollKeepsServed, ResultsKeepServed
     DEF Next

(* Result::Success means that the callbacks called in this round are those *)
(* of exactly the rules poll(2) found ready, however many rules were       *)
(* erased on the way, provided no callback calls add_rule().               *)
THEOREM AllReadyServed ==
  ASSUME ~ ReentrantAdd
  PROVE  Spec => ReadyServed
<1>1. Served /\ LoopInv /\ [Next]_vars => Served'
  BY NextKeepsServed
<1>2. LoopInv /\ Served /\ [Next]_vars
        => [pc = "results" /\ result' = "Success" => called = due]_vars
  <2> SUFFICES ASSUME LoopInv, Served, [Next]_vars, pc = "results", result' = "Success",
                      ~ UNCHANGED vars
               PROVE  called = due
    OBVIOUS
  <2>1. ResultsEnd
    <3>1. ~ Environment /\ ~ SetupStep /\ ~ PollStep /\ ~ Call
      BY DEF Environment, Arrive, PeerEnds, HangUp, Breaks, Drains, loop, Served, Call,
             SetupStep, SetupErases, SetupPushes, SetupEnds,
             PollStep, PollReports, PollTimesOut, PollInterrupted, PollFails
    <3>2. ASSUME NEW r \in Rule PROVE ~ add_rule(r) /\ ~ InterestChanges(r)
      BY DEF add_rule, InterestChanges
    <3>3. ASSUME NEW p
          PROVE  ~ ResultError(p) /\ ~ ResultHungUp(p) /\ ~ ResultQuiet(p)
                 /\ ~ ResultCallback(p) /\ ~ ResultCallbackThrows(p)
      BY DEF Served, ResultError, ResultHungUp, ResultQuiet, ResultCallback,
             ResultCallbackThrows, AfterCallback, Advance, Throws, Returns
    <3> QED BY <3>1, <3>2, <3>3 DEF Next, ResultStep
  <2>2. Len(rules) - it < 0
    BY <2>1 DEF ResultsEnd, LoopInv, LoopTypeOK
  <2>3. \A k \in 0 .. Len(rules) - it : FALSE
    BY <2>2 DEF LoopInv, LoopTypeOK
  <2> QED BY <2>3 DEF Served
<1> QED BY <1>1, <1>2, InitServed, LoopInvHolds, PTL DEF Spec, ReadyServed
-----------------------------------------------------------------------------
(* Types.                                                                  *)

(* The rules of an application are distinct: in terms of positions.        *)
LEMMA Distinct ==
  ASSUME NEW s \in Seq(Rule)
  PROVE  /\ IsInjective(s) <=> \A i, j \in 1 .. Len(s) : s[i] = s[j] => i = j
         /\ Range(s) = {s[i] : i \in 1 .. Len(s)}
  BY DEF IsInjective, Range

(* Erasing a rule keeps the others distinct, and takes out that rule only. *)
LEMMA ErasingOne ==
  ASSUME NEW s \in Seq(Rule), IsInjective(s), NEW i \in 1 .. Len(s)
  PROVE  /\ IsInjective(RemoveAt(s, i))
         /\ Range(s) \ Range(RemoveAt(s, i)) \subseteq {s[i]}
<1> DEFINE t == RemoveAt(s, i)
           from(k) == IF k < i THEN k ELSE k + 1
<1>1. /\ t \in Seq(Rule) /\ Len(t) = Len(s) - 1
      /\ \A k \in 1 .. i - 1 : t[k] = s[k]
      /\ \A k \in i .. Len(s) - 1 : t[k] = s[k + 1]
  BY RemoveAtProperties
<1> HIDE DEF t
<1>2. Len(s) \in Nat /\ i \in Nat
  OBVIOUS
<1>3. ASSUME NEW k \in 1 .. Len(t)
      PROVE  from(k) \in 1 .. Len(s) /\ t[k] = s[from(k)]
  <2>1. CASE k < i
    <3>1. k \in 1 .. i - 1
      BY <2>1, <1>2
    <3> QED BY <2>1, <3>1, <1>1, <1>2
  <2>2. CASE ~ (k < i)
    <3>1. k \in i .. Len(s) - 1
      BY <2>2, <1>1, <1>2
    <3> QED BY <2>2, <3>1, <1>1, <1>2
  <2> QED BY <2>1, <2>2
<1>4. IsInjective(t)
  <2> SUFFICES ASSUME NEW j \in 1 .. Len(t), NEW k \in 1 .. Len(t), t[j] = t[k]
               PROVE  j = k
    BY <1>1, Distinct
  <2>1. from(j) = from(k)
    <3>1. /\ from(j) \in 1 .. Len(s) /\ t[j] = s[from(j)]
          /\ from(k) \in 1 .. Len(s) /\ t[k] = s[from(k)]
      BY <1>3
    <3> HIDE DEF from
    <3> QED BY <3>1, Distinct
  <2> QED BY <2>1, <1>1, <1>2
<1>5. Range(s) \ Range(t) \subseteq {s[i]}
  <2> SUFFICES ASSUME NEW r \in Range(s), r # s[i]
               PROVE  r \in Range(t)
    OBVIOUS
  <2>1. PICK j \in 1 .. Len(s) : r = s[j]
    BY Distinct
  <2>2. j # i
    BY <2>1
  <2>3. CASE j < i
    <3>1. j \in 1 .. i - 1 /\ j \in 1 .. Len(t)
      BY <2>3, <1>1, <1>2
    <3> QED BY <2>1, <3>1, <1>1, Distinct
  <2>4. CASE j > i
    <3>1. j - 1 \in i .. Len(s) - 1 /\ j - 1 \in 1 .. Len(t) /\ (j - 1) + 1 = j
      BY <2>4, <1>1, <1>2
    <3>2. t[j - 1] = s[j]
      BY <3>1, <1>1
    <3>3. Range(t) = {t[k] : k \in 1 .. Len(t)}
      BY <1>1, Distinct
    <3> QED BY <2>1, <3>1, <3>2, <3>3
  <2> QED BY <2>2, <2>3, <2>4, <1>2
<1> QED BY <1>4, <1>5 DEF t

(* The types that LoopTypeOK leaves out.                                   *)
AppTypeOK ==
  /\ interest \in [Rule -> BOOLEAN]
  /\ eof \in [Fd -> BOOLEAN] /\ closed \in [Fd -> BOOLEAN]
KernelTypeOK ==
  /\ inq \in [Fd -> 0 .. MaxIn]
  /\ fin \in [Fd -> BOOLEAN] /\ hup \in [Fd -> BOOLEAN]
  /\ err \in [Fd -> BOOLEAN] /\ out \in [Fd -> BOOLEAN]
CallTypeOK ==
  /\ result \in {"None", "Success", "Timeout", "Exit", "Throw"}
  /\ poll \in {"none", "ready", "error"}
  /\ due \subseteq Rule /\ called \subseteq Rule

RestTypeOK == IsInjective(rules) /\ AppTypeOK /\ KernelTypeOK /\ CallTypeOK

(* Initially.                                                              *)
LEMMA InitRestTypeOK == Init => RestTypeOK
<1> SUFFICES ASSUME Init PROVE RestTypeOK
  OBVIOUS
<1>1. IsInjective(rules)
  BY DEF Init, IsInjective
<1>2. AppTypeOK
  BY DEF Init, AppTypeOK
<1>3. KernelTypeOK
  BY EventLoopAssumption DEF Init, KernelTypeOK
<1>4. CallTypeOK
  BY DEF Init, CallTypeOK
<1> QED BY <1>1, <1>2, <1>3, <1>4 DEF RestTypeOK

(* Returning from wait_next_event().                                       *)
LEMMA ReturnsCallTypeOK ==
  ASSUME NEW res \in {"Success", "Timeout", "Exit", "Throw"}, Returns(res)
  PROVE  CallTypeOK'
  BY DEF Returns, CallTypeOK

(* A cancel callback.                                                      *)
LEMMA CancelAppTypeOK ==
  ASSUME AppTypeOK, cancel
  PROVE  AppTypeOK'
<1>1. interest' \in [Rule -> BOOLEAN]
  BY DEF cancel, AppTypeOK
<1>2. PICK C \in AtMostOneFd : Closing(C) /\ eof' = [f \in Fd |-> eof[f] \/ f \in C]
  BY DEF cancel
<1>3. eof' \in [Fd -> BOOLEAN] /\ closed' \in [Fd -> BOOLEAN]
  BY <1>2 DEF Closing
<1> QED BY <1>1, <1>3 DEF AppTypeOK

(* A callback.                                                             *)
LEMMA CallbackTypeOK ==
  ASSUME AppTypeOK, KernelTypeOK, NEW r \in Rule, NEW serviced \in BOOLEAN,
         NEW C \in AtMostOneFd, CallbackBody(r, serviced, C)
  PROVE  AppTypeOK' /\ KernelTypeOK'
<1> DEFINE f == RuleFd[r]
           reads == serviced /\ RuleDir[r] = "In"
<1>1. f \in Fd
  BY EventLoopAssumption
<1>2. AppTypeOK'
  <2>1. eof' = [g \in Fd |-> eof[g] \/ g \in C \/ (reads /\ g = f /\ inq[f] = 0)]
    BY DEF CallbackBody
  <2>2. eof' \in [Fd -> BOOLEAN]
    BY <2>1
  <2>3. closed' \in [Fd -> BOOLEAN] /\ interest' \in [Rule -> BOOLEAN]
    BY DEF CallbackBody, Closing
  <2> QED BY <2>2, <2>3 DEF AppTypeOK
<1>3. inq' \in [Fd -> 0 .. MaxIn]
  <2>1. inq' = [inq EXCEPT ![f] = IF reads /\ @ > 0 THEN @ - 1 ELSE @]
    BY DEF CallbackBody
  <2>2. inq[f] \in 0 .. MaxIn
    BY <1>1 DEF KernelTypeOK
  <2>3. (IF reads /\ inq[f] > 0 THEN inq[f] - 1 ELSE inq[f]) \in 0 .. MaxIn
    BY <2>2, EventLoopAssumption
  <2> QED BY <2>1, <2>3, <1>1 DEF KernelTypeOK
<1>4. out' \in [Fd -> BOOLEAN]
  <2>1. PICK room \in BOOLEAN :
          out' = [out EXCEPT ![f] = IF serviced /\ RuleDir[r] = "Out" THEN room ELSE @]
    BY DEF CallbackBody
  <2> QED BY <2>1, <1>1 DEF KernelTypeOK
<1> QED BY <1>2, <1>3, <1>4 DEF CallbackBody, KernelTypeOK

(* Every step keeps the types.                                             *)
LEMMA NextRestTypeOK ==
  ASSUME LoopInv, RestTypeOK, [Next]_vars, ~ ReentrantAdd
  PROVE  RestTypeOK'
<1> USE DEF RestTypeOK
<1>1. CASE Environment
  <2>1. PICK f \in Fd : Arrive(f) \/ PeerEnds(f) \/ HangUp(f) \/ Breaks(f) \/ Drains(f)
    BY <1>1 DEF Environment
  <2>2. UNCHANGED <<app, loop>>
    BY <2>1 DEF Arrive, PeerEnds, HangUp, Breaks, Drains
  <2>3. KernelTypeOK'
    <3>1. CASE Arrive(f)
      <4>1. inq[f] + 1 \in 0 .. MaxIn
        BY <3>1, EventLoopAssumption DEF Arrive, KernelTypeOK
      <4> QED BY <3>1, <4>1 DEF Arrive, KernelTypeOK
    <3>2. CASE ~ Arrive(f)
      BY <2>1, <3>2 DEF PeerEnds, HangUp, Breaks, Drains, KernelTypeOK
    <3> QED BY <3>1, <3>2
  <2> QED BY <2>2, <2>3 DEF app, loop, AppTypeOK, CallTypeOK
<1>2. ASSUME NEW r \in Rule, add_rule(r) PROVE RestTypeOK'
  <2>1. IsInjective(rules')
    <3>1. rules \in Seq(Rule) /\ rules' = Append(rules, r) /\ r \notin Range(rules)
      BY <1>2 DEF add_rule, LoopInv, LoopTypeOK
    <3>2. /\ rules' \in Seq(Rule) /\ Len(rules') = Len(rules) + 1 /\ Len(rules) \in Nat
          /\ \A i \in 1 .. Len(rules) : rules'[i] = rules[i] /\ rules'[i] # r
          /\ rules'[Len(rules) + 1] = r
      BY <3>1, AppendProperties, Distinct
    <3>3. \A i, j \in 1 .. Len(rules) : rules[i] = rules[j] => i = j
      BY <3>1, Distinct
    <3>4. \A i \in 1 .. Len(rules') : i \in 1 .. Len(rules) \/ i = Len(rules) + 1
      BY <3>2
    <3> QED BY <3>2, <3>3, <3>4, Distinct
  <2> QED BY <1>2, <2>1 DEF add_rule, loop, kernel, AppTypeOK, KernelTypeOK, CallTypeOK
<1>3. ASSUME NEW r \in Rule, InterestChanges(r) PROVE RestTypeOK'
  BY <1>3 DEF InterestChanges, loop, kernel, AppTypeOK, KernelTypeOK, CallTypeOK
<1>4. CASE Call
  BY <1>4 DEF Call, app, kernel, AppTypeOK, KernelTypeOK, CallTypeOK
<1>5. CASE UNCHANGED vars
  BY <1>5 DEF vars, app, kernel, loop, AppTypeOK, KernelTypeOK, CallTypeOK
<1>6. ASSUME it \in 1 .. Len(rules), rules' = RemoveAt(rules, it), cancel,
             UNCHANGED <<kernel, result, poll, due, called>>
      PROVE  RestTypeOK'
  <2>1. IsInjective(rules')
    BY <1>6, ErasingOne DEF LoopInv, LoopTypeOK
  <2> QED BY <1>6, <2>1, CancelAppTypeOK DEF kernel, KernelTypeOK, CallTypeOK
<1>7. ASSUME NEW res \in {"Success", "Timeout", "Exit", "Throw"}, Returns(res),
             UNCHANGED <<app, kernel>>
      PROVE  RestTypeOK'
  BY <1>7, ReturnsCallTypeOK DEF app, kernel, AppTypeOK, KernelTypeOK
<1>8. CASE SetupStep
  <2>1. CASE SetupErases
    BY <1>6, <2>1 DEF SetupErases, loop, LoopInv, LoopTypeOK
  <2>2. CASE SetupPushes
    BY <2>2 DEF SetupPushes, app, kernel, AppTypeOK, KernelTypeOK, CallTypeOK
  <2>3. CASE SetupEnds
    BY <1>7, <2>3 DEF SetupEnds, app, kernel, AppTypeOK, KernelTypeOK, CallTypeOK
  <2> QED BY <1>8, <2>1, <2>2, <2>3 DEF SetupStep
<1>9. CASE PollStep
  <2>1. CASE PollReports
    <3>1. due' \subseteq Rule
      <4>1. Len(Polled) = Len(rules)
        BY <2>1, PolledProperties DEF PollReports, LoopInv, Phases
      <4>2. \A i \in 1 .. Len(rules) : rules[i] \in Rule
        BY DEF LoopInv, LoopTypeOK
      <4> QED BY <2>1, <4>1, <4>2 DEF PollReports
    <3> QED BY <2>1, <3>1 DEF PollReports, app, kernel, AppTypeOK, KernelTypeOK, CallTypeOK
  <2>2. CASE PollFails
    BY <2>2 DEF PollFails, app, kernel, AppTypeOK, KernelTypeOK, CallTypeOK
  <2> QED BY <1>7, <1>9, <2>1, <2>2 DEF PollStep, PollTimesOut, PollInterrupted
<1>10. CASE ResultStep
  <2>1. ASSUME NEW p, ResultError(p) \/ ResultCallbackThrows(p) PROVE RestTypeOK'
    BY <1>7, <2>1 DEF ResultError, ResultCallbackThrows, Throws
  <2>2. ASSUME NEW p, ResultHungUp(p) PROVE RestTypeOK'
    BY <1>6, <2>2 DEF ResultHungUp, AtResult, LoopInv, LoopTypeOK
  <2>3. ASSUME NEW p, ResultQuiet(p) PROVE RestTypeOK'
    BY <2>3 DEF ResultQuiet, Advance, app, kernel, AppTypeOK, KernelTypeOK, CallTypeOK
  <2>4. ASSUME NEW p, ResultCallback(p) PROVE RestTypeOK'
    <3>1. PICK serviced \in BOOLEAN, C \in AtMostOneFd :
            CallbackBody(rules[it], serviced, C) /\ AfterCallback(serviced)
      BY <2>4 DEF ResultCallback
    <3>2. rules[it] \in Rule /\ rules' = rules
      BY <2>4, <3>1 DEF ResultCallback, AtResult, CallbackBody, AddableInCallback,
                        LoopInv, LoopTypeOK
    <3>3. AppTypeOK' /\ KernelTypeOK'
      BY <3>1, <3>2, CallbackTypeOK
    <3>4. CallTypeOK'
      BY <3>1, <3>2, ReturnsCallTypeOK DEF AfterCallback, Throws, Advance, CallTypeOK
    <3> QED BY <3>2, <3>3, <3>4
  <2>5. CASE ResultsEnd
    BY <1>7, <2>5 DEF ResultsEnd
  <2> QED BY <1>10, <2>1, <2>2, <2>3, <2>4, <2>5 DEF ResultStep
<1> QED BY <1>1, <1>2, <1>3, <1>4, <1>5, <1>8, <1>9, <1>10 DEF Next

LEMMA RestTypeOKHolds ==
  ASSUME ~ ReentrantAdd
  PROVE  Spec => []RestTypeOK
<1>1. LoopInv /\ RestTypeOK /\ [Next]_vars => RestTypeOK'
  BY NextRestTypeOK
<1> QED BY <1>1, InitRestTypeOK, LoopInvHolds, PTL DEF Spec

(* The state keeps its types, and both loop positions of wait_next_event() *)
(* stay within one of the end of their list, whatever is erased while they *)
(* move, provided no callback calls add_rule().                            *)
THEOREM TypeCorrect ==
  ASSUME ~ ReentrantAdd
  PROVE  Spec => []TypeOK
<1>1. LoopInv /\ RestTypeOK => TypeOK
  <2> SUFFICES ASSUME LoopInv, RestTypeOK PROVE TypeOK
    OBVIOUS
  <2>1. Len(rules) \in Nat /\ Len(pollfds) \in Nat
    BY DEF LoopInv, LoopTypeOK
  <2>2. it \in 1 .. Len(rules) + 1 /\ idx \in 1 .. Len(pollfds) + 1
    BY <2>1 DEF LoopInv, LoopTypeOK, Phases
  <2> QED
    BY <2>2 DEF TypeOK, LoopInv, LoopTypeOK, RestTypeOK, AppTypeOK, KernelTypeOK, CallTypeOK
<1> QED BY <1>1, LoopInvHolds, RestTypeOKHolds, PTL
-----------------------------------------------------------------------------
(* Why no queued data is abandoned.                                        *)

(* A descriptor at EOF that is not closed has nothing to read and never    *)
(* will.  A poll result that says hung up and not readable stays true      *)
(* until the results loop reaches it, although the kernel moves on.        *)
Drained ==
  /\ \A f \in Fd : eof[f] /\ ~ closed[f] => inq[f] = 0 /\ (fin[f] \/ hup[f])
  /\ pc = "results" =>
       \A k \in 1 .. Len(pollfds) :
         "HUP" \in pollfds[k].revents =>
           /\ hup[pollfds[k].fd]
           /\ pollfds[k].events = "In" /\ "In" \notin pollfds[k].revents
                => inq[pollfds[k].fd] = 0

(* Initially.                                                              *)
LEMMA InitDrained == Init => Drained
  BY DEF Init, Drained

(* What happens to a descriptor meanwhile: nothing arrives on one that is  *)
(* hung up or ended, callbacks only take out, and EOF comes with a close   *)
(* or from reading an empty queue.                                         *)
LEMMA KernelKeepsDrained ==
  ASSUME LoopInv, Drained, pc' = pc \/ pc' # "results", pollfds' = pollfds \/ pc' # "results",
         \A f \in Fd :
           /\ hup[f] => hup'[f]
           /\ fin[f] => fin'[f]
           /\ inq[f] = 0 /\ (fin[f] \/ hup[f]) => inq'[f] = 0
           /\ closed[f] => closed'[f]
           /\ eof'[f] /\ ~ closed'[f] => eof[f] \/ (inq[f] = 0 /\ (fin[f] \/ hup[f]))
  PROVE  Drained'
<1>1. \A f \in Fd : eof'[f] /\ ~ closed'[f] => inq'[f] = 0 /\ (fin'[f] \/ hup'[f])
  BY DEF Drained
<1>2. ASSUME pc' = "results", NEW k \in 1 .. Len(pollfds')
      PROVE  "HUP" \in pollfds'[k].revents =>
               /\ hup'[pollfds'[k].fd]
               /\ pollfds'[k].events = "In" /\ "In" \notin pollfds'[k].revents
                    => inq'[pollfds'[k].fd] = 0
  <2>1. pc = "results" /\ pollfds' = pollfds /\ k \in 1 .. Len(pollfds)
    BY <1>2
  <2>2. pollfds[k].fd \in Fd
    <3>1. pollfds[k] \in Pollfd
      BY <2>1 DEF LoopInv, LoopTypeOK
    <3> QED BY <3>1 DEF Pollfd
  <2> QED BY <2>1, <2>2 DEF Drained
<1> QED BY <1>1, <1>2 DEF Drained

(* A step that leaves the descriptors and their flags alone.               *)
LEMMA FrameKeepsDrained ==
  ASSUME LoopInv, Drained, pc' = pc \/ pc' # "results", pollfds' = pollfds \/ pc' # "results",
         UNCHANGED <<eof, closed, kernel>>
  PROVE  Drained'
  BY KernelKeepsDrained DEF kernel

(* A cancel callback that closes a descriptor.                             *)
LEMMA CancelKeepsDrained ==
  ASSUME LoopInv, Drained, RestTypeOK, cancel, pc' = pc, pollfds' = pollfds, UNCHANGED kernel
  PROVE  Drained'
<1>1. PICK C \in AtMostOneFd : Closing(C) /\ eof' = [f \in Fd |-> eof[f] \/ f \in C]
  BY DEF cancel
<1>2. \A f \in Fd : closed'[f] = (closed[f] \/ f \in C) /\ eof'[f] = (eof[f] \/ f \in C)
  BY <1>1 DEF Closing
<1> QED BY <1>2, KernelKeepsDrained DEF kernel

(* A callback that reads, writes or closes.                                *)
LEMMA CallbackKeepsDrained ==
  ASSUME LoopInv, Drained, RestTypeOK, NEW r \in Rule, NEW serviced \in BOOLEAN,
         NEW C \in AtMostOneFd, CallbackBody(r, serviced, C),
         pc' = pc \/ pc' # "results", pollfds' = pollfds \/ pc' # "results"
  PROVE  Drained'
<1> DEFINE f == RuleFd[r]
           reads == serviced /\ RuleDir[r] = "In"
<1>1. f \in Fd
  BY EventLoopAssumption
<1>2. /\ hup' = hup /\ fin' = fin
      /\ closed' = [g \in Fd |-> closed[g] \/ g \in C]
      /\ eof' = [g \in Fd |-> eof[g] \/ g \in C \/ (reads /\ g = f /\ inq[f] = 0)]
      /\ inq' = [inq EXCEPT ![f] = IF reads /\ @ > 0 THEN @ - 1 ELSE @]
  BY DEF CallbackBody, Closing
<1>3. reads => Readable(f) \/ hup[f]
  BY DEF CallbackBody, CanService
<1>4. reads /\ inq[f] = 0 => fin[f] \/ hup[f]
  BY <1>3 DEF Readable
<1>5. \A g \in Fd : inq[g] = 0 => inq'[g] = 0
  BY <1>1, <1>2 DEF RestTypeOK, KernelTypeOK
<1>6. \A g \in Fd :
        /\ closed'[g] = (closed[g] \/ g \in C)
        /\ eof'[g] = (eof[g] \/ g \in C \/ (reads /\ g = f /\ inq[f] = 0))
  BY <1>2
<1> HIDE DEF f, reads
<1> QED BY <1>2, <1>4, <1>5, <1>6, KernelKeepsDrained

(* What poll(2) reports of a hangup is so when it reports it.              *)
LEMMA PollReportsDrained ==
  ASSUME LoopInv, Drained, RestTypeOK, PollReports
  PROVE  Drained'
<1>1. /\ pollfds' = Polled /\ UNCHANGED <<eof, closed, inq, fin, hup>>
  BY DEF PollReports, app, kernel
<1>2. ASSUME NEW k \in 1 .. Len(Polled), "HUP" \in Polled[k].revents
      PROVE  /\ hup[Polled[k].fd]
             /\ Polled[k].events = "In" /\ "In" \notin Polled[k].revents
                  => inq[Polled[k].fd] = 0
  <2> DEFINE f == pollfds[k].fd
             ev == pollfds[k].events
  <2>1. k \in 1 .. Len(pollfds)
    BY PolledProperties
  <2>2. pollfds[k] \in Pollfd
    BY <2>1 DEF LoopInv, LoopTypeOK
  <2>3. Polled[k] = [pollfds[k] EXCEPT !.revents = Revents(f, ev)]
    BY <2>1, Zenon DEF Polled
  <2>4. Polled[k].fd = f /\ Polled[k].events = ev /\ Polled[k].revents = Revents(f, ev)
    BY <2>2, <2>3 DEF Pollfd
  <2>5. f \in Fd
    BY <2>2 DEF Pollfd
  <2> HIDE DEF f, ev
  <2>6. "HUP" \in Revents(f, ev)
    BY <1>2, <2>4
  <2>7. hup[f]
    BY <2>6 DEF Revents
  <2>8. ev = "In" /\ "In" \notin Revents(f, ev) => ~ Readable(f)
    BY <2>6 DEF Revents
  <2>9. ~ Readable(f) => inq[f] = 0
    BY <2>5, EventLoopAssumption DEF Readable, RestTypeOK, KernelTypeOK
  <2> QED BY <2>4, <2>7, <2>8, <2>9
<1> QED BY <1>1, <1>2 DEF Drained

(* Every step keeps Drained.                                               *)
LEMMA NextKeepsDrained ==
  ASSUME LoopInv, Served, RestTypeOK, Drained, [Next]_vars, ~ ReentrantAdd
  PROVE  Drained'
<1>1. CASE Environment
  <2>1. PICK f \in Fd : Arrive(f) \/ PeerEnds(f) \/ HangUp(f) \/ Breaks(f) \/ Drains(f)
    BY <1>1 DEF Environment
  <2>2. UNCHANGED <<pc, pollfds, eof, closed>>
    BY <2>1 DEF Arrive, PeerEnds, HangUp, Breaks, Drains, app, loop
  <2>3. \A g \in Fd : /\ hup[g] => hup'[g]
                      /\ fin[g] => fin'[g]
                      /\ inq[g] = 0 /\ (fin[g] \/ hup[g]) => inq'[g] = 0
    <3>1. CASE Arrive(f)
      BY <3>1 DEF Arrive, RestTypeOK, KernelTypeOK
    <3>2. CASE ~ Arrive(f)
      BY <2>1, <3>2 DEF PeerEnds, HangUp, Breaks, Drains, RestTypeOK, KernelTypeOK
    <3> QED BY <3>1, <3>2
  <2> QED BY <2>2, <2>3, KernelKeepsDrained
<1>2. ASSUME NEW r \in Rule, add_rule(r) PROVE Drained'
  BY <1>2, FrameKeepsDrained DEF add_rule, loop
<1>3. ASSUME NEW r \in Rule, InterestChanges(r) PROVE Drained'
  BY <1>3, FrameKeepsDrained DEF InterestChanges, loop
<1>4. CASE Call
  BY <1>4, FrameKeepsDrained DEF Call, app
<1>5. CASE UNCHANGED vars
  BY <1>5, FrameKeepsDrained DEF vars, app, loop
<1>6. ASSUME NEW res, Returns(res), UNCHANGED <<app, kernel>> PROVE Drained'
  BY <1>6, FrameKeepsDrained DEF Returns, app
<1>7. CASE SetupStep
  <2>1. CASE SetupErases
    BY <2>1, CancelKeepsDrained DEF SetupErases, loop
  <2>2. CASE SetupPushes
    <3>1. pc' # "results" /\ UNCHANGED <<eof, closed, kernel>>
      BY <2>2 DEF SetupPushes, app
    <3> QED BY <3>1, FrameKeepsDrained
  <2>3. CASE SetupEnds
    <3>1. pc' # "results" /\ UNCHANGED <<eof, closed, kernel>>
      BY <2>3 DEF SetupEnds, app, Returns
    <3> QED BY <3>1, FrameKeepsDrained
  <2> QED BY <1>7, <2>1, <2>2, <2>3 DEF SetupStep
<1>8. CASE PollStep
  <2>1. CASE PollReports
    BY <2>1, PollReportsDrained
  <2>2. CASE PollFails
    <3>1. /\ UNCHANGED <<eof, closed, inq, fin, hup, pollfds>>
          /\ \A k \in 1 .. Len(pollfds) : pollfds[k].revents = {}
      BY <2>2 DEF PollFails, app, kernel, Served
    <3> QED BY <3>1 DEF Drained
  <2> QED BY <1>6, <1>8, <2>1, <2>2 DEF PollStep, PollTimesOut, PollInterrupted
<1>9. CASE ResultStep
  <2>1. ASSUME NEW p, ResultError(p) \/ ResultCallbackThrows(p) PROVE Drained'
    BY <1>6, <2>1 DEF ResultError, ResultCallbackThrows, Throws
  <2>2. ASSUME NEW p, ResultHungUp(p) PROVE Drained'
    BY <2>2, CancelKeepsDrained DEF ResultHungUp
  <2>3. ASSUME NEW p, ResultQuiet(p) PROVE Drained'
    BY <2>3, FrameKeepsDrained DEF ResultQuiet, Advance, app
  <2>4. ASSUME NEW p, ResultCallback(p) PROVE Drained'
    <3>1. PICK serviced \in BOOLEAN, C \in AtMostOneFd :
            CallbackBody(rules[it], serviced, C) /\ AfterCallback(serviced)
      BY <2>4 DEF ResultCallback
    <3>2. rules[it] \in Rule
      BY <2>4 DEF ResultCallback, AtResult, LoopInv, LoopTypeOK
    <3>3. (pc' = pc /\ pollfds' = pollfds) \/ pc' # "results"
      BY <3>1 DEF AfterCallback, Throws, Returns, Advance
    <3> QED BY <3>1, <3>2, <3>3, CallbackKeepsDrained
  <2>5. CASE ResultsEnd
    BY <1>6, <2>5 DEF ResultsEnd
  <2> QED BY <1>9, <2>1, <2>2, <2>3, <2>4, <2>5 DEF ResultStep
<1> QED BY <1>1, <1>2, <1>3, <1>4, <1>5, <1>7, <1>8, <1>9 DEF Next

(* The rule that an iteration of either loop erases has no data left.      *)
LEMMA ErasedIsDrained ==
  ASSUME LoopInv, Served, RestTypeOK, Drained, it \in 1 .. Len(rules),
         SetupErases \/ \E p \in EntriesAt(idx) : ResultHungUp(p),
         RuleDir[rules[it]] = "In", ~ closed[RuleFd[rules[it]]]
  PROVE  inq[RuleFd[rules[it]]] = 0 /\ (fin[RuleFd[rules[it]]] \/ hup[RuleFd[rules[it]]])
<1> DEFINE r == rules[it]
           f == RuleFd[r]
<1>1. r \in Rule /\ f \in Fd
  BY EventLoopAssumption DEF LoopInv, LoopTypeOK
<1>2. CASE SetupErases
  BY <1>1, <1>2 DEF SetupErases, Finished, Drained
<1>3. ASSUME NEW p \in EntriesAt(idx), ResultHungUp(p)
      PROVE  inq[f] = 0 /\ hup[f]
  <2>1. AtResult /\ pc = "results" /\ "HUP" \in p.revents /\ p.events # "None" /\ ~ poll_ready(p)
    BY <1>3 DEF ResultHungUp, HungUp, AtResult, poll_hup
  <2>2. p = pollfds[idx]
    BY <2>1, EntryProperties
  <2>3. idx \in 1 .. Len(pollfds) /\ 0 \in 0 .. Len(rules) - it /\ idx + 0 = idx /\ it + 0 = it
    BY <2>1 DEF LoopInv, LoopTypeOK, Phases
  <2>4. Match(p, r)
    BY <2>1, <2>2, <2>3 DEF LoopInv, Phases
  <2>5. p.fd = f /\ p.events = "In" /\ "In" \notin p.revents
    BY <2>1, <2>4 DEF Match, poll_ready
  <2> QED BY <2>1, <2>2, <2>3, <2>5 DEF Drained
<1> QED BY <1>2, <1>3

(* A rule for reading leaves the loop only when its descriptor is closed,  *)
(* or drained with nothing more to come, although a poll result is old     *)
(* when its rule's turn comes; provided no callback calls add_rule().      *)
THEOREM DataIsRead ==
  ASSUME ~ ReentrantAdd
  PROVE  Spec => NoDataAbandoned
<1>1. Served /\ LoopInv /\ [Next]_vars => Served'
  BY NextKeepsServed
<1>2. LoopInv /\ Served /\ RestTypeOK /\ Drained /\ [Next]_vars => Drained'
  BY NextKeepsDrained
<1>3. ASSUME LoopInv, Served, RestTypeOK, Drained, [Next]_vars,
             NEW r \in Range(rules) \ Range(rules')
      PROVE  RuleDir[r] = "In" /\ ~ closed[RuleFd[r]]
               => inq[RuleFd[r]] = 0 /\ (fin[RuleFd[r]] \/ hup[RuleFd[r]])
  <2>1. rules' # rules
    BY <1>3
  <2>2. ASSUME NEW s \in Rule, rules' = Append(rules, s) PROVE FALSE
    <3>1. rules \in Seq(Rule) /\ rules' \in Seq(Rule) /\ Len(rules') = Len(rules) + 1
          /\ Len(rules) \in Nat /\ \A i \in 1 .. Len(rules) : rules'[i] = rules[i]
      BY <1>3, <2>2, AppendProperties DEF LoopInv, LoopTypeOK
    <3>2. PICK i \in 1 .. Len(rules) : r = rules[i]
      BY <1>3, <3>1, Distinct
    <3>3. i \in 1 .. Len(rules') /\ r = rules'[i]
      BY <3>1, <3>2
    <3> QED BY <1>3, <3>1, <3>3, Distinct, SMTT(20)
  <2>3. \/ SetupErases
        \/ \E p \in EntriesAt(idx) : ResultHungUp(p)
    <3>1. ~ Environment /\ ~ Call /\ ~ PollStep /\ ~ UNCHANGED vars
      BY <2>1 DEF Environment, Arrive, PeerEnds, HangUp, Breaks, Drains, Call, app, vars,
                  PollStep, PollReports, PollTimesOut, PollInterrupted, PollFails
    <3>2. ASSUME NEW s \in Rule PROVE ~ add_rule(s) /\ ~ InterestChanges(s)
      BY <2>1, <2>2 DEF add_rule, InterestChanges
    <3>3. ~ SetupPushes /\ ~ SetupEnds /\ ~ ResultsEnd
      BY <2>1 DEF SetupPushes, SetupEnds, ResultsEnd, app
    <3>4. ASSUME NEW p
          PROVE  ~ ResultError(p) /\ ~ ResultQuiet(p) /\ ~ ResultCallback(p)
                 /\ ~ ResultCallbackThrows(p)
      BY <2>1 DEF ResultError, ResultQuiet, ResultCallback, ResultCallbackThrows,
                  CallbackBody, AddableInCallback, app
    <3> QED BY <1>3, <3>1, <3>2, <3>3, <3>4 DEF Next, SetupStep, ResultStep
  <2>4. it \in 1 .. Len(rules) /\ rules' = RemoveAt(rules, it)
    BY <1>3, <2>3 DEF SetupErases, ResultHungUp, AtResult, LoopInv, LoopTypeOK
  <2>5. r = rules[it]
    BY <1>3, <2>4, ErasingOne DEF LoopInv, LoopTypeOK, RestTypeOK
  <2> QED BY <1>3, <2>3, <2>4, <2>5, ErasedIsDrained
<1>4. LoopInv /\ Served /\ RestTypeOK /\ Drained /\ [Next]_vars
        => [\A r \in Range(rules) \ Range(rules') :
              LET f == RuleFd[r]
              IN  RuleDir[r] = "In" /\ ~ closed[f] => inq[f] = 0 /\ (fin[f] \/ hup[f])]_vars
  BY <1>3
<1> QED
  BY <1>1, <1>2, <1>4, InitServed, InitDrained, LoopInvHolds, RestTypeOKHolds, PTL
     DEF Spec, NoDataAbandoned
-----------------------------------------------------------------------------
(* Why Result::Exit leaves nothing undone.                                 *)

(* While the first loop runs, a rule passed over had no interest and still *)
(* has none.                                                               *)
Unwanted ==
  pc = "setup" =>
    \A k \in 1 .. Len(pollfds) : pollfds[k].events = "None" => ~ interest[rules[k]]

(* The first loop keeps Unwanted if cancel callbacks wake no rule.         *)
LEMMA SetupKeepsUnwanted ==
  ASSUME LoopInv, Unwanted, SetupErases \/ SetupPushes, ~ CancelWakes
  PROVE  Unwanted'
<1>1. CASE SetupErases
  <2>1. /\ pc = "setup" /\ it \in 1 .. Len(rules) /\ rules' = RemoveAt(rules, it)
        /\ pollfds' = pollfds /\ interest' = interest
    BY <1>1 DEF SetupErases, cancel, loop, LoopInv, LoopTypeOK
  <2>2. \A k \in 1 .. it - 1 : rules'[k] = rules[k]
    BY <2>1, RemoveAtProperties DEF LoopInv, LoopTypeOK
  <2>3. \A k \in 1 .. Len(pollfds) : k \in 1 .. it - 1
    BY <2>1 DEF LoopInv, LoopTypeOK, Phases
  <2> QED BY <2>1, <2>2, <2>3 DEF Unwanted
<1>2. CASE SetupPushes
  <2> DEFINE r == rules[it]
             p == [fd |-> RuleFd[r], events |-> IF interest[r] THEN RuleDir[r] ELSE "None",
                   revents |-> {}]
  <2>1. /\ pc = "setup" /\ r \in Rule /\ it = Len(pollfds) + 1 /\ Len(pollfds) \in Nat
        /\ pollfds \in Seq(Pollfd) /\ rules' = rules /\ interest' = interest
        /\ pollfds' = Append(pollfds, p)
    BY <1>2 DEF SetupPushes, LoopInv, LoopTypeOK, Phases, app
  <2>2. p \in Pollfd /\ (p.events = "None" => ~ interest[r])
    BY <2>1, EventLoopAssumption DEF Pollfd
  <2> HIDE DEF p
  <2>3. /\ Len(pollfds') = Len(pollfds) + 1 /\ pollfds'[it] = p
        /\ \A k \in 1 .. Len(pollfds) : pollfds'[k] = pollfds[k]
    BY <2>1, <2>2, AppendProperties
  <2>4. \A k \in 1 .. Len(pollfds') : k \in 1 .. Len(pollfds) \/ k = it
    BY <2>1, <2>3
  <2> QED BY <2>1, <2>2, <2>3, <2>4 DEF Unwanted
<1> QED BY <1>1, <1>2

(* Every step keeps Unwanted.                                              *)
LEMMA NextKeepsUnwanted ==
  ASSUME LoopInv, Unwanted, [Next]_vars, ~ CancelWakes
  PROVE  Unwanted'
<1>1. CASE pc' # "setup"
  BY <1>1 DEF Unwanted
<1>2. CASE UNCHANGED <<rules, interest, pollfds, pc>>
  BY <1>2 DEF Unwanted
<1>3. CASE Call
  BY <1>3 DEF Call, LoopInv, Phases, Unwanted
<1>4. CASE SetupErases \/ SetupPushes
  BY <1>4, SetupKeepsUnwanted
<1>5. ASSUME pc' = "setup", ~ Call, ~ SetupErases, ~ SetupPushes
      PROVE  UNCHANGED <<rules, interest, pollfds, pc>>
  <2>1. CASE Environment \/ UNCHANGED vars
    BY <2>1 DEF Environment, Arrive, PeerEnds, HangUp, Breaks, Drains, vars, app, loop
  <2>2. ~ SetupEnds /\ ~ PollStep /\ ~ ResultsEnd
    BY <1>5 DEF SetupEnds, PollStep, PollReports, PollTimesOut, PollInterrupted, PollFails,
                ResultsEnd, Returns, StartResults
  <2>3. ASSUME NEW r \in Rule PROVE ~ add_rule(r) /\ ~ InterestChanges(r)
    BY <1>5 DEF add_rule, InterestChanges, loop
  <2>4. ASSUME NEW p
        PROVE  ~ ResultError(p) /\ ~ ResultHungUp(p) /\ ~ ResultQuiet(p)
               /\ ~ ResultCallback(p) /\ ~ ResultCallbackThrows(p)
    BY <1>5 DEF ResultError, ResultHungUp, ResultQuiet, ResultCallback,
                ResultCallbackThrows, AfterCallback, AtResult, Advance, Throws, Returns
  <2> QED BY <1>5, <2>1, <2>2, <2>3, <2>4 DEF Next, SetupStep, ResultStep
<1> QED BY <1>1, <1>2, <1>3, <1>4, <1>5

(* Result::Exit from the first loop means that no rule that is left wants  *)
(* its descriptor, if cancel callbacks wake no rule and no callback calls  *)
(* add_rule().                                                             *)
THEOREM ExitIsFinal ==
  ASSUME ~ ReentrantAdd, ~ CancelWakes
  PROVE  Spec => ExitMeansDone
<1>1. Served /\ LoopInv /\ [Next]_vars => Served'
  BY NextKeepsServed
<1>2. Unwanted /\ LoopInv /\ [Next]_vars => Unwanted'
  BY NextKeepsUnwanted
<1>3. Init => Unwanted
  BY DEF Init, Unwanted
<1>4. ASSUME LoopInv, Served, Unwanted, [Next]_vars, pc = "setup", result' = "Exit",
             NEW r \in Range(rules')
      PROVE  ~ interest'[r]
  <2>1. result = "None"
    BY <1>4 DEF Served
  <2>2. SetupEnds /\ Returns("Exit") /\ ~ something_to_poll
    <3>1. ~ Environment /\ ~ Call /\ ~ PollStep /\ ~ ResultStep /\ ~ UNCHANGED vars
      BY <1>4, <2>1
         DEF Environment, Arrive, PeerEnds, HangUp, Breaks, Drains, Watched, Call, vars, loop,
             PollStep, PollReports, PollTimesOut, PollInterrupted, PollFails,
             ResultStep, ResultError, ResultHungUp, ResultQuiet, ResultCallback,
             ResultCallbackThrows, ResultsEnd, AtResult
    <3>2. ASSUME NEW s \in Rule PROVE ~ add_rule(s) /\ ~ InterestChanges(s)
      BY <1>4 DEF add_rule, InterestChanges
    <3>3. ~ SetupErases /\ ~ SetupPushes
      BY <1>4, <2>1 DEF SetupErases, SetupPushes, loop
    <3>4. SetupEnds
      BY <1>4, <3>1, <3>2, <3>3 DEF Next, SetupStep
    <3> QED BY <1>4, <2>1, <3>4 DEF SetupEnds
  <2>3. rules' = rules /\ interest' = interest /\ it > Len(rules)
    BY <2>2 DEF SetupEnds, app
  <2>4. PICK i \in 1 .. Len(rules) : r = rules[i]
    BY <1>4, <2>3, Distinct DEF LoopInv, LoopTypeOK
  <2>5. i \in 1 .. Len(pollfds)
    BY <1>4, <2>3 DEF LoopInv, LoopTypeOK, Phases
  <2>6. pollfds[i].events = "None"
    <3>1. pollfds[i] \in Range(pollfds)
      BY <1>4, <2>5 DEF Range, LoopInv, LoopTypeOK
    <3> QED BY <2>2, <3>1 DEF something_to_poll
  <2> QED BY <1>4, <2>3, <2>4, <2>5, <2>6 DEF Unwanted
<1>5. LoopInv /\ Served /\ Unwanted /\ [Next]_vars
        => [pc = "setup" /\ result' = "Exit" => \A r \in Range(rules') : ~ interest'[r]]_vars
  BY <1>4
<1> QED
  BY <1>1, <1>2, <1>3, <1>5, InitServed, LoopInvHolds, PTL DEF Spec, ExitMeansDone
=============================================================================
