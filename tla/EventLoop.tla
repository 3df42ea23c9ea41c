----------------------------- MODULE EventLoop ------------------------------
(***************************************************************************)
(* class EventLoop (libsponge/util/eventloop.{hh,cc}): wait_next_event()   *)
(* builds a pollfd for each rule, calls poll(2), and walks rules and poll  *)
(* results in step, running the callbacks of the ready rules and erasing   *)
(* the rules that are finished.                                            *)
(*                                                                         *)
(* One step of the model is one iteration of one of the two loops, or the  *)
(* code between them.  The callbacks are the application's: each may       *)
(* service its descriptor, close a descriptor, change what any rule is     *)
(* interested in, or do nothing.  The kernel's side of the descriptors     *)
(* changes while wait_next_event() is in poll(2) or in the results loop;   *)
(* nothing looks at it at other times.                                     *)
(***************************************************************************)
EXTENDS Integers, SequencesExt, FiniteSetsExt

CONSTANTS
  Fd,          \* FDWrapper objects (a rule holds a duplicate of one)
  Rule,        \* the rules an application may add
  RuleFd,      \* [Rule -> Fd]
  RuleDir,     \* [Rule -> {"In", "Out"}]
  MaxIn,       \* bound on the bytes queued for reading on a descriptor
  CancelWakes, \* whether a cancel callback may change what rules want
  PollMayFail, \* whether poll(2) may fail with an error other than EINTR
  ReentrantAdd \* whether a callback may call add_rule()

ASSUME EventLoopAssumption ==
  /\ RuleFd \in [Rule -> Fd]
  /\ RuleDir \in [Rule -> {"In", "Out"}]
  /\ MaxIn \in Nat
  /\ {CancelWakes, PollMayFail, ReentrantAdd} \subseteq BOOLEAN

VARIABLES
  rules,        \* std::list<Rule>
  interest,     \* [Rule -> BOOLEAN]: what each rule's interest() returns
  eof, closed,  \* [Fd -> BOOLEAN]: the flags of FDWrapper
  inq,          \* kernel: [Fd -> 0 .. MaxIn], bytes waiting to be read
  fin,          \* kernel: the peer ended its side, reading gives EOF
  hup,          \* kernel: the descriptor is hung up
  err,          \* kernel: the descriptor has a pending error
  out,          \* kernel: there is room to write
  pc,           \* "idle" between calls, else the part of wait_next_event()
  it, idx,      \* the loops' position in rules and in pollfds
  pollfds,      \* Seq of [fd, events, revents]
  result,       \* what the last call returned, or "Throw"; "None" during a call
  poll,         \* history: how this call's poll(2) ended, "none" before it
  due, called   \* history of this call: rules found ready, rules called back

kernel == <<inq, fin, hup, err, out>>
app    == <<rules, interest, eof, closed>>
loop   == <<pc, it, idx, pollfds, result, poll, due, called>>
vars   == <<app, kernel, loop>>

Pollfd == [fd : Fd, events : {"In", "Out", "None"},
           revents : SUBSET {"In", "Out", "HUP", "ERR", "NVAL"}]

Init ==
  /\ rules = <<>>
  /\ interest \in [Rule -> BOOLEAN]
  /\ eof = [f \in Fd |-> FALSE] /\ closed = [f \in Fd |-> FALSE]
  /\ inq = [f \in Fd |-> 0]
  /\ fin = [f \in Fd |-> FALSE] /\ hup = [f \in Fd |-> FALSE]
  /\ err = [f \in Fd |-> FALSE] /\ out = [f \in Fd |-> TRUE]
  /\ pc = "idle" /\ it = 1 /\ idx = 1 /\ pollfds = <<>>
  /\ result = "None" /\ poll = "none" /\ due = {} /\ called = {}
-----------------------------------------------------------------------------
(* The kernel: what happens to a descriptor, and what poll(2) reports.     *)

Watched == pc \in {"poll", "results"}

Arrive(f) ==
  /\ Watched /\ inq[f] < MaxIn /\ ~ fin[f] /\ ~ hup[f]
  /\ inq' = [inq EXCEPT ![f] = @ + 1]
  /\ UNCHANGED <<fin, hup, err, out, app, loop>>

PeerEnds(f) ==
  /\ Watched /\ ~ fin[f]
  /\ fin' = [fin EXCEPT ![f] = TRUE]
  /\ UNCHANGED <<inq, hup, err, out, app, loop>>

HangUp(f) ==
  /\ Watched /\ ~ hup[f]
  /\ hup' = [hup EXCEPT ![f] = TRUE]
  /\ UNCHANGED <<inq, fin, err, out, app, loop>>

Breaks(f) ==
  /\ Watched /\ ~ err[f]
  /\ err' = [err EXCEPT ![f] = TRUE]
  /\ UNCHANGED <<inq, fin, hup, out, app, loop>>

Drains(f) ==
  /\ Watched /\ ~ out[f]
  /\ out' = [out EXCEPT ![f] = TRUE]
  /\ UNCHANGED <<inq, fin, hup, err, app, loop>>

Environment == \E f \in Fd : Arrive(f) \/ PeerEnds(f) \/ HangUp(f) \/ Breaks(f) \/ Drains(f)

Readable(f) == inq[f] > 0 \/ fin[f]
Writable(f) == out[f]

Revents(f, events) ==
  IF closed[f]
  THEN {"NVAL"}
  ELSE {e \in {"In"} : events = "In" /\ Readable(f)}
       \cup {e \in {"Out"} : events = "Out" /\ Writable(f)}
       \cup {e \in {"HUP"} : hup[f]}
       \cup {e \in {"ERR"} : err[f]}
-----------------------------------------------------------------------------
(* The application's callbacks.                                            *)

(* FileDescriptor::close() on the descriptors in C.                        *)
Closing(C) == closed' = [f \in Fd |-> closed[f] \/ f \in C]

AtMostOneFd == {C \in SUBSET Fd : Cardinality(C) <= 1}

(* A cancel callback.                                                      *)
cancel ==
  /\ interest' \in IF CancelWakes THEN [Rule -> BOOLEAN] ELSE {interest}
  /\ \E C \in AtMostOneFd :
        /\ Closing(C)
        /\ eof' = [f \in Fd |-> eof[f] \/ f \in C]

(* Whether a read() or write() of the rule's descriptor returns; else it   *)
(* throws (EAGAIN, EPIPE, EBADF or the pending error).                     *)
CanService(r) ==
  LET f == RuleFd[r]
  IN  /\ ~ closed[f] /\ ~ err[f]
      /\ IF RuleDir[r] = "In" THEN Readable(f) \/ hup[f] ELSE Writable(f) /\ ~ hup[f]

(* The rules a callback may add.                                           *)
AddableInCallback == IF ReentrantAdd THEN Rule \ Range(rules) ELSE {}

(* A callback that reads or writes the rule's descriptor, or does not, and *)
(* then closes the descriptors in C.  A read of nothing is EOF.            *)
CallbackBody(r, serviced, C) ==
  LET f == RuleFd[r]
      reads == serviced /\ RuleDir[r] = "In"
      writes == serviced /\ RuleDir[r] = "Out"
  IN  /\ serviced => CanService(r)
      /\ Closing(C)
      /\ eof' = [g \in Fd |-> eof[g] \/ g \in C \/ (reads /\ g = f /\ inq[f] = 0)]
      /\ inq' = [inq EXCEPT ![f] = IF reads /\ @ > 0 THEN @ - 1 ELSE @]
      /\ \E room \in BOOLEAN : out' = [out EXCEPT ![f] = IF writes THEN room ELSE @]
      /\ interest' \in [Rule -> BOOLEAN]
      /\ rules' \in {rules} \cup {Append(rules, s) : s \in AddableInCallback}
      /\ UNCHANGED <<fin, hup, err>>
-----------------------------------------------------------------------------
(* The application between calls.                                          *)

add_rule(r) ==
  /\ pc = "idle" /\ result # "Exit" /\ r \notin Range(rules)
  /\ rules' = Append(rules, r)
  /\ UNCHANGED <<interest, eof, closed, kernel, loop>>

InterestChanges(r) ==
  /\ pc = "idle" /\ result # "Exit"
  /\ interest' = [interest EXCEPT ![r] = ~ @]
  /\ UNCHANGED <<rules, eof, closed, kernel, loop>>

(* A call of wait_next_event(); none follows Result::Exit (eventloop.hh).  *)
Call ==
  /\ pc = "idle" /\ result # "Exit"
  /\ pc' = "setup" /\ result' = "None"
  /\ UNCHANGED <<app, kernel, it, idx, pollfds, poll, due, called>>

(* wait_next_event() returns or throws; its local variables are gone.      *)
Returns(res) ==
  /\ pc' = "idle" /\ result' = res
  /\ it' = 1 /\ idx' = 1 /\ pollfds' = <<>>
  /\ poll' = "none" /\ due' = {} /\ called' = {}
-----------------------------------------------------------------------------
(* wait_next_event(): set up the pollfd for each rule.                     *)

Finished_ClosedOnly(r) == closed[RuleFd[r]]
Finished(r) == (RuleDir[r] = "In" /\ eof[RuleFd[r]]) \/ closed[RuleFd[r]]

SetupErases_FallsThrough ==
  /\ pc = "setup" /\ it <= Len(rules) /\ Finished(rules[it])
  /\ cancel
  /\ rules' = RemoveAt(rules, it)
  /\ it' = it + 1
  /\ UNCHANGED <<kernel, pc, idx, pollfds, result, poll, due, called>>
SetupErases ==
  /\ pc = "setup" /\ it <= Len(rules) /\ Finished(rules[it])
  /\ cancel
  /\ rules' = RemoveAt(rules, it)
  /\ UNCHANGED <<kernel, loop>>

SetupPushes_NoPlaceholder ==
  /\ pc = "setup" /\ it <= Len(rules) /\ ~ Finished(rules[it])
  /\ LET r == rules[it]
     IN  pollfds' = IF interest[r]
                    THEN Append(pollfds, [fd |-> RuleFd[r], events |-> RuleDir[r], revents |-> {}])
                    ELSE pollfds
  /\ it' = it + 1
  /\ UNCHANGED <<app, kernel, pc, idx, result, poll, due, called>>
SetupPushes ==
  /\ pc = "setup" /\ it <= Len(rules) /\ ~ Finished(rules[it])
  /\ LET r == rules[it]
     IN  pollfds' = Append(pollfds, [fd |-> RuleFd[r],
                                     events |-> IF interest[r] THEN RuleDir[r] ELSE "None",
                                     revents |-> {}])
  /\ it' = it + 1
  /\ UNCHANGED <<app, kernel, pc, idx, result, poll, due, called>>

something_to_poll_LastOnly ==
  pollfds # <<>> /\ Last(pollfds).events # "None"
something_to_poll == \E p \in Range(pollfds) : p.events # "None"

SetupEnds ==
  /\ pc = "setup" /\ it > Len(rules)
  /\ \/ /\ something_to_poll
        /\ pc' = "poll"
        /\ UNCHANGED <<it, idx, pollfds, result, poll, due, called>>
     \/ /\ ~ something_to_poll
        /\ Returns("Exit")
  /\ UNCHANGED <<app, kernel>>
-----------------------------------------------------------------------------
(* wait_next_event(): call poll(2).                                        *)

Polled == [i \in 1 .. Len(pollfds) |->
             [pollfds[i] EXCEPT !.revents = Revents(pollfds[i].fd, pollfds[i].events)]]
AnyRevents == \E i \in 1 .. Len(Polled) : Polled[i].revents # {}

StartResults == pc' = "results" /\ it' = 1 /\ idx' = 1

PollReports ==
  /\ pc = "poll" /\ AnyRevents
  /\ pollfds' = Polled
  /\ poll' = "ready"
  /\ due' = {rules[i] : i \in {j \in 1 .. Len(Polled) : {"In", "Out"} \cap Polled[j].revents # {}}}
  /\ StartResults
  /\ UNCHANGED <<app, kernel, result, called>>

PollTimesOut ==
  /\ pc = "poll" /\ ~ AnyRevents
  /\ Returns("Timeout")
  /\ UNCHANGED <<app, kernel>>

PollInterrupted ==
  /\ pc = "poll"
  /\ Returns("Exit")
  /\ UNCHANGED <<app, kernel>>

(* Any other error is caught and dropped: the results loop runs over       *)
(* pollfds whose revents are still zero.                                   *)
PollFails ==
  /\ pc = "poll" /\ PollMayFail
  /\ poll' = "error"
  /\ StartResults
  /\ UNCHANGED <<app, kernel, pollfds, result, due, called>>
-----------------------------------------------------------------------------
(* wait_next_event(): go through the poll results.                         *)

(* pollfds[idx]: beyond the end of the vector the read may give anything.  *)
EntriesAt(i) == IF i <= Len(pollfds) THEN {pollfds[i]} ELSE Pollfd

poll_error(p) == p.revents \cap {"ERR", "NVAL"} # {}
poll_ready(p) == p.events \in p.revents
poll_hup(p)   == "HUP" \in p.revents

HungUp_EvenIfReady(p) == poll_hup(p) /\ p.events # "None"
HungUp(p) == poll_hup(p) /\ p.events # "None" /\ ~ poll_ready(p)

AtResult == pc = "results" /\ it <= Len(rules)

Throws == Returns("Throw")
Advance ==
  /\ it' = it + 1 /\ idx' = idx + 1
  /\ UNCHANGED <<pc, pollfds, result, poll, due>>

ResultError(p) ==
  /\ AtResult /\ poll_error(p)
  /\ Throws
  /\ UNCHANGED <<app, kernel>>

ResultHungUp_Skips(p) ==
  /\ AtResult /\ ~ poll_error(p) /\ HungUp(p)
  /\ cancel
  /\ rules' = RemoveAt(rules, it)
  /\ Advance
  /\ UNCHANGED <<kernel, called>>
ResultHungUp(p) ==
  /\ AtResult /\ ~ poll_error(p) /\ HungUp(p)
  /\ cancel
  /\ rules' = RemoveAt(rules, it)
  /\ idx' = idx + 1
  /\ UNCHANGED <<kernel, pc, it, pollfds, result, poll, due, called>>

ResultQuiet(p) ==
  /\ AtResult /\ ~ poll_error(p) /\ ~ HungUp(p) /\ ~ poll_ready(p)
  /\ Advance
  /\ UNCHANGED <<app, kernel, called>>

(* After the callback: unless it serviced the descriptor, the rule must no *)
(* longer be interested.                                                   *)
AfterCallback_Returns(serviced) ==
  IF ~ serviced /\ interest'[rules[it]] THEN Throws ELSE Returns("Success")
AfterCallback(serviced) ==
  IF ~ serviced /\ interest'[rules[it]]
  THEN Throws
  ELSE Advance /\ called' = called \cup {rules[it]}

ResultCallback(p) ==
  /\ AtResult /\ ~ poll_error(p) /\ ~ HungUp(p) /\ poll_ready(p)
  /\ \E serviced \in BOOLEAN, C \in AtMostOneFd :
        /\ CallbackBody(rules[it], serviced, C)
        /\ AfterCallback(serviced)

(* The callback's own read() or write() throws.                            *)
ResultCallbackThrows(p) ==
  /\ AtResult /\ ~ poll_error(p) /\ ~ HungUp(p) /\ poll_ready(p)
  /\ ~ CanService(rules[it])
  /\ Throws
  /\ UNCHANGED <<app, kernel>>

ResultsEnd ==
  /\ pc = "results" /\ it > Len(rules)
  /\ Returns("Success")
  /\ UNCHANGED <<app, kernel>>

ResultStep ==
  \/ \E p \in EntriesAt(idx) : ResultError(p)
  \/ \E p \in EntriesAt(idx) : ResultHungUp(p)
  \/ \E p \in EntriesAt(idx) : ResultQuiet(p)
  \/ \E p \in EntriesAt(idx) : ResultCallback(p)
  \/ \E p \in EntriesAt(idx) : ResultCallbackThrows(p)
  \/ ResultsEnd
SetupStep == SetupErases \/ SetupPushes \/ SetupEnds
PollStep == PollReports \/ PollTimesOut \/ PollInterrupted \/ PollFails

Next ==
  \/ Environment
  \/ \E r \in Rule : add_rule(r) \/ InterestChanges(r)
  \/ Call \/ SetupStep \/ PollStep \/ ResultStep

Spec == Init /\ [][Next]_vars

(* An application that keeps calling while it gets Success or Timeout and  *)
(* whose callbacks return; poll(2) returns once something is ready, but    *)
(* need not time out.                                                      *)
Fairness ==
  /\ WF_vars(Call /\ result # "Throw")
  /\ WF_vars(SetupStep)
  /\ WF_vars(PollReports)
  /\ WF_vars(ResultStep)
FairSpec == Spec /\ Fairness
-----------------------------------------------------------------------------
(* Type invariant, with the range of the two loop positions: `it` runs to  *)
(* at most one past the rules and `idx` to one past pollfds.               *)
TypeOK ==
  /\ rules \in Seq(Rule) /\ IsInjective(rules)
  /\ interest \in [Rule -> BOOLEAN]
  /\ eof \in [Fd -> BOOLEAN] /\ closed \in [Fd -> BOOLEAN]
  /\ inq \in [Fd -> 0 .. MaxIn]
  /\ {fin, hup, err, out} \subseteq [Fd -> BOOLEAN]
  /\ pc \in {"idle", "setup", "poll", "results"}
  /\ it \in 1 .. Len(rules) + 1
  /\ idx \in 1 .. Len(pollfds) + 1
  /\ pollfds \in Seq(Pollfd)
  /\ result \in {"None", "Success", "Timeout", "Exit", "Throw"}
  /\ poll \in {"none", "ready", "error"}
  /\ due \subseteq Rule /\ called \subseteq Rule

(* The two loops stay in step although both erase rules: while the results *)
(* loop runs, the rules still to visit and the pollfds still to visit pair *)
(* up, and each pollfd is the one set up for its rule.  Otherwise          *)
(* pollfds[idx] would decide the fate of another rule.                     *)
Aligned ==
  pc = "results" =>
    /\ Len(rules) - it = Len(pollfds) - idx
    /\ \A k \in 0 .. Len(rules) - it :
          /\ pollfds[idx + k].fd = RuleFd[rules[it + k]]
          /\ pollfds[idx + k].events \in {RuleDir[rules[it + k]], "None"}

(* Result::Success means that every rule poll(2) found ready had its       *)
(* callback called in this round, and no other ("executes callback for     *)
(* each ready fd", eventloop.hh): erasing a rule makes the loop skip none. *)
ReadyServed ==
  [][pc = "results" /\ result' = "Success" => called = due]_vars

(* A rule for reading is erased only when its descriptor is closed or when *)
(* nothing is left to read and nothing will come: hangup and EOF handling  *)
(* never abandon queued data ("no more will ever be readable").            *)
NoDataAbandoned ==
  [][\A r \in Range(rules) \ Range(rules') :
        LET f == RuleFd[r]
        IN  RuleDir[r] = "In" /\ ~ closed[f] => inq[f] = 0 /\ (fin[f] \/ hup[f])]_vars

(* Result::Exit without a signal: no rule that is left wants its           *)
(* descriptor, so an application that stops calling leaves nothing undone. *)
(* Depends on cancel callbacks not waking a rule already passed over.      *)
ExitMeansDone ==
  [][pc = "setup" /\ result' = "Exit"
       => \A r \in Range(rules') : ~ interest'[r]]_vars

Stops == result \in {"Exit", "Throw"}

(* Nothing can ever happen again on the rule's descriptor in its direction. *)
Exhausted(r) ==
  LET f == RuleFd[r] IN closed[f] \/ (RuleDir[r] = "In" /\ eof[f])

(* A rule whose descriptor is closed, or at EOF for a reading rule, is     *)
(* eventually cancelled, unless the application stops calling.             *)
FinishedRuleRetired ==
  \A r \in Rule :
    r \in Range(rules) /\ Exhausted(r) ~> r \notin Range(rules) \/ Stops

Waiting(r) ==
  LET f == RuleFd[r]
  IN  /\ r \in Range(rules) /\ interest[r] /\ r \notin called
      /\ IF RuleDir[r] = "In" THEN Readable(f) ELSE Writable(f)

(* No starvation: a rule that stays interested in a descriptor that stays  *)
(* ready gets its callback, however busy the rules before it are, unless   *)
(* the application stops calling.                                          *)
ReadyRuleNotStarved == \A r \in Rule : Waiting(r) ~> ~ Waiting(r) \/ Stops
-----------------------------------------------------------------------------
(* eventloop.hh:44 says of Result::Success: "At least one Rule was         *)
(* triggered".  A rule was triggered if its callback was called or it was  *)
(* cancelled in this round.                                                *)
SuccessMeansTriggered ==
  [][pc = "results" /\ result' = "Success"
       => called # {} \/ Len(rules) < Len(pollfds)]_vars

(* eventloop.cc:66 says of the first loop: "set up the pollfd for each     *)
(* rule": every rule the results loop visits has one.                      *)
EachRuleHasPollfd == pc = "results" /\ it <= Len(rules) => idx <= Len(pollfds)
=============================================================================
