------------------------------- MODULE UdsLatency -------------------------------
(***************************************************************************)
(* How the comparison of UDS latencies pairs the requests and responses of *)
(* one recorded session (app/comparison_uds_latency.py): reassembly hands  *)
(* over the messages of two identifiers in the order in which they end,    *)
(* and every message first times out the requests that waited too long,    *)
(* then opens a transaction or answers the oldest that it fits.            *)
(*                                                                         *)
(* The analysis is one loop over a file that does not change; a step of    *)
(* the model is a frame of the file, or one message or one request of the  *)
(* loops inside.                                                           *)
(***************************************************************************)
EXTENDS Naturals, Sequences, FiniteSets

CONSTANTS
    Services,       \* UDS_SERVICE_NAMES
    Subfunctions,   \* UDS_SUBFUNCTION_SERVICES
    Unknown,        \* any other first byte
    Timeout,        \* timeout_ms
    MaxEvidence,    \* maximum_transaction_evidence_per_session
    LongLinks,      \* bound: the identifiers with frames other than single ones
    MaxMessages,    \* bound: messages of the session
    MaxClock        \* bound: its length

ASSUME UdsAssumption ==
    /\ Unknown \notin Services /\ Subfunctions \subseteq Services
    /\ Timeout \in Nat \ {0} /\ MaxEvidence \in Nat \ {0}
    /\ MaxMessages \in Nat /\ MaxClock \in Nat

VARIABLES
    clock,          \* time stamp of the last frame read
    begun,          \* [Links -> ...] the reassembler's session of each identifier
    messages,       \* all messages reassembled, in the order of their ends
    next,           \* the one that the loop is at
    phase,          \* "frames", "flushed" or "done"
    open,           \* open_requests
    done,           \* the transactions that were finalized, in that order
    tally,          \* the counters of _SessionState
    unmatched,      \* unmatched_responses
    evidence,       \* evidence_heap: places in done
    truncated       \* evidence_truncated

session == <<clock, begun, messages>>
results == <<done, tally, evidence, truncated>>
vars == <<session, next, phase, open, results, unmatched>>

-----------------------------------------------------------------------------

Links == {"request", "response"}
Answers == {"positive", "negative", "pending"}

(* What the first bytes of a message say: the service that is asked for or  *)
(* answered, the bit that suppresses a positive response, the kind of the   *)
(* response.  Nobody looks at those of an incomplete message.               *)
NoContent == [service |-> Unknown, suppress |-> FALSE, answer |-> "none"]
Contents(link) ==
    {c \in [service : Services, suppress : BOOLEAN, answer : Answers \cup {"none"}] :
        /\ c.suppress => c.service \in Subfunctions
        /\ IF link = "request" THEN c.answer = "none" ELSE c.answer # "none" /\ ~c.suppress}
    \cup {[NoContent EXCEPT !.answer = IF link = "request" THEN "none" ELSE "negative"]}

Message(link, content, first, complete) ==
    [link |-> link, content |-> content, first |-> first, last |-> clock,
     complete |-> complete]

NoSession == [first |-> 0, busy |-> FALSE]

NoCounts ==
    [requests |-> 0, positive |-> 0, negative |-> 0, timeout |-> 0, ended |-> 0,
     suppressed |-> 0, slow |-> 0, pending |-> 0, unmatched |-> 0, incomplete |-> 0]

Init ==
    /\ clock = 0 /\ begun = [l \in Links |-> NoSession] /\ messages = <<>>
    /\ next = 1 /\ phase = "frames" /\ open = <<>>
    /\ done = <<>> /\ tally = NoCounts /\ unmatched = <<>>
    /\ evidence = {} /\ truncated = FALSE

-----------------------------------------------------------------------------
(* The frames of the two identifiers, and reassembly.                       *)

Reading == phase = "frames" /\ next > Len(messages)
Room == Len(messages) + Cardinality({l \in Links : begun[l].busy}) < MaxMessages

Reads(m) == messages' = messages \o m /\ UNCHANGED <<next, phase, open, results, unmatched>>

Elapse ==
    /\ Reading /\ clock < MaxClock
    /\ clock' = clock + 1
    /\ UNCHANGED <<begun, messages, next, phase, open, results, unmatched>>

SingleFrame(link) ==
    /\ Reading /\ Room
    /\ \E c \in Contents(link) : Reads(<<Message(link, c, clock, TRUE)>>)
    /\ UNCHANGED <<clock, begun>>

(* What the session of an identifier becomes when it cannot be completed.   *)
Broken(link) ==
    IF begun[link].busy THEN <<Message(link, NoContent, begun[link].first, FALSE)>> ELSE <<>>

(* A first frame replaces the session that was not finished.                *)
FirstFrame(link) ==
    /\ Reading /\ Room /\ link \in LongLinks
    /\ begun' = [begun EXCEPT ![link] = [first |-> clock, busy |-> TRUE]]
    /\ Reads(Broken(link))
    /\ UNCHANGED clock

LastFrame(link) ==
    /\ Reading /\ begun[link].busy
    /\ begun' = [begun EXCEPT ![link] = NoSession]
    /\ \E c \in Contents(link) : Reads(<<Message(link, c, begun[link].first, TRUE)>>)
    /\ UNCHANGED clock

(* A consecutive frame with another number.                                 *)
WrongFrame(link) ==
    /\ Reading /\ begun[link].busy
    /\ begun' = [begun EXCEPT ![link] = NoSession]
    /\ Reads(Broken(link))
    /\ UNCHANGED clock

(* A frame that is cut short, or a consecutive frame without a first.       *)
StrayFrame(link) ==
    /\ Reading /\ Room /\ link \in LongLinks
    /\ Reads(<<Message(link, NoContent, clock, FALSE)>>)
    /\ UNCHANGED <<clock, begun>>

(* flush() of both reassemblers.                                            *)
EndOfCapture ==
    /\ Reading
    /\ phase' = "flushed"
    /\ messages' = messages \o Broken("request") \o Broken("response")
    /\ begun' = [l \in Links |-> NoSession]
    /\ UNCHANGED <<clock, next, open, results, unmatched>>

-----------------------------------------------------------------------------
(* Transactions.                                                            *)

(* _response_base_service_id: a service that is known, or none.             *)
ServiceOf(i) == messages[i].content.service

(* Slip: the newest of the evidence is pushed out.                          *)
RetainLast(t, n) ==
    IF Cardinality(evidence) < MaxEvidence
       THEN evidence' = evidence \cup {n} /\ UNCHANGED truncated
       ELSE /\ truncated' = TRUE
            /\ evidence' = (evidence \ {CHOOSE e \in evidence : \A f \in evidence : e >= f})
                               \cup {n}

(* (priority, latency, serial) of a transaction, as _retain_transaction     *)
(* compares them.                                                           *)
Latency(t, i) == IF i = 0 THEN 0 ELSE messages[i].first - messages[t.request].last
Measured(t) == IF t.final # 0 THEN Latency(t, t.final) ELSE Latency(t, t.first)
Rank(t, n) ==
    LET priority == CASE t.status = "timeout"    -> 6
                      [] t.status = "ended"      -> 5
                      [] t.status = "negative"   -> 4
                      [] t.status = "positive"   -> 2
                      [] t.status = "suppressed" -> 1
    IN << priority + (IF t.pendings # <<>> THEN 1 ELSE 0),
          Measured(t), n >>
Below(a, b) ==
    \/ a[1] < b[1]
    \/ a[1] = b[1] /\ a[2] < b[2]
    \/ a[1] = b[1] /\ a[2] = b[2] /\ a[3] < b[3]

Retain(t, n) ==
    LET rank(e) == IF e = n THEN Rank(t, n) ELSE Rank(done[e], e)
        least == CHOOSE e \in evidence : \A f \in evidence \ {e} : Below(rank(e), rank(f))
    IN IF Cardinality(evidence) < MaxEvidence
          THEN evidence' = evidence \cup {n} /\ UNCHANGED truncated
          ELSE /\ truncated' = TRUE
               /\ evidence' = IF Below(rank(least), rank(n)) THEN (evidence \ {least}) \cup {n}
                                                             ELSE evidence

(* Slip: transactions with pending responses are not counted.               *)
CountStatus(o, status) == [tally EXCEPT ![status] = @ + 1]

(* _finalize_request: o leaves with a status and a final response or none.  *)
Counted(o, status) ==
    [tally EXCEPT ![status] = @ + 1, !.slow = IF o.pendings # <<>> THEN @ + 1 ELSE @]

Transaction(o, status, final) ==
    [request |-> o.request, first |-> o.first, final |-> final,
     pendings |-> o.pendings, reference |-> o.reference, status |-> status]

Finalize(o, status, final) ==
    LET t == Transaction(o, status, final)
    IN /\ done' = Append(done, t)
       /\ tally' = Counted(o, status)
       /\ Retain(t, Len(done) + 1)

Without(s, i) == SubSeq(s, 1, i - 1) \o SubSeq(s, i + 1, Len(s))

(* The first place of a sequence that satisfies a test.                     *)
IsFirst(i, s, Test(_)) == i \in DOMAIN s /\ Test(s[i]) /\ \A j \in 1 .. i - 1 : ~Test(s[j])

Overdue(o, time) == time >= o.reference + Timeout

Busy == next <= Len(messages)
SomeOverdue == \E i \in DOMAIN open : Overdue(open[i], messages[next].first)

Silent(o) == IF messages[o.request].content.suppress /\ o.first = 0 THEN "suppressed"
                                                                     ELSE "timeout"

(* _expire_requests, at the start of the message: one request of the loop.  *)
Expire ==
    /\ Busy
    /\ \E i \in DOMAIN open :
          /\ IsFirst(i, open, LAMBDA o : Overdue(o, messages[next].first))
          /\ Finalize(open[i], Silent(open[i]), 0)
          /\ open' = Without(open, i)
    /\ UNCHANGED <<session, next, phase, unmatched>>

Passes == Busy /\ ~SomeOverdue /\ next' = next + 1 /\ UNCHANGED <<session, phase>>

CountIncomplete ==
    /\ Passes /\ ~messages[next].complete
    /\ tally' = [tally EXCEPT !.incomplete = @ + 1]
    /\ UNCHANGED <<open, done, evidence, truncated, unmatched>>

SkipUnknown ==
    /\ Passes /\ messages[next].complete /\ messages[next].link = "request"
    /\ ServiceOf(next) = Unknown
    /\ UNCHANGED <<open, results, unmatched>>

OpenRequest ==
    /\ Passes /\ messages[next].complete /\ messages[next].link = "request"
    /\ ServiceOf(next) # Unknown
    /\ open' = Append(open, [request |-> next, reference |-> messages[next].last,
                             first |-> 0, pendings |-> <<>>])
    /\ tally' = [tally EXCEPT !.requests = @ + 1]
    /\ UNCHANGED <<done, evidence, truncated, unmatched>>

(* Slip: the newest request that fits.                                      *)
FitsNewest(i) ==
    LET fits(o) == /\ ServiceOf(o.request) = ServiceOf(next)
                   /\ messages[next].first >= messages[o.request].last
    IN i \in DOMAIN open /\ fits(open[i]) /\ \A j \in i + 1 .. Len(open) : ~fits(open[j])

(* _find_matching_request: the oldest of the service that is not younger    *)
(* than the response.                                                       *)
Fits(i) ==
    IsFirst(i, open, LAMBDA o : /\ ServiceOf(o.request) = ServiceOf(next)
                                /\ messages[next].first >= messages[o.request].last)

Response == Passes /\ messages[next].complete /\ messages[next].link = "response"

Answered(o) == [o EXCEPT !.first = IF @ = 0 THEN next ELSE @]

(* 0x78: the transaction stays, with a new window.                          *)
ResponsePending ==
    /\ Response /\ messages[next].content.answer = "pending"
    /\ \E i \in DOMAIN open :
          /\ Fits(i)
          /\ open' = [open EXCEPT ![i] =
                [Answered(open[i]) EXCEPT !.pendings = Append(@, next),
                                          !.reference = messages[next].first]]
    /\ tally' = [tally EXCEPT !.pending = @ + 1]
    /\ UNCHANGED <<done, evidence, truncated, unmatched>>

FinalResponse ==
    /\ Response /\ messages[next].content.answer # "pending"
    /\ \E i \in DOMAIN open :
          /\ Fits(i)
          /\ Finalize(Answered(open[i]), messages[next].content.answer, next)
          /\ open' = Without(open, i)
    /\ UNCHANGED unmatched

(* _record_unmatched_response                                               *)
UnmatchedResponse ==
    /\ Response /\ ~\E i \in DOMAIN open : Fits(i)
    /\ unmatched' = Append(unmatched, next)
    /\ tally' = [tally EXCEPT !.unmatched = @ + 1]
    /\ UNCHANGED <<open, done, evidence, truncated>>

(* After the last message: what is still open ends with the capture, whose  *)
(* end is the time stamp of its last frame.                                 *)
Close ==
    /\ phase = "flushed" /\ ~Busy /\ open # <<>>
    /\ LET o == Head(open)
       IN Finalize(o, IF Silent(o) = "timeout" /\ ~Overdue(o, clock) THEN "ended" ELSE Silent(o),
                   0)
    /\ open' = Tail(open)
    /\ UNCHANGED <<session, next, phase, unmatched>>

Finish ==
    /\ phase = "flushed" /\ ~Busy /\ open = <<>>
    /\ phase' = "done"
    /\ UNCHANGED <<session, next, open, results, unmatched>>

-----------------------------------------------------------------------------

Frame ==
    \/ Elapse \/ EndOfCapture
    \/ \E link \in Links :
          SingleFrame(link) \/ FirstFrame(link) \/ LastFrame(link) \/ WrongFrame(link)
              \/ StrayFrame(link)

Analyze ==
    \/ Expire \/ CountIncomplete \/ SkipUnknown \/ OpenRequest
    \/ ResponsePending \/ FinalResponse \/ UnmatchedResponse \/ Close \/ Finish

Next == Frame \/ Analyze

Spec == Init /\ [][Next]_vars

-----------------------------------------------------------------------------

Statuses == {"positive", "negative", "timeout", "ended", "suppressed"}
Items(s) == {s[i] : i \in DOMAIN s}

(* What the loop has passed: messages, requests of a known service and      *)
(* responses; and what belongs to a transaction, open or done.              *)
Seen == {i \in 1 .. next - 1 : messages[i].complete}
Requests == {i \in Seen : messages[i].link = "request" /\ ServiceOf(i) # Unknown}
Responses == {i \in Seen : messages[i].link = "response"}
AnswersOf(t) == Items(t.pendings) \cup (IF "final" \in DOMAIN t /\ t.final # 0
                                           THEN {t.final} ELSE {})
Ended(status) == Cardinality({n \in DOMAIN done : done[n].status = status})

ContentType == [service : Services \cup {Unknown}, suppress : BOOLEAN,
                answer : Answers \cup {"none"}]
MessageType == [link : Links, content : ContentType, first : Nat, last : Nat,
                complete : BOOLEAN]
OpenType == [request : Nat, reference : Nat, first : Nat, pendings : Seq(Nat)]
DoneType == [request : Nat, first : Nat, final : Nat, pendings : Seq(Nat),
             reference : Nat, status : Statuses]
Counters == {"requests", "positive", "negative", "timeout", "ended", "suppressed",
             "slow", "pending", "unmatched", "incomplete"}

TypeOK ==
    /\ clock \in 0 .. MaxClock
    /\ begun \in [Links -> [first : Nat, busy : BOOLEAN]]
    /\ messages \in Seq(MessageType) /\ next \in 1 .. Len(messages) + 1
    /\ phase \in {"frames", "flushed", "done"}
    /\ open \in Seq(OpenType) /\ done \in Seq(DoneType)
    /\ tally \in [Counters -> Nat] /\ unmatched \in Seq(Nat)
    /\ evidence \subseteq DOMAIN done /\ truncated \in BOOLEAN

(* "Każde żądanie otrzymuje jeden status": every request of a known service *)
(* is open or has one transaction, every response belongs to one            *)
(* transaction or is unmatched, and the counters, which stay exact when     *)
(* evidence is dropped, say so.                                             *)
EachMessageOnce ==
    LET taken == open \o done
    IN /\ {taken[n].request : n \in DOMAIN taken} = Requests
       /\ Len(taken) = Cardinality(Requests) /\ tally.requests = Len(taken)
       /\ (UNION {AnswersOf(taken[n]) : n \in DOMAIN taken}) \cup Items(unmatched) = Responses
       /\ \A n, k \in DOMAIN taken : n # k => AnswersOf(taken[n]) \cap AnswersOf(taken[k]) = {}
       /\ \A n \in DOMAIN taken : AnswersOf(taken[n]) \cap Items(unmatched) = {}
       /\ \A status \in Statuses : tally[status] = Ended(status)
       /\ tally.slow = Cardinality({n \in DOMAIN done : done[n].pendings # <<>>})
       /\ tally.positive + tally.negative + tally.pending + tally.unmatched
              = Cardinality(Responses)

(* Pairing is first in, first out: no response goes to a request while an   *)
(* older one of the service waits for it.                                   *)
InOrder ==
    \A n, k \in DOMAIN done :
        /\ done[n].final # 0 /\ done[k].final # 0
        /\ ServiceOf(done[n].request) = ServiceOf(done[k].request)
        /\ done[n].request < done[k].request
        => done[n].final < done[k].final

(* The status of a transaction is what the session shows of it: an answer   *)
(* of its kind that began in its window; a timeout or a suppressed response *)
(* only when there was none, of one frame, that had nowhere else to go.     *)
StatusIsTrue ==
    \A n \in DOMAIN done :
        LET t == done[n]
            window(time) == messages[t.request].last <= time /\ time < t.reference + Timeout
        IN /\ t.status \in Answers =>
                  /\ window(messages[t.final].first)
                  /\ ServiceOf(t.final) = ServiceOf(t.request)
                  /\ messages[t.final].content.answer = t.status
           /\ t.status \in {"timeout", "ended"} => (t.status = "timeout") =
                                                   (clock >= t.reference + Timeout)
           /\ t.status = "suppressed" => t.pendings = <<>>
           /\ t.status \notin Answers =>
                  ~\E u \in Items(unmatched) :
                      /\ u > t.request /\ messages[u].first = messages[u].last
                      /\ ServiceOf(u) = ServiceOf(t.request) /\ window(messages[u].first)

(* Requests and responses are paired as they were on the bus.               *)
PairsAreTrue == InOrder /\ StatusIsTrue

(* The order of the stage's report (section "Bounded model"): timeouts, then *)
(* what the end of the capture interrupted, then negative responses; then   *)
(* those with 0x78; then the longest latencies.                             *)
Class(t) == CASE t.status = "timeout"  -> 3
              [] t.status = "ended"    -> 2
              [] t.status = "negative" -> 1
              [] OTHER                 -> 0
ReportRank(t) == << Class(t), IF t.pendings # <<>> THEN 1 ELSE 0, Measured(t) >>

(* What the code adds to a transaction with 0x78 is one step of the classes:*)
(* it reaches those of the next one that had none.                          *)
Lifted(e, n) ==
    /\ Class(e) # 0 /\ Class(n) = Class(e) + 1
    /\ e.pendings # <<>> /\ n.pendings = <<>>

(* No transaction is dropped for one that the report puts below it, but for *)
(* one lifted by its 0x78: the evidence that is kept is that of the         *)
(* timeouts, interrupted and negative ones before all others, and among     *)
(* equals that of the longest; and the analysis says when it dropped some.  *)
EvidenceIsBest ==
    /\ \A e \in evidence, n \in DOMAIN done \ evidence :
          Below(ReportRank(done[e]), ReportRank(done[n])) => Lifted(done[e], done[n])
    /\ Cardinality(evidence) = IF Len(done) > MaxEvidence THEN MaxEvidence ELSE Len(done)
    /\ truncated = (Len(done) > MaxEvidence)

(* The report lists its priorities without that exception: what is kept is  *)
(* never below what is dropped.                                             *)
EvidenceAsReported ==
    \A e \in evidence, n \in DOMAIN done \ evidence :
        ~Below(ReportRank(done[e]), ReportRank(done[n]))

(* A response is measured by its first frame, so one that began in the      *)
(* window answers its request however long it is.                           *)
LongResponsesFit ==
    \A n \in DOMAIN done, u \in Items(unmatched) :
        done[n].status = "timeout" /\ u > done[n].request
            /\ ServiceOf(u) = ServiceOf(done[n].request)
            /\ messages[done[n].request].last <= messages[u].first
        => messages[u].first >= done[n].reference + Timeout
-----------------------------------------------------------------------------
(* Why the properties hold.                                                 *)

(* Messages come in the order of their ends.                                *)
MessagesInv ==
    /\ \A l \in Links : begun[l].first <= clock
    /\ \A i \in DOMAIN messages :
          LET m == messages[i]
          IN  /\ m.first <= m.last /\ m.last <= clock
              /\ m.complete /\ m.link = "response" => m.content.answer \in Answers
    /\ \A i, j \in DOMAIN messages : i <= j => messages[i].last <= messages[j].last

(* Every request that was passed is at one place, the open ones in order.   *)
RequestsInv ==
    /\ \A i \in DOMAIN open : open[i].request \in Requests
    /\ \A n \in DOMAIN done : done[n].request \in Requests
    /\ \A i, j \in DOMAIN open : i < j => open[i].request < open[j].request
    /\ \A n, k \in DOMAIN done : n # k => done[n].request # done[k].request
    /\ \A i \in DOMAIN open, n \in DOMAIN done : open[i].request # done[n].request
    /\ \A r \in Requests :
          \/ \E i \in DOMAIN open : open[i].request = r
          \/ \E n \in DOMAIN done : done[n].request = r
    /\ Cardinality(Requests) = Len(open) + Len(done)
    /\ tally["requests"] = Len(open) + Len(done)

(* So is every response.                                                    *)
AnswersInv ==
    /\ \A i \in DOMAIN open : AnswersOf(open[i]) \subseteq Responses
    /\ \A n \in DOMAIN done : AnswersOf(done[n]) \subseteq Responses
    /\ Items(unmatched) \subseteq Responses
    /\ \A r \in Responses :
          \/ \E i \in DOMAIN open : r \in AnswersOf(open[i])
          \/ \E n \in DOMAIN done : r \in AnswersOf(done[n])
          \/ r \in Items(unmatched)
    /\ \A i, j \in DOMAIN open : i # j => AnswersOf(open[i]) \cap AnswersOf(open[j]) = {}
    /\ \A n, k \in DOMAIN done : n # k => AnswersOf(done[n]) \cap AnswersOf(done[k]) = {}
    /\ \A i \in DOMAIN open, n \in DOMAIN done :
          AnswersOf(open[i]) \cap AnswersOf(done[n]) = {}
    /\ \A i \in DOMAIN open : AnswersOf(open[i]) \cap Items(unmatched) = {}
    /\ \A n \in DOMAIN done : AnswersOf(done[n]) \cap Items(unmatched) = {}

CountsInv ==
    /\ \A status \in Statuses : tally[status] = Ended(status)
    /\ tally["slow"] = Cardinality({n \in DOMAIN done : done[n].pendings # <<>>})
    /\ tally["positive"] + tally["negative"] + tally["pending"] + tally["unmatched"]
          = Cardinality(Responses)

(* While a request is open, every response that fits it is given to it or   *)
(* to an older one, so that it misses only those that began before it.      *)
OpenInv ==
    \A i \in DOMAIN open :
        LET o == open[i]
        IN  /\ o.first = 0 <=> o.pendings = <<>>
            /\ o.first # 0 => /\ o.first \in DOMAIN messages
                              /\ messages[o.first].first >= messages[o.request].last
            /\ \A u \in Items(unmatched) :
                  u > o.request /\ ServiceOf(u) = ServiceOf(o.request)
                    => messages[u].first < messages[o.request].last

(* A transaction that was answered has its answer from its window; one that *)
(* was not is over for every message that is still to come, or there is     *)
(* none.                                                                    *)
DoneInv ==
    \A n \in DOMAIN done :
        LET t == done[n]
        IN  /\ t.first # 0 => /\ t.first \in DOMAIN messages
                              /\ messages[t.first].first >= messages[t.request].last
            /\ t.final # 0 <=> t.status \in Answers
            /\ t.final # 0 => /\ t.final \in Responses
                              /\ messages[t.final].first >= messages[t.request].last
                              /\ messages[t.final].first < t.reference + Timeout
                              /\ ServiceOf(t.final) = ServiceOf(t.request)
                              /\ messages[t.final].content.answer = t.status
            /\ t.status = "suppressed" => t.pendings = <<>> /\ t.first = 0
            /\ t.status = "timeout" => clock >= t.reference + Timeout
            /\ t.status = "ended" => clock < t.reference + Timeout /\ phase # "frames"
            /\ t.final = 0 =>
                  /\ phase = "frames" => clock >= t.reference + Timeout
                  /\ \A m \in next .. Len(messages) :
                        messages[m].last >= t.reference + Timeout
                  /\ \A u \in Items(unmatched) :
                        /\ u > t.request /\ messages[u].first = messages[u].last
                        /\ ServiceOf(u) = ServiceOf(t.request)
                        /\ messages[t.request].last <= messages[u].first
                        => messages[u].first >= t.reference + Timeout

(* No request waits that is older than an answered one of its service.      *)
OrderInv ==
    /\ InOrder
    /\ \A i \in DOMAIN open, n \in DOMAIN done :
          done[n].final # 0 /\ ServiceOf(done[n].request) = ServiceOf(open[i].request)
            => done[n].request < open[i].request

(* What the heap keeps ranks above what it dropped, by the numbers of the   *)
(* code.                                                                    *)
EvidenceRanks ==
    /\ \A e \in evidence, n \in DOMAIN done \ evidence : Below(Rank(done[n], n), Rank(done[e], e))
    /\ Cardinality(evidence) = IF Len(done) > MaxEvidence THEN MaxEvidence ELSE Len(done)
    /\ truncated = (Len(done) > MaxEvidence)

UdsIInv ==
    /\ TypeOK /\ MessagesInv /\ RequestsInv /\ AnswersInv /\ CountsInv
    /\ OpenInv /\ DoneInv /\ OrderInv /\ EvidenceRanks
=============================================================================
