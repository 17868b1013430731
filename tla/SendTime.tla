------------------------------- MODULE SendTime -------------------------------
(* Suggestions of times to send a message: instants of a search window are  *)
(* rejected or scored one after the other, sorted, and the best that lie    *)
(* far enough apart are answered. Instants are minutes since a Sunday 0:00  *)
(* UTC; a zone changes its offset at most once; a score is in hundredths.   *)
(* Texts, warnings and the breakdown of a score are left out.               *)
EXTENDS Integers, Sequences, FiniteSets, SequencesExt

CONSTANTS SendTimeRequest,        \* the requests that are made
          NoInstant,              \* no earliest or latest_send_at
          MaxRecipients, MaxSuggestions,
          MaxCandidates           \* the candidates of a search, however long its window

VARIABLE search                   \* the request that is answered, and how far
sendTimeVars == <<search>>

NotSearching == [pc |-> "idle"]
SendTimeInit == search = NotSearching

Day == 1440
Strategies == {"all_recipients", "majority", "primary_recipients", "best_effort"}

(* Participants and requests as they are resolved: hours are minutes of the *)
(* clock, in any order; instants may lie in the past.                       *)
Minute == 0..(Day - 1)
Participant ==
    [zone : [change : Int, before : Int, after : Int], days : SUBSET (0..6), work : Minute \X Minute,
     quiet : {<<>>} \cup (Minute \X Minute), busy : SUBSET (Int \X Int), primary : BOOLEAN]
Resolved(req) ==
    /\ req.recipients \in Seq(Participant) /\ req.sender \in SUBSET Participant
    /\ req.reference \in Int /\ req.delay \in Int /\ req.horizon \in Int /\ req.spacing \in Int
    /\ req.earliest \in Int \cup {NoInstant} /\ req.latest \in Int \cup {NoInstant}
    /\ req.strategy \in Strategies

ASSUME SendTimeAssumption ==
    /\ MaxRecipients \in Nat /\ MaxSuggestions \in Nat /\ MaxCandidates \in Nat
    /\ \A req \in SendTimeRequest : Resolved(req)

-----------------------------------------------------------------------------
(* Validate, of what a request has here. A delay may be negative.           *)
Valid(req) ==
    /\ Len(req.recipients) \in 1..MaxRecipients
    /\ req.interval \in {5, 10, 15, 30, 60}
    /\ req.count \in 1..MaxSuggestions
    /\ req.horizon >= 1
    /\ NoInstant \notin {req.earliest, req.latest} => req.latest > req.earliest
    /\ req.coverage \in 0..100

WindowStart(req) ==
    LET delayed == req.reference + req.delay IN
    IF req.earliest # NoInstant /\ req.earliest > delayed THEN req.earliest ELSE delayed
Horizon(req) == (IF req.horizon > 30 THEN 30 ELSE req.horizon) * Day
WindowEnd(req) == IF req.latest = NoInstant THEN req.reference + Horizon(req) ELSE req.latest
AlignUp(t, d) == IF t % d = 0 THEN t ELSE t - (t % d) + d

-----------------------------------------------------------------------------
(* What the clock of a participant shows at an instant.                     *)
Local(p, t) == t + (IF t < p.zone.change THEN p.zone.before ELSE p.zone.after)
MinuteOfDay(p, t) == Local(p, t) % Day
LocalDay(p, t) == Local(p, t) \div Day
Weekday(p, t) == LocalDay(p, t) % 7

\* Variant: quiet hours do not cross midnight.
InQuietByDay(m, hours) == m >= hours[1] /\ m < hours[2]

InQuiet(m, hours) ==
    /\ hours[1] # hours[2]
    /\ IF hours[1] < hours[2] THEN m >= hours[1] /\ m < hours[2] ELSE m >= hours[1] \/ m < hours[2]
InAnyWindow(m, windows) ==
    \E w \in windows : IF w[1] <= w[2] THEN m >= w[1] /\ m < w[2] ELSE m >= w[1] \/ m < w[2]

WithinWorking(p, t) ==
    /\ Weekday(p, t) \in p.days
    /\ MinuteOfDay(p, t) >= p.work[1] /\ MinuteOfDay(p, t) < p.work[2]
WithinQuiet(p, t) == p.quiet # <<>> /\ InQuiet(MinuteOfDay(p, t), p.quiet)
IsBusy(p, t) == \E b \in p.busy : t >= b[1] /\ t < b[2]

(* The hard constraints of a recipient, and of the whole candidate.         *)
RecipientValid(req, p, t) ==
    /\ req.avoidWeekends => Weekday(p, t) \notin {0, 6}
    /\ req.avoidHolidays => LocalDay(p, t) \notin req.holidays
    /\ req.workingHoursOnly => WithinWorking(p, t)
    /\ req.respectQuiet => ~WithinQuiet(p, t)
    /\ req.requireCalFree => ~IsBusy(p, t)

Recipients(req) == DOMAIN req.recipients
ValidRecipients(req, t) == {i \in Recipients(req) : RecipientValid(req, req.recipients[i], t)}
Primaries(req) == {i \in Recipients(req) : req.recipients[i].primary}

Covers(req, valid) ==
    LET all == valid = Recipients(req)
        enough == 100 * Cardinality(valid) >= req.coverage * Len(req.recipients) IN
    CASE req.strategy = "best_effort" -> TRUE
      [] req.strategy = "primary_recipients" -> IF Primaries(req) = {} THEN all ELSE Primaries(req) \subseteq valid
      [] req.strategy = "majority" -> enough
      [] OTHER -> IF req.coverage < 100 THEN enough ELSE all

Accepts(req, t) ==
    /\ t >= req.reference
    /\ req.respectQuiet => \A s \in req.sender : ~WithinQuiet(s, t)
    /\ Covers(req, ValidRecipients(req, t))

-----------------------------------------------------------------------------
(* The score, with numerators over a common denominator.                    *)
MinuteDistance(a, b) == LET d == IF a < b THEN b - a ELSE a - b IN IF d > 720 THEN Day - d ELSE d
AnyRecipient(req, Holds(_)) == \E i \in Recipients(req) : Holds(req.recipients[i])
Penalty(applies, hundredths) == IF applies THEN hundredths ELSE 0

Penalties(req, t) ==
    LET m(p) == MinuteOfDay(p, t)
        lunch(p) == m(p) >= 720 /\ m(p) < 780
        endOfDay(p) == WithinWorking(p, t) /\ m(p) >= p.work[2] - 30
        startOfDay(p) == WithinWorking(p, t) /\ m(p) < p.work[1] + 15
        quietProx(p) == p.quiet # <<>> /\ \E i \in 1..2 : MinuteDistance(m(p), p.quiet[i]) <= 30
        friday(p) == Weekday(p, t) = 5 /\ m(p) >= 900
        avoided(p) == InAnyWindow(m(p), req.avoid)
    IN  Penalty(AnyRecipient(req, lunch), 10) + Penalty(AnyRecipient(req, endOfDay), 10)
          + Penalty(AnyRecipient(req, startOfDay), 3) + Penalty(AnyRecipient(req, quietProx), 10)
          + Penalty(AnyRecipient(req, friday), 10) + Penalty(AnyRecipient(req, avoided), 10)
          + Penalty(req.priority \in {"high", "urgent"} /\ t - req.reference > 2880, 15)

Count(req, Holds(_)) == Cardinality({i \in Recipients(req) : Holds(req.recipients[i])})
Ratio(req, t) == (200 * Cardinality(ValidRecipients(req, t)) + Len(req.recipients)) \div (2 * Len(req.recipients))
PriorityPart(req) ==
    CASE req.priority = "urgent" -> 10 [] req.priority = "high" -> 8 [] req.priority = "low" -> 4 [] OTHER -> 6
DayPart(p, t) == CASE Weekday(p, t) \in {0, 6} -> 20 [] Weekday(p, t) = 5 -> 50 [] OTHER -> 100
DelayPart(req, t) ==
    LET delay == t - req.reference IN
    Horizon(req) - (IF delay < 0 THEN 0 ELSE IF delay > Horizon(req) THEN Horizon(req) ELSE delay)

Score(req, t) ==
    LET n == Len(req.recipients)
        unit == n * Horizon(req)
        working(p) == WithinWorking(p, t)
        preferred(p) == InAnyWindow(MinuteOfDay(p, t), req.preferred)
        overlap == IF req.preferOverlap /\ \A s \in req.sender : WithinWorking(s, t) THEN Count(req, working) ELSE 0
        sum == 20 * Horizon(req) * (30 * Count(req, working) + 20 * Count(req, preferred) + 15 * overlap)
                 + 3 * unit * Ratio(req, t) + 20 * unit * PriorityPart(req)
                 + 100 * n * DelayPart(req, t) + unit * DayPart(req.recipients[1], t)
                 - 20 * unit * Penalties(req, t)
        rounded == (sum + 10 * unit) \div (20 * unit)
    IN  IF rounded < 0 THEN 0 ELSE IF rounded > 100 THEN 100 ELSE rounded

Candidate(t, score, forced) == [instant |-> t, score |-> score, forced |-> forced]

-----------------------------------------------------------------------------
(* Instants of candidates are distinct, so no later tie-breaker is reached, *)
(* and the place of a candidate is the number of those before it.           *)
LessCandidate(a, b) == a.score > b.score \/ (a.score = b.score /\ a.instant < b.instant)
Sorted(candidates) ==
    LET place(c) == 1 + Cardinality({d \in candidates : LessCandidate(d, c)}) IN
    [k \in 1..Cardinality(candidates) |-> CHOOSE c \in candidates : place(c) = k]

(* An urgent message is also suggested for the start of the window, without *)
(* a look at the constraints.                                               *)
Immediate(req) == Candidate(WindowStart(req), 100, TRUE)
Ordered(req, scored) ==
    IF req.priority # "urgent" THEN Sorted(scored)
    ELSE <<Immediate(req)>> \o Sorted({c \in scored : c.instant # WindowStart(req)})

\* Variant: a candidate is compared with the one picked last.
ApartFromLast(req, picked, c) ==
    picked = <<>> \/ c.forced \/ LET d == c.instant - Last(picked).instant IN d >= req.spacing \/ -d >= req.spacing

Apart(req, picked, c) ==
    \/ picked = <<>> \/ c.forced
    \/ \A i \in DOMAIN picked : LET d == c.instant - picked[i].instant IN d >= req.spacing \/ -d >= req.spacing

(* As many more candidates as fit, in their order.                          *)
Fits(req, spread, picked, c) ==
    Len(picked) < req.count /\ c \notin Range(picked) /\ (spread => Apart(req, picked, c))
Filled(req, spread, picked, ordered) ==
    LET some[k \in Nat] ==
            IF k = 0 THEN picked
            ELSE LET before == some[k - 1] IN
                 IF Fits(req, spread, before, ordered[k]) THEN Append(before, ordered[k]) ELSE before
    IN  some[Len(ordered)]
SelectSuggestions(req, ordered) ==
    IF ~req.diversify \/ req.spacing <= 0 THEN Filled(req, FALSE, <<>>, ordered)
    ELSE Filled(req, FALSE, Filled(req, TRUE, <<>>, ordered), ordered)

(* Whether to send now, or as soon as the window starts.                    *)
SendNow(req) ==
    LET t == IF WindowStart(req) > req.reference THEN WindowStart(req) ELSE req.reference
        score == IF Accepts(req, t) THEN Score(req, t) ELSE 0 IN
    [instant |-> t, score |-> score, recommended |-> req.priority = "urgent" \/ (Accepts(req, t) /\ score >= 70)]

-----------------------------------------------------------------------------
SendTimeSuggestions(req) ==
    /\ search.pc = "idle" /\ Valid(req)
    /\ search' = [pc |-> "searching", request |-> req, scored |-> {}, generated |-> 0,
                  candidate |-> AlignUp(WindowStart(req), req.interval)]

SearchGoesOn == search.candidate <= WindowEnd(search.request) /\ search.generated < MaxCandidates
EvaluateCandidate ==
    /\ search.pc = "searching" /\ SearchGoesOn
    /\ LET req == search.request
           t == search.candidate IN
       search' = [search EXCEPT !.candidate = t + req.interval, !.generated = @ + 1,
                      !.scored = IF Accepts(req, t) THEN @ \cup {Candidate(t, Score(req, t), FALSE)} ELSE @]

Suggest ==
    /\ search.pc = "searching" /\ ~SearchGoesOn
    /\ LET req == search.request IN
       search' = [pc |-> "answered", request |-> req, scored |-> search.scored, sendNow |-> SendNow(req),
                  suggestions |-> SelectSuggestions(req, Ordered(req, search.scored))]

Respond == search.pc = "answered" /\ search' = NotSearching

SendTimeNext ==
    \/ \E req \in SendTimeRequest : SendTimeSuggestions(req)
    \/ EvaluateCandidate \/ Suggest \/ Respond
SendTimeSpec == SendTimeInit /\ [][SendTimeNext]_sendTimeVars

-----------------------------------------------------------------------------
(* Properties.                                                              *)

(* Quiet, working and coverage constraints as the API's fields define them: *)
(* quiet hours are an arc of the clock, whatever side of midnight it is on; *)
(* working hours are one too, which ends on the day it starts, or none.     *)
OnArc(m, hours) == (m - hours[1]) % Day < (hours[2] - hours[1]) % Day
Quiet(p, t) == p.quiet # <<>> /\ OnArc(MinuteOfDay(p, t), p.quiet)
Reaches(req, p, t) ==
    /\ ~(req.respectQuiet /\ Quiet(p, t)) /\ ~(req.requireCalFree /\ IsBusy(p, t))
    /\ ~(req.workingHoursOnly /\ ~(Weekday(p, t) \in p.days /\ p.work[1] < p.work[2] /\ OnArc(MinuteOfDay(p, t), p.work)))
    /\ ~(req.avoidHolidays /\ LocalDay(p, t) \in req.holidays) /\ ~(req.avoidWeekends /\ Weekday(p, t) % 6 = 0)
Allowed(req, t) ==
    LET missed == {i \in Recipients(req) : ~Reaches(req, req.recipients[i], t)} IN
    /\ t >= WindowStart(req) /\ t >= req.reference /\ t <= WindowEnd(req)
    /\ ~\E s \in req.sender : req.respectQuiet /\ Quiet(s, t)
    /\ CASE req.strategy = "best_effort" -> TRUE
         [] req.strategy = "primary_recipients" /\ Primaries(req) # {} -> missed \cap Primaries(req) = {}
         [] req.strategy = "primary_recipients" /\ Primaries(req) = {} -> missed = {}
         [] OTHER -> 100 * Cardinality(missed) <= (100 - req.coverage) * Len(req.recipients)

(* A message is never suggested for a moment that its constraints forbid,   *)
(* over midnight, over a change of the clock, and for recipients of several *)
(* zones; only the immediate send of an urgent message is exempt. Nor is a  *)
(* moment of the search left out that they allow (evaluate, inQuiet,        *)
(* evalParticipant, recipientValid, alignUp).                               *)
SuggestionsAllowed ==
    search.pc = "answered" =>
        LET req == search.request
            last == (WindowEnd(req) - WindowStart(req)) \div req.interval
            step == {AlignUp(WindowStart(req), req.interval) + k * req.interval :
                        k \in 0..(IF last < MaxCandidates THEN last ELSE MaxCandidates - 1)} IN
        /\ \A i \in DOMAIN search.suggestions :
               search.suggestions[i].forced \/ Allowed(req, search.suggestions[i].instant)
        /\ {c.instant : c \in search.scored} = {t \in step : Allowed(req, t)}

(* The answer is as long as it can be, has no moment twice, starts with the *)
(* best, and takes a moment near another only when every moment that is     *)
(* left is near one it has; and if now is a candidate, nothing it could     *)
(* have suggested is better than its first (selectSuggestions,              *)
(* lessCandidate, evaluateSendNow).                                         *)
Near(req, c, d) == LET gap == c.instant - d.instant IN gap < req.spacing /\ -gap < req.spacing
SpreadBestFirst ==
    search.pc = "answered" =>
        LET req == search.request
            all == Range(Ordered(req, search.scored))
            s == search.suggestions
            has(i) == {s[k] : k \in 1..i}
            crowded(i) == req.diversify /\ \E d \in has(i - 1) : Near(req, s[i], d)
        IN  /\ Cardinality(Range(s)) = Len(s) /\ Range(s) \subseteq all
            /\ Len(s) = (IF Cardinality(all) < req.count THEN Cardinality(all) ELSE req.count)
            /\ \A i \in DOMAIN s, c \in all \ Range(s) :
                   \/ s[i].forced \/ ~LessCandidate(c, s[i])
                   \/ req.diversify /\ ~crowded(i) /\ \E d \in has(i - 1) : Near(req, c, d)
            /\ \A i \in DOMAIN s : crowded(i) => \A c \in all \ has(i - 1) : \E d \in has(i - 1) : Near(req, c, d)
            /\ s # <<>> /\ search.sendNow.instant \in {c.instant : c \in search.scored}
                   => s[1].score >= search.sendNow.score
=============================================================================
