-------------------------- MODULE Requests_proofs ---------------------------
(***************************************************************************)
(* Theorems about what the server does with requests that are no signups,  *)
(* for every bound: what leaves through the monitoring tunnel and through  *)
(* the scrubbers, and what the proxy answers to an Accept header.          *)
(***************************************************************************)
EXTENDS MonitoringTunnel, Negotiation, Redaction, FiniteSetTheorems, SequenceTheorems,
        WellFoundedInduction, TLAPS

(* The monitoring tunnel                                                   *)

\* The request has passed every check that precedes its body.
Admitted ==
    /\ request.dsn = "usable" /\ ~request.pipeline /\ request.target = "ours"
    /\ request.configured => request.origin # "foreign"

\* The chunks held are all that was sent, until the end of the body is known.
BodyInv ==
    /\ sent \in 0..(Limit + 1) /\ ended \in BOOLEAN
    /\ stage \in {"idle", "checks"} => sent = 0 /\ buffered = 0
    /\ stage \in {"reading", "forward"} => buffered = sent
    /\ stage = "forward" => ended

\* Nothing leaves before it was admitted and read to its end.
ForwardInv ==
    /\ stage \in {"reading", "forward", "respond"} => Admitted
    /\ stage \in {"idle", "checks", "reading", "forward"} => forwarded = -1 /\ upstream = 0
    /\ stage = "respond" => upstream # 0
    /\ forwarded # -1 => ended /\ forwarded = sent /\ sent <= Limit /\ Admitted

\* The line a suppressed request left is still there when it is answered; no other
\* request has a line before its answer.
LogInv ==
    /\ stage = "checks" =>
         IF request.pipeline /\ request.dsn # "blank" /\ request.configured
         THEN logged.level = "warn" ELSE logged = NoLine
    /\ stage \in {"reading", "forward", "respond"} => logged = NoLine
    /\ FaultsAreVisible

TunnelInv ==
    /\ TunnelTypeOK
    /\ request \in Requests
    /\ BodyInv /\ ForwardInv /\ LogInv

-----------------------------------------------------------------------------
\* The invariant holds before a request arrives.
LEMMA InitTunnel == TunnelInit => TunnelInv
  <1> SUFFICES ASSUME TunnelInit PROVE TunnelInv
    OBVIOUS
  <1>1. request \in Requests
    BY LimitAssumption DEF TunnelInit, NoRequest, Requests, Dsns
  <1>2. TunnelTypeOK
    BY LimitAssumption DEF TunnelInit, TunnelTypeOK
  <1>3. BodyInv
    <2>1. sent \in 0..(Limit + 1)
      BY LimitAssumption DEF TunnelInit
    <2>2. ended \in BOOLEAN
      BY Zenon DEF TunnelInit
    <2> QED BY <2>1, <2>2 DEF TunnelInit, BodyInv
  <1>4. ForwardInv
    BY LimitAssumption DEF TunnelInit, ForwardInv
  <1>5. LogInv
    BY DEF TunnelInit, LogInv, NoLine, FaultsAreVisible
  <1> QED BY <1>1, <1>2, <1>3, <1>4, <1>5 DEF TunnelInv

\* A request that arrives is unread, and has its line if it is suppressed.
LEMMA ArriveTunnel ==
    ASSUME TunnelInv, NEW r \in Requests, Arrive(r)
    PROVE  TunnelInv'
  BY LimitAssumption
  DEF Arrive, TunnelInv, TunnelTypeOK, NoLine, BodyInv, ForwardInv, LogInv,
      Admitted, FaultsAreVisible

\* A failed check answers with a line, unless Sentry is not configured.
LEMMA CheckFailsTunnel ==
    ASSUME TunnelInv, CheckFails
    PROVE  TunnelInv'
  <1>1. UNCHANGED <<request, sent, ended, buffered, forwarded, upstream>> /\ stage = "checks"
    BY DEF CheckFails
  <1>2. /\ stage' = "done" /\ answer' \in {403, 404, 413}
        /\ \/ answer' = 404 /\ DsnSeen = "blank" /\ UNCHANGED logged
           \/ \E code \in {"dsn_unparseable", "foreign_origin", "org_project_mismatch",
                           "oversized_declared"} : logged' = Line("warn", code)
    BY DEF CheckFails, Reject
  <1>3. FaultsAreVisible'
    <2>1. stage = "checks" /\ forwarded = -1 /\ request \in Requests
      BY <1>1 DEF TunnelInv, ForwardInv
    <2>2. CASE answer' = 404 /\ DsnSeen = "blank" /\ UNCHANGED logged
      <3>1. SUFFICES ASSUME request.configured, request.dsn # "blank"
                     PROVE  logged.level = "warn"
        BY <1>1, <2>1, <2>2 DEF FaultsAreVisible, NoLine
      <3>2. request.pipeline
        BY <2>2, <3>1 DEF DsnSeen
      <3> QED
        BY <2>1, <3>1, <3>2 DEF TunnelInv, LogInv
    <2>3. CASE \E code \in {"dsn_unparseable", "foreign_origin", "org_project_mismatch",
                            "oversized_declared"} : logged' = Line("warn", code)
      BY <1>1, <1>2, <2>1, <2>3 DEF FaultsAreVisible, Line, NoLine
    <2> QED
      BY <1>2, <2>2, <2>3
  <1> QED BY <1>1, <1>2, <1>3
      DEF TunnelInv, TunnelTypeOK, BodyInv, ForwardInv, LogInv, Admitted

\* Only an admitted request has its body read.
LEMMA ChecksPassTunnel ==
    ASSUME TunnelInv, ChecksPass
    PROVE  TunnelInv'
  BY DEF ChecksPass, DsnSeen, ForeignOrigin, TunnelInv, TunnelTypeOK, Requests, BodyInv,
         ForwardInv, LogInv, Admitted, FaultsAreVisible

\* A chunk is kept within the limit, or ends the reading.
LEMMA ReadChunkTunnel ==
    ASSUME TunnelInv, NEW n \in 1..(Limit + 1), ReadChunk(n)
    PROVE  TunnelInv'
  <1>1. CASE buffered + n > Limit
    BY <1>1, LimitAssumption
    DEF ReadChunk, Oversized, Reject, Line, TunnelInv, TunnelTypeOK, BodyInv, ForwardInv,
        LogInv, Admitted, FaultsAreVisible, NoLine
  <1>2. CASE ~(buffered + n > Limit)
    BY <1>2, LimitAssumption
    DEF ReadChunk, TunnelInv, TunnelTypeOK, BodyInv, ForwardInv, LogInv, Admitted,
        FaultsAreVisible
  <1> QED BY <1>1, <1>2

\* The end of the body, or its failure.
LEMMA BodyTunnel ==
    ASSUME TunnelInv, BodyEnds \/ BodyBreaks
    PROVE  TunnelInv'
  <1>1. CASE BodyEnds
    BY <1>1
    DEF BodyEnds, TunnelInv, TunnelTypeOK, BodyInv, ForwardInv, LogInv, Admitted,
        FaultsAreVisible
  <1>2. CASE BodyBreaks
    BY <1>2
    DEF BodyBreaks, BodyUnreadable, Reject, Line, TunnelInv, TunnelTypeOK, BodyInv,
        ForwardInv, LogInv, Admitted, FaultsAreVisible, NoLine
  <1> QED BY <1>1, <1>2

\* What was read whole is forwarded, and Sentry's answer relayed; or a fault is logged.
LEMMA ForwardTunnel ==
    ASSUME TunnelInv,
           \/ \E status \in SentryStatuses : Forward(status)
           \/ Relay \/ ForwardThrows \/ AnswerThrows
    PROVE  TunnelInv'
  <1>1. ASSUME NEW status \in SentryStatuses, Forward(status)
        PROVE  TunnelInv'
    BY <1>1, LimitAssumption, SentryAssumption
    DEF Forward, TunnelInv, TunnelTypeOK, BodyInv, ForwardInv, LogInv, Admitted,
        FaultsAreVisible
  <1>2. CASE ForwardThrows
    BY <1>2, LimitAssumption
    DEF ForwardThrows, Fault, Line, TunnelInv, TunnelTypeOK, BodyInv, ForwardInv, LogInv,
        Admitted, FaultsAreVisible, NoLine
  <1>3. CASE AnswerThrows
    BY <1>3
    DEF AnswerThrows, Fault, Line, TunnelInv, TunnelTypeOK, BodyInv, ForwardInv, LogInv,
        Admitted, FaultsAreVisible, NoLine
  <1>4. CASE Relay
    BY <1>4
    DEF Relay, TunnelInv, TunnelTypeOK, BodyInv, ForwardInv, LogInv, Admitted,
        FaultsAreVisible, NoLine
  <1> QED BY <1>1, <1>2, <1>3, <1>4

-----------------------------------------------------------------------------
\* Every reachable state of the tunnel satisfies the invariant, whatever the limit.
THEOREM TunnelInvariance == TunnelSpec => []TunnelInv
  <1>1. ASSUME TunnelInv, [TunnelNext]_tunnelVars
        PROVE  TunnelInv'
    <2>1. CASE UNCHANGED tunnelVars
      BY <1>1, <2>1
      DEF tunnelVars, TunnelInv, TunnelTypeOK, BodyInv, ForwardInv, LogInv, Admitted,
          FaultsAreVisible
    <2> QED BY <1>1, <2>1, ArriveTunnel, CheckFailsTunnel, ChecksPassTunnel,
               ReadChunkTunnel, BodyTunnel, ForwardTunnel
        DEF TunnelNext
  <1> QED BY <1>1, InitTunnel, PTL DEF TunnelSpec

\* An envelope leaves whole, within the limit whatever size was declared, and only for
\* a request that every check admitted.
THEOREM WholeEnvelopes == TunnelSpec => []OnlyWholeEnvelopesLeave
  <1>1. TunnelInv => OnlyWholeEnvelopesLeave
    BY DEF TunnelInv, ForwardInv, Admitted, OnlyWholeEnvelopesLeave
  <1> QED BY <1>1, TunnelInvariance, PTL

\* Whatever Sentry answers, silence means its own answer, a warning that nothing has left,
\* and an error a fault.
THEOREM VisibleFaults == TunnelSpec => []FaultsAreVisible
  <1>1. TunnelInv => FaultsAreVisible
    BY DEF TunnelInv, LogInv
  <1> QED BY <1>1, TunnelInvariance, PTL

-----------------------------------------------------------------------------
(* The proxy                                                               *)

\* The range at an index of the header, as it is parsed.
Parsed(accept, i) ==
    [names |-> accept[i].names, index |-> i, quality |-> ParseQuality(accept[i].q)]

\* The ranges that are kept, and their specificity, are the header's own.
LEMMA ParsedRanges ==
    ASSUME NEW n \in Nat, NEW accept \in [1..n -> RawRange], NEW rep \in Representations
    PROVE  /\ \A i \in 1..n :
                /\ Parsed(accept, i).index = i
                /\ Parsed(accept, i).quality = Weight(accept, i)
                /\ Specificity(Parsed(accept, i), rep) = Specificity(accept[i], rep)
                /\ Specificity(accept[i], rep) \in 0..3
                /\ Weight(accept, i) \in Nat
           /\ \A r : r \in Matching(ParseAccept(accept), rep) <=>
                \E i \in 1..n : r = Parsed(accept, i) /\ Specificity(accept[i], rep) > 0
  <1>1. \A i \in 1..n : accept[i] \in RawRange
    OBVIOUS
  <1>2. ASSUME NEW i \in 1..n
        PROVE  /\ Parsed(accept, i).index = i
               /\ Parsed(accept, i).quality = Weight(accept, i)
               /\ Specificity(Parsed(accept, i), rep) = Specificity(accept[i], rep)
               /\ Specificity(accept[i], rep) \in 0..3
               /\ Weight(accept, i) \in Nat
    BY DEF Parsed, ParseQuality, Weight, Specificity
  <1>3. ASSUME NEW i \in 1..n, Specificity(accept[i], rep) > 0
        PROVE  accept[i].names # "malformed"
    BY <1>3 DEF Specificity, Representations
  <1>4. \A r : r \in ParseAccept(accept) <=>
                \E i \in 1..n : r = Parsed(accept, i) /\ accept[i].names # "malformed"
    BY DEF ParseAccept, Parsed
  <1> HIDE DEF Parsed
  <1>5. \A r : r \in Matching(ParseAccept(accept), rep) <=>
                \E i \in 1..n : r = Parsed(accept, i) /\ Specificity(accept[i], rep) > 0
    BY <1>2, <1>3, <1>4 DEF Matching
  <1> QED
    BY <1>2, <1>5

\* bestMatch finds the range that governs, which is the only one.
LEMMA BestGoverns ==
    ASSUME NEW n \in Nat, NEW accept \in [1..n -> RawRange], NEW rep \in Representations
    PROVE  /\ \A r : r \in BestMatch(ParseAccept(accept), rep) <=>
                \E i \in 1..n : r = Parsed(accept, i) /\ Governs(accept, rep, i)
           /\ \A i, j \in 1..n :
                Governs(accept, rep, i) /\ Governs(accept, rep, j) => i = j
  <1> DEFINE Spec(i) == Specificity(accept[i], rep)
             matching == Matching(ParseAccept(accept), rep)
  <1>1. \A i \in 1..n :
          Governs(accept, rep, i) <=>
             /\ Spec(i) > 0
             /\ \A j \in 1..n : Spec(j) <= Spec(i) /\ (Spec(j) = Spec(i) => i <= j)
    BY DEF Governs
  <1>2. \A i \in 1..n : /\ Parsed(accept, i).index = i
                        /\ Specificity(Parsed(accept, i), rep) = Spec(i)
                        /\ Spec(i) \in 0..3
    BY ParsedRanges
  <1>3. \A r : r \in matching <=> \E i \in 1..n : r = Parsed(accept, i) /\ Spec(i) > 0
    BY ParsedRanges
  <1>4. \A r : r \in BestMatch(ParseAccept(accept), rep) <=>
           r \in matching /\ \A o \in matching : o = r \/ More(r, o, rep)
    BY DEF BestMatch
  <1>5. \A i, j \in 1..n : More(Parsed(accept, i), Parsed(accept, j), rep) <=>
           Spec(i) > Spec(j) \/ (Spec(i) = Spec(j) /\ i < j)
    BY <1>2 DEF More
  <1>6. \A i, j \in 1..n : Parsed(accept, i) = Parsed(accept, j) => i = j
    BY <1>2
  <1> HIDE DEF Spec, matching
  <1>7. ASSUME NEW i \in 1..n, Governs(accept, rep, i)
        PROVE  Parsed(accept, i) \in BestMatch(ParseAccept(accept), rep)
    <2>1. Parsed(accept, i) \in matching
      BY <1>1, <1>3, <1>7
    <2>2. ASSUME NEW o \in matching PROVE o = Parsed(accept, i) \/ More(Parsed(accept, i), o, rep)
      <3>1. PICK j \in 1..n : o = Parsed(accept, j) /\ Spec(j) > 0
        BY <1>3, <2>2
      <3>2. Spec(j) <= Spec(i) /\ (Spec(j) = Spec(i) => i <= j)
        BY <1>1, <1>7
      <3>3. Spec(i) > Spec(j) \/ (Spec(i) = Spec(j) /\ i < j) \/ i = j
        BY <1>2, <3>2
      <3> QED
        BY <1>5, <3>1, <3>3
    <2> QED
      BY <1>4, <2>1, <2>2
  <1>8. ASSUME NEW r \in BestMatch(ParseAccept(accept), rep)
        PROVE  \E i \in 1..n : r = Parsed(accept, i) /\ Governs(accept, rep, i)
    <2>1. PICK i \in 1..n : r = Parsed(accept, i) /\ Spec(i) > 0
      BY <1>3, <1>4, <1>8
    <2>2. ASSUME NEW j \in 1..n PROVE Spec(j) <= Spec(i) /\ (Spec(j) = Spec(i) => i <= j)
      <3>1. CASE Spec(j) > 0
        <4>1. Parsed(accept, j) \in matching
          BY <1>3, <3>1
        <4>2. i = j \/ More(Parsed(accept, i), Parsed(accept, j), rep)
          BY <1>4, <1>6, <1>8, <2>1, <4>1
        <4>3. i = j \/ Spec(i) > Spec(j) \/ (Spec(i) = Spec(j) /\ i < j)
          BY <1>5, <4>2
        <4> QED
          BY <1>2, <4>3
      <3>2. CASE ~(Spec(j) > 0)
        BY <1>2, <2>1, <3>2
      <3> QED
        BY <3>1, <3>2
    <2> QED
      BY <1>1, <2>1, <2>2
  <1>9. ASSUME NEW i \in 1..n, NEW j \in 1..n,
               Governs(accept, rep, i), Governs(accept, rep, j)
        PROVE  i = j
    <2>1. Spec(j) <= Spec(i) /\ (Spec(j) = Spec(i) => i <= j)
      BY <1>1, <1>9
    <2>2. Spec(i) <= Spec(j) /\ (Spec(i) = Spec(j) => j <= i)
      BY <1>1, <1>9
    <2> QED
      BY <1>2, <2>1, <2>2
  <1> QED
    BY <1>7, <1>8, <1>9

\* A representation is a candidate exactly when it is acceptable, with the weight and the
\* index of the range that governs it.
LEMMA AcceptableCandidates ==
    ASSUME NEW n \in Nat, NEW accept \in [1..n -> RawRange]
    PROVE  \A c : c \in Candidates(ParseAccept(accept)) <=>
             \E rep \in Representations : \E i \in 1..n :
                /\ Governs(accept, rep, i) /\ Weight(accept, i) > 0
                /\ c = [representation |-> rep, quality |-> Weight(accept, i),
                        acceptIndex |-> i, serverIndex |-> IF rep = "html" THEN 0 ELSE 1]
  <1> DEFINE Score(rep, best) ==
                [representation |-> rep, quality |-> best.quality,
                 acceptIndex |-> best.index, serverIndex |-> IF rep = "html" THEN 0 ELSE 1]
             Best(rep) == BestMatch(ParseAccept(accept), rep)
  <1>1. \A c : c \in Candidates(ParseAccept(accept)) <=>
           \E rep \in Representations : \E best \in Best(rep) :
              best.quality > 0 /\ c = Score(rep, best)
    BY DEF Candidates
  <1>2. ASSUME NEW rep \in Representations
        PROVE  \A c : (\E best \in Best(rep) : best.quality > 0 /\ c = Score(rep, best)) <=>
                  \E i \in 1..n :
                    /\ Governs(accept, rep, i) /\ Weight(accept, i) > 0
                    /\ c = [representation |-> rep, quality |-> Weight(accept, i),
                            acceptIndex |-> i,
                            serverIndex |-> IF rep = "html" THEN 0 ELSE 1]
    <2>1. \A r : r \in Best(rep) <=>
                \E i \in 1..n : r = Parsed(accept, i) /\ Governs(accept, rep, i)
      BY BestGoverns
    <2>2. \A i \in 1..n : /\ Parsed(accept, i).index = i
                          /\ Parsed(accept, i).quality = Weight(accept, i)
      BY ParsedRanges
    <2> HIDE DEF Best
    <2> QED
      BY <2>1, <2>2
  <1> HIDE DEF Best, Score
  <1> QED
    BY <1>1, <1>2

\* The decision, by what the reference says of the header.
LEMMA Decision ==
    ASSUME NEW n \in Nat, NEW accept \in [1..n -> RawRange]
    PROVE  /\ NegotiateRepresentation(accept) = "markdown" <=>
                 Wants(accept, "markdown", "html")
           /\ NegotiateRepresentation(accept) = "html-rejected" <=>
                 Refused(accept, "html") /\ ~Acceptable(accept, "markdown")
  <1> DEFINE ranges == ParseAccept(accept)
             candidates == Candidates(ranges)
             C(rep, i) == [representation |-> rep, quality |-> Weight(accept, i),
                           acceptIndex |-> i, serverIndex |-> IF rep = "html" THEN 0 ELSE 1]
             Ok(rep, i) == Governs(accept, rep, i) /\ Weight(accept, i) > 0
             first == CHOOSE c \in candidates :
                         \A o \in candidates : o = c \/ Preferred(c, o)
             decision == NegotiateRepresentation(accept)
  <1>1. /\ DOMAIN accept = 1..n
        /\ \A i \in 1..n : Weight(accept, i) \in Nat
    BY ParsedRanges DEF Representations
  <1>2. \A rep \in Representations : \A i, j \in 1..n :
           Governs(accept, rep, i) /\ Governs(accept, rep, j) => i = j
    BY BestGoverns
  <1>3. \A c : c \in candidates <=>
           \E rep \in Representations : \E i \in 1..n : Ok(rep, i) /\ c = C(rep, i)
    BY AcceptableCandidates
  <1>4. decision = IF ranges = {} THEN "html"
                   ELSE IF candidates # {} THEN first.representation
                   ELSE IF \E r \in BestMatch(ranges, "html") : r.quality = 0
                        THEN "html-rejected"
                   ELSE "html"
    BY DEF NegotiateRepresentation
  <1>5. ranges = {} => candidates = {} /\ BestMatch(ranges, "html") = {}
    BY DEF Candidates, BestMatch, Matching
  <1>6. (\E r \in BestMatch(ranges, "html") : r.quality = 0) <=> Refused(accept, "html")
    <2>1. \A r : r \in BestMatch(ranges, "html") <=>
             \E i \in 1..n : r = Parsed(accept, i) /\ Governs(accept, "html", i)
      BY BestGoverns DEF Representations
    <2>2. \A i \in 1..n : Parsed(accept, i).quality = Weight(accept, i)
      BY ParsedRanges DEF Representations
    <2> HIDE DEF ranges
    <2> QED
      BY <1>1, <2>1, <2>2 DEF Refused
  <1>7. \A i \in 1..n : /\ C("html", i).representation = "html"
                        /\ C("markdown", i).representation = "markdown"
    OBVIOUS
  <1>8. \A i, j \in 1..n :
           /\ Preferred(C("markdown", i), C("html", j)) <=>
                 \/ Weight(accept, j) < Weight(accept, i)
                 \/ Weight(accept, j) = Weight(accept, i) /\ i < j
           /\ Preferred(C("html", j), C("markdown", i)) <=>
                 ~Preferred(C("markdown", i), C("html", j))
    BY <1>1 DEF Preferred
  <1> HIDE DEF ranges, candidates, C, Ok, first, decision
  <1>9. CASE \E i \in 1..n : Ok("markdown", i)
    <2>1. PICK i \in 1..n : Ok("markdown", i)
      BY <1>9
    <2>2. Acceptable(accept, "markdown") /\ C("markdown", i) \in candidates
      BY <1>1, <1>3, <2>1 DEF Acceptable, Ok, Representations
    <2>3. \A k \in 1..n : Governs(accept, "markdown", k) => k = i
      BY <1>2, <2>1 DEF Ok, Representations
    <2>4. CASE \E j \in 1..n : Ok("html", j)
      <3>1. PICK j \in 1..n : Ok("html", j)
        BY <2>4
      <3>2. \A k \in 1..n : Governs(accept, "html", k) => k = j
        BY <1>2, <3>1 DEF Ok, Representations
      <3>3. \A c : c \in candidates <=> c = C("markdown", i) \/ c = C("html", j)
        BY <1>3, <2>1, <2>3, <3>1, <3>2 DEF Ok, Representations
      <3>4. Wants(accept, "markdown", "html") <=> Preferred(C("markdown", i), C("html", j))
        BY <1>1, <1>8, <2>1, <2>3, <3>1, <3>2 DEF Wants, Ok
      <3>5. CASE Preferred(C("markdown", i), C("html", j))
        <4>1. first \in candidates /\ \A o \in candidates : o = first \/ Preferred(first, o)
          BY <3>3, <3>5 DEF first
        <4>2. first = C("markdown", i)
          BY <1>7, <1>8, <3>3, <3>5, <4>1
        <4> QED
          BY <1>4, <1>5, <1>7, <2>2, <3>4, <3>5, <4>2 DEF decision
      <3>6. CASE ~Preferred(C("markdown", i), C("html", j))
        <4>0. Preferred(C("html", j), C("markdown", i))
          BY <1>8, <3>6
        <4>1. first \in candidates /\ \A o \in candidates : o = first \/ Preferred(first, o)
          BY <3>3, <4>0 DEF first
        <4>2. first = C("html", j)
          BY <1>7, <3>3, <3>6, <4>1
        <4> QED
          BY <1>4, <1>5, <1>7, <2>2, <3>4, <3>6, <4>2 DEF decision
      <3> QED
        BY <3>5, <3>6
    <2>5. CASE ~\E j \in 1..n : Ok("html", j)
      <3>1. \A c : c \in candidates <=> c = C("markdown", i)
        BY <1>3, <2>1, <2>3, <2>5 DEF Ok, Representations
      <3>2. first = C("markdown", i)
        BY <3>1 DEF first
      <3>3. \A j \in 1..n : Governs(accept, "html", j) => Weight(accept, j) = 0
        BY <1>1, <2>5 DEF Ok
      <3>4. Wants(accept, "markdown", "html")
        BY <1>1, <2>1, <3>3 DEF Wants, Ok
      <3> QED
        BY <1>4, <1>5, <1>7, <2>2, <3>2, <3>4 DEF decision
    <2> QED
      BY <2>4, <2>5
  <1>10. CASE ~\E i \in 1..n : Ok("markdown", i)
    <2>1. ~Acceptable(accept, "markdown") /\ ~Wants(accept, "markdown", "html")
      BY <1>1, <1>10 DEF Acceptable, Wants, Ok
    <2>2. CASE \E j \in 1..n : Ok("html", j)
      <3>1. PICK j \in 1..n : Ok("html", j)
        BY <2>2
      <3>2. \A k \in 1..n : Governs(accept, "html", k) => k = j
        BY <1>2, <3>1 DEF Ok, Representations
      <3>3. \A c : c \in candidates <=> c = C("html", j)
        BY <1>3, <1>10, <3>1, <3>2 DEF Ok, Representations
      <3>4. first = C("html", j)
        BY <3>3 DEF first
      <3>5. ~Refused(accept, "html")
        BY <1>1, <3>1, <3>2 DEF Refused, Ok
      <3> QED
        BY <1>4, <1>5, <1>7, <2>1, <3>3, <3>4, <3>5 DEF decision
    <2>3. CASE ~\E j \in 1..n : Ok("html", j)
      <3>1. candidates = {}
        BY <1>3, <1>10, <2>3 DEF Representations
      <3> QED
        BY <1>4, <1>5, <1>6, <2>1, <3>1 DEF decision
    <2> QED
      BY <2>2, <2>3
  <1> QED
    BY <1>9, <1>10

\* A response is what the proxy makes of its request.
Answered ==
    /\ httpResponse # "none" => httpRequest # <<>>
    /\ httpRequest # <<>> =>
         /\ httpRequest[1] \in ProxyRequests
         /\ httpResponse \in {"none", Proxy(httpRequest[1])}

\* Markdown and 406 are served exactly when RFC 9110 has them, whatever the header.
THEOREM Rfc9110 == ProxySpec => []NegotiationIsRfc9110
  <1>1. ProxyInit => Answered
    BY DEF ProxyInit, Answered
  <1>2. Answered /\ [ProxyNext]_proxyVars => Answered'
    <2>1. ASSUME Answered, Receive PROVE Answered'
      <3>1. PICK r \in ProxyRequests : httpRequest' = <<r>>
        BY <2>1 DEF Receive
      <3>2. httpResponse' = "none"
        BY <2>1 DEF Receive, Answered
      <3>3. httpRequest' # <<>> /\ httpRequest'[1] = r
        BY <3>1
      <3> QED
        BY <3>2, <3>3 DEF Answered
    <2>2. ASSUME Answered, Respond PROVE Answered'
      BY <2>2 DEF Respond, Answered
    <2>3. ASSUME Answered, UNCHANGED proxyVars PROVE Answered'
      BY <2>3 DEF proxyVars, Answered
    <2> QED
      BY <2>1, <2>2, <2>3 DEF ProxyNext
  <1>3. Answered => NegotiationIsRfc9110
    <2> SUFFICES ASSUME Answered, httpResponse # "none",
                        ~httpRequest[1].skip, httpRequest[1].path = "page"
                 PROVE  /\ httpResponse \in {"markdown", "error"}
                               <=> Wants(httpRequest[1].accept, "markdown", "html")
                        /\ httpResponse = "406"
                               <=> /\ Refused(httpRequest[1].accept, "html")
                                   /\ ~Acceptable(httpRequest[1].accept, "markdown")
      BY DEF NegotiationIsRfc9110
    <2> DEFINE r == httpRequest[1]
               decision == NegotiateRepresentation(r.accept)
    <2>1. r \in ProxyRequests /\ httpResponse = Proxy(r)
      BY DEF Answered
    <2>2. PICK n \in Nat : r.accept \in [1..n -> RawRange]
      <3>1. r.accept \in BoundedSeq(RawRange, MaxRanges) \cup BoundedSeq(RawRange, 1)
        BY <2>1 DEF ProxyRequests
      <3>2. ASSUME NEW m \in Nat, r.accept \in BoundedSeq(RawRange, m)
            PROVE  \E n \in Nat : r.accept \in [1..n -> RawRange]
        BY <3>2 DEF BoundedSeq, SeqOf
      <3>3. CASE r.accept \in BoundedSeq(RawRange, MaxRanges)
        BY <3>2, <3>3, MaxRangesAssumption
      <3>4. CASE r.accept \in BoundedSeq(RawRange, 1)
        BY <3>2, <3>4
      <3> QED
        BY <3>1, <3>3, <3>4
    <2>3. /\ decision = "markdown" <=> Wants(r.accept, "markdown", "html")
          /\ decision = "html-rejected" <=>
                Refused(r.accept, "html") /\ ~Acceptable(r.accept, "markdown")
      BY <2>2, Decision
    <2> HIDE DEF decision
    <2>4. httpResponse = CASE decision = "markdown"      -> RenderMarkdown(r)
                           [] decision = "html-rejected" -> "406"
                           [] OTHER                      -> "next"
      BY <2>1 DEF Proxy, decision
    <2>5. RenderMarkdown(r) \in {"markdown", "error"}
      BY DEF RenderMarkdown
    <2> HIDE DEF r
    <2>6. httpResponse \in {"markdown", "error"} <=> decision = "markdown"
      BY <2>4, <2>5
    <2>7. httpResponse = "406" <=> decision = "html-rejected"
      BY <2>4, <2>5
    <2> QED
      BY <2>3, <2>6, <2>7 DEF r
  <1> QED
    BY <1>1, <1>2, <1>3, PTL DEF ProxySpec

-----------------------------------------------------------------------------
(* The scrubbers: addresses                                                *)

\* A finite set of numbers that is not empty has a greatest one.
LEMMA GreatestElement ==
    ASSUME NEW S \in SUBSET Nat, IsFiniteSet(S), S # {}
    PROVE  \E m \in S : \A o \in S : o <= m
  <1> DEFINE from(m) == {o \in S : m <= o}
             T == {from(m) : m \in S}
  <1>1. T \subseteq SUBSET S /\ T # {}
    OBVIOUS
  <1>2. IsWellFoundedOn(StrictSubsetOrdering(S), SUBSET S)
    BY FS_StrictSubsetOrderingWellFounded, FS_FiniteSubsetsOfFinite
  <1>3. PICK x \in T : \A y \in T : <<y, x>> \notin StrictSubsetOrdering(S)
    <2> HIDE DEF T
    <2> QED
      BY <1>1, <1>2, WFMin
  <1>4. PICK m \in S : x = from(m)
    BY <1>3
  <1>5. ASSUME NEW o \in S, ~(o <= m) PROVE FALSE
    <2>1. o \in Nat /\ m \in Nat
      OBVIOUS
    <2>2. from(o) \in T /\ from(o) \subseteq S /\ from(m) \subseteq S
      OBVIOUS
    <2>3. from(o) \subseteq from(m)
      <3>1. \A x_1 \in S : x_1 \in Nat
        OBVIOUS
      <3>2. \A x_1 \in S : o <= x_1 => m <= x_1
        BY <1>5, <2>1, <3>1
      <3> QED
        BY <3>2
    <2>4. m \in from(m) /\ m \notin from(o)
      BY <1>5, <2>1
    <2>5. <<from(o), from(m)>> \in StrictSubsetOrdering(S)
      <3> HIDE DEF from
      <3> QED
        BY <2>2, <2>3, <2>4 DEF StrictSubsetOrdering
    <2> QED
      BY <1>3, <1>4, <2>2, <2>5
  <1> QED
    BY <1>5

\* What holds of 0, and of the next of each number below n, holds up to n.
LEMMA Climb ==
    ASSUME NEW n \in Nat, NEW S, 0 \in S, \A k \in 0..(n - 1) : k \in S => k + 1 \in S
    PROVE  0..n \subseteq S
  <1> DEFINE low == {k \in 0..n : \A j \in 0..k : j \in S}
  <1>1. low \in SUBSET Nat /\ low \subseteq 0..n
    OBVIOUS
  <1>2. IsFiniteSet(low)
    <2>1. IsFiniteSet(0..n)
      BY FS_Interval
    <2> HIDE DEF low
    <2> QED
      BY <1>1, <2>1, FS_Subset
  <1>3. 0 \in low
    OBVIOUS
  <1>4. PICK m \in low : \A o \in low : o <= m
    <2> HIDE DEF low
    <2> QED
      BY <1>1, <1>2, <1>3, GreatestElement
  <1>5. m = n
    <2> SUFFICES ASSUME m # n PROVE FALSE
      OBVIOUS
    <2>1. m \in 0..(n - 1) /\ m \in S /\ \A j \in 0..m : j \in S
      OBVIOUS
    <2>2. m + 1 \in S
      BY <2>1
    <2>3. \A j \in 0..(m + 1) : j \in 0..m \/ j = m + 1
      BY <2>1
    <2>4. m + 1 \in low
      BY <2>1, <2>2, <2>3
    <2>5. m + 1 <= m
      <3> HIDE DEF low
      <3> QED
        BY <1>4, <2>4
    <2> QED
      BY <2>1, <2>5
  <1> QED
    BY <1>5

\* The greatest of two numbers, and of the ends a domain could have.
LEMMA MaxOfTwo ==
    ASSUME NEW a \in Nat, NEW b \in Nat
    PROVE  Max({a, b}) = IF a >= b THEN a ELSE b
  <1>1. \E m \in {a, b} : \A o \in {a, b} : m >= o
    OBVIOUS
  <1>2. Max({a, b}) \in {a, b} /\ \A o \in {a, b} : Max({a, b}) >= o
    BY <1>1 DEF Max
  <1> QED
    BY <1>2

\* The domain of an address has a last place to end, within the run.
LEMMA LastEnd ==
    ASSUME NEW run \in Seq(Characters), NEW at \in 1..Len(run), DomainEnds(run, at) # {}
    PROVE  Max(DomainEnds(run, at)) \in (at + 4)..Len(run)
  <1> DEFINE ends == DomainEnds(run, at)
  <1>1. ends \subseteq (at + 4)..Len(run) /\ Len(run) \in Nat
    BY DEF DomainEnds
  <1> HIDE DEF ends
  <1>2. ends \in SUBSET Nat /\ IsFiniteSet(ends)
    <2>1. IsFiniteSet((at + 4)..Len(run))
      BY <1>1, FS_Interval
    <2>2. IsFiniteSet(ends)
      BY <1>1, <2>1, FS_Subset
    <2>3. \A e \in (at + 4)..Len(run) : e \in Nat
      BY <1>1
    <2> QED
      BY <1>1, <2>2, <2>3
  <1>3. PICK m \in ends : \A o \in ends : o <= m
    BY <1>2, GreatestElement DEF ends
  <1>4. \A o \in ends : o \in Nat
    BY <1>2
  <1>5. \A o \in ends : m >= o
    BY <1>3, <1>4
  <1>6. Max(ends) \in ends
    BY <1>5 DEF Max
  <1> QED
    BY <1>1, <1>6 DEF ends

\* The walk is what its definition says, for every run: there is such a function.
Started == [kept |-> 0, previousAt |-> 0, gone |-> {}]
Turn(run, s, i) == IF run[i] = "@" THEN RedactAt(s, i, run) ELSE s

\* The recursive function of the walk has a value at every character.
LEMMA WalkIsDefined ==
    ASSUME NEW run \in Seq(Characters)
    PROVE  \A i \in 0..Len(run) :
             Walk(run)[i] = IF i = 0 THEN Started ELSE Turn(run, Walk(run)[i - 1], i)
  <1> DEFINE n == Len(run)
             W(k, w) == w = [i \in 0..k |-> IF i = 0 THEN Started
                                             ELSE Turn(run, w[i - 1], i)]
             S == {k \in 0..n : \E w : W(k, w)}
  <1>0. n \in Nat
    OBVIOUS
  <1>1. 0 \in S
    <2> DEFINE w == [i \in 0..0 |-> Started]
    <2>1. w = [i \in 0..0 |-> IF i = 0 THEN Started ELSE Turn(run, w[i - 1], i)]
      OBVIOUS
    <2>2. W(0, w)
      BY <2>1
    <2> HIDE DEF W, w
    <2> QED
      BY <1>0, <2>2
  <1>2. ASSUME NEW k \in 0..(n - 1), k \in S PROVE k + 1 \in S
    <2>1. PICK w : W(k, w)
      BY <1>2
    <2> DEFINE g == [i \in 0..(k + 1) |-> IF i = k + 1 THEN Turn(run, w[k], k + 1) ELSE w[i]]
               h == [i \in 0..(k + 1) |-> IF i = 0 THEN Started ELSE Turn(run, g[i - 1], i)]
    <2>2. ASSUME NEW i \in 0..(k + 1) PROVE g[i] = h[i]
      <3>1. CASE i = k + 1
        <4>1. g[i - 1] = w[k]
          BY <1>0, <3>1
        <4> QED
          BY <3>1, <4>1
      <3>2. CASE i = 0
        BY <2>1, <3>2
      <3>3. CASE i \in 1..k
        <4>1. w[i] = Turn(run, w[i - 1], i)
          BY <2>1, <3>3
        <4>2. g[i - 1] = w[i - 1] /\ g[i] = w[i]
          BY <3>3
        <4>3. h[i] = Turn(run, g[i - 1], i)
          BY <3>3
        <4> QED
          BY <4>1, <4>2, <4>3
      <3> QED
        BY <3>1, <3>2, <3>3
    <2>3. g = h
      <3> HIDE DEF Turn
      <3> QED
        BY <2>2
    <2>4. W(k + 1, g)
      BY <2>3
    <2> HIDE DEF W, g
    <2> QED
      BY <1>0, <2>4
  <1>3. n \in S
    <2> HIDE DEF S
    <2>1. \A k \in 0..(n - 1) : k \in S => k + 1 \in S
      BY <1>2
    <2> HIDE DEF n
    <2>2. 0..n \subseteq S
      BY <1>0, <1>1, <2>1, Climb
    <2> QED
      BY <1>0, <2>2
  <1>4. \E w : W(n, w)
    BY <1>3
  <1>5. Walk(run) = CHOOSE w : W(n, w)
    BY DEF Walk, Started, Turn
  <1>6. W(n, Walk(run))
    <2> HIDE DEF W
    <2> QED
      BY <1>4, <1>5
  <1> QED
    BY <1>0, <1>6

\* What the walk has done by a position: what it has redacted is part of an address,
\* every address up to there is gone, and nothing that it keeps precedes the end of the
\* last redaction since the last at sign.
WalkInv(run, i, s) ==
    /\ s \in [kept : 0..Len(run), previousAt : 0..i, gone : SUBSET (1..Len(run))]
    /\ s.previousAt # 0 => run[s.previousAt] = "@"
    /\ \A j \in (s.previousAt + 1)..i : run[j] # "@"
    /\ \A j \in (s.previousAt + 1)..s.kept : j \in s.gone
    /\ \A at \in Addresses(run) : at <= i => LocalPart(run, at) \subseteq s.gone
    /\ \A j \in s.gone : \E at \in Addresses(run) :
          j \in LocalPart(run, at) \cup at..Max(DomainEnds(run, at))

\* A turn of the walk takes one more character into account.
LEMMA TurnKeeps ==
    ASSUME NEW run \in Seq(Characters), NEW i \in 0..(Len(run) - 1), NEW s, WalkInv(run, i, s)
    PROVE  WalkInv(run, i + 1, Turn(run, s, i + 1))
  <1> DEFINE at == i + 1
  <1>1. /\ Len(run) \in Nat /\ at \in 1..Len(run) /\ i \in Nat
        /\ s.kept \in Nat /\ s.previousAt \in 0..i /\ s.previousAt \in Nat
        /\ s \in [kept : 0..Len(run), previousAt : 0..i, gone : SUBSET (1..Len(run))]
    BY DEF WalkInv
  <1>2. CASE run[at] # "@"
    <2>1. Turn(run, s, at) = s
      BY <1>2 DEF Turn
    <2>2. \A a \in Addresses(run) : a <= at => a <= i
      BY <1>1, <1>2 DEF Addresses
    <2>3. \A j \in (s.previousAt + 1)..at : j \in (s.previousAt + 1)..i \/ j = at
      BY <1>1
    <2>4. s \in [kept : 0..Len(run), previousAt : 0..at, gone : SUBSET (1..Len(run))]
      BY <1>1
    <2> HIDE DEF at
    <2>5. WalkInv(run, at, s)
      BY <1>2, <2>2, <2>3, <2>4 DEF WalkInv
    <2> QED
      BY <2>1, <2>5 DEF at
  <1>3. CASE run[at] = "@"
    <2> DEFINE start == LocalStart(s, at)
               ends  == DomainEnds(run, at)
               t     == Turn(run, s, at)
    <2>1. start = (IF s.kept >= s.previousAt THEN s.kept ELSE s.previousAt) + 1
      BY <1>1, MaxOfTwo DEF LocalStart
    <2>2. \A j \in LocalPart(run, at) : j > s.previousAt /\ j < at /\ j \in Nat
      <3> SUFFICES ASSUME NEW j \in LocalPart(run, at), j <= s.previousAt PROVE FALSE
        BY <1>1 DEF LocalPart
      <3>1. j \in 1..Len(run) /\ \A k \in j..(at - 1) : run[k] # "@"
        BY DEF LocalPart
      <3>2. s.previousAt \in j..(at - 1) /\ s.previousAt # 0
        BY <1>1, <3>1
      <3> QED
        BY <3>1, <3>2 DEF WalkInv
    <2>3. \A j \in (s.previousAt + 1)..i : j \in LocalPart(run, at)
      <3>1. \A j \in (s.previousAt + 1)..i : run[j] # "@"
        BY DEF WalkInv
      <3>2. at - 1 = i
        BY <1>1
      <3>3. \A j \in (s.previousAt + 1)..i :
               /\ j \in 1..Len(run) /\ j < at
               /\ \A k \in j..i : k \in (s.previousAt + 1)..i
        BY <1>1
      <3> QED
        BY <3>1, <3>2, <3>3 DEF LocalPart
    <2>4. \A j \in (at + 1)..at : FALSE
      BY <1>1
    <2>5. \A a \in Addresses(run) : a <= at => a <= i \/ a = at
      BY <1>1 DEF Addresses
    <2>6. CASE start >= at \/ ends = {}
      <3>1. t = [s EXCEPT !.previousAt = at]
        BY <1>3, <2>6 DEF Turn, RedactAt
      <3>2. t.kept = s.kept /\ t.previousAt = at /\ t.gone = s.gone
        BY <1>1, <3>1
      <3>3. t \in [kept : 0..Len(run), previousAt : 0..at, gone : SUBSET (1..Len(run))]
        BY <1>1, <3>1
      <3>4. \A j \in (at + 1)..t.kept : j \in t.gone
        <4>1. \A j \in (at + 1)..s.kept : j \in (s.previousAt + 1)..s.kept
          BY <1>1
        <4> QED
          BY <3>2, <4>1 DEF WalkInv
      <3>5. ASSUME at \in Addresses(run) PROVE LocalPart(run, at) \subseteq s.gone
        <4>1. start >= at
          BY <2>6, <3>5 DEF Addresses
        <4>2. \A j \in LocalPart(run, at) : j \in (s.previousAt + 1)..s.kept
          BY <1>1, <2>1, <2>2, <4>1
        <4> QED
          BY <4>2 DEF WalkInv
      <3> HIDE DEF at, t
      <3>6. WalkInv(run, at, t)
        BY <1>3, <2>4, <2>5, <3>2, <3>3, <3>4, <3>5 DEF WalkInv
      <3> QED
        BY <3>6 DEF at, t
    <2>7. CASE start < at /\ ends # {}
      <3> DEFINE last == Max(ends)
      <3>1. last \in (at + 4)..Len(run) /\ at \in Addresses(run)
        BY <1>1, <1>3, <2>7, LastEnd DEF Addresses
      <3>2. t = [kept |-> last, previousAt |-> at, gone |-> s.gone \cup start..last]
        BY <1>1, <1>3, <2>1, <2>7 DEF Turn, RedactAt
      <3> HIDE DEF last
      <3>3. t.kept = last /\ t.previousAt = at /\ t.gone = s.gone \cup start..last
        BY <3>2
      <3>4. start..last \subseteq 1..Len(run) /\ start \in Nat /\ last \in Nat
        BY <1>1, <2>1, <3>1
      <3>5. t \in [kept : 0..Len(run), previousAt : 0..at, gone : SUBSET (1..Len(run))]
        BY <1>1, <3>1, <3>2, <3>4
      <3>6. \A j \in (at + 1)..last : j \in start..last
        BY <1>1, <2>1, <2>7, <3>4
      <3>7. LocalPart(run, at) \subseteq s.gone \cup start..last
        <4>1. ASSUME NEW j \in LocalPart(run, at)
              PROVE  j \in (s.previousAt + 1)..s.kept \/ j \in start..last
          BY <1>1, <2>1, <2>2, <3>1, <3>4
        <4> QED
          BY <4>1 DEF WalkInv
      <3>8. \A j \in start..last : j \in LocalPart(run, at) \cup at..last
        <4>1. \A j \in start..last : j \in (s.previousAt + 1)..i \/ j \in at..last
          BY <1>1, <2>1, <3>4
        <4> QED
          BY <2>3, <4>1
      <3> HIDE DEF at, t, start
      <3>9. WalkInv(run, at, t)
        <4>1. \A a \in Addresses(run) : a <= at => LocalPart(run, a) \subseteq t.gone
          BY <2>5, <3>3, <3>7 DEF WalkInv
        <4>2. \A j \in t.gone : \E a \in Addresses(run) :
                j \in LocalPart(run, a) \cup a..Max(DomainEnds(run, a))
          BY <3>1, <3>3, <3>8 DEF WalkInv, last
        <4> QED
          BY <1>3, <2>4, <3>3, <3>5, <3>6, <4>1, <4>2 DEF WalkInv
      <3> QED
        BY <3>9 DEF at, t
    <2> QED
      BY <1>1, <2>1, <2>6, <2>7
  <1> QED
    BY <1>2, <1>3

\* The walk goes through the whole run.
LEMMA WalkedWhole ==
    ASSUME NEW run \in Seq(Characters)
    PROVE  WalkInv(run, Len(run), Walk(run)[Len(run)])
  <1> DEFINE n == Len(run)
             S == {k \in 0..n : WalkInv(run, k, Walk(run)[k])}
  <1>1. n \in Nat
    OBVIOUS
  <1>2. 0 \in S
    <2>1. Walk(run)[0] = Started
      BY <1>1, WalkIsDefined
    <2>2. WalkInv(run, 0, Started)
      BY <1>1 DEF WalkInv, Started, Addresses
    <2> QED
      BY <1>1, <2>1, <2>2
  <1>3. ASSUME NEW k \in 0..(n - 1), k \in S PROVE k + 1 \in S
    <2>1. WalkInv(run, k, Walk(run)[k])
      BY <1>3
    <2>2. k + 1 \in 0..n /\ k + 1 # 0 /\ (k + 1) - 1 = k
      BY <1>1
    <2>3. Walk(run)[k + 1] = Turn(run, Walk(run)[k], k + 1)
      BY <2>2, WalkIsDefined
    <2>4. WalkInv(run, k + 1, Walk(run)[k + 1])
      BY <2>1, <2>3, TurnKeeps
    <2> QED
      BY <2>2, <2>4
  <1>4. n \in S
    <2> HIDE DEF S
    <2>1. \A k \in 0..(n - 1) : k \in S => k + 1 \in S
      BY <1>3
    <2> HIDE DEF n
    <2>2. 0..n \subseteq S
      BY <1>1, <1>2, <2>1, Climb
    <2> QED
      BY <1>1, <2>2
  <1> QED
    BY <1>4

\* What was redacted of a run is what its walk has gone.
ScrubbedRun ==
    scrubbed # <<>> /\ scrubbed[1] = "run" =>
        scrubbed[2] \in Runs /\ outcome = RedactEmails(scrubbed[2])

\* In every run of characters an address goes whole, and nothing goes that is not part of
\* one: the walk of redactEmails over the at signs misses none and takes no more.
THEOREM WholeAddresses == RedactionSpec => []AddressesGoWhole
  <1>1. RedactionInit => ScrubbedRun
    BY DEF RedactionInit, ScrubbedRun
  <1>2. ScrubbedRun /\ [RedactionNext]_redactionVars => ScrubbedRun'
    <2>1. ASSUME ScrubRun PROVE ScrubbedRun'
      BY <2>1 DEF ScrubRun, ScrubbedRun
    <2>2. ASSUME ScrubText PROVE ScrubbedRun'
      BY <2>2 DEF ScrubText, ScrubbedRun
    <2>3. ASSUME ScrubbedRun, UNCHANGED redactionVars PROVE ScrubbedRun'
      BY <2>3 DEF redactionVars, ScrubbedRun
    <2> QED
      BY <2>1, <2>2, <2>3 DEF RedactionNext
  <1>3. ScrubbedRun => AddressesGoWhole
    <2> SUFFICES ASSUME ScrubbedRun, scrubbed # <<>>, scrubbed[1] = "run"
                 PROVE  AddressesGoWhole
      BY DEF AddressesGoWhole
    <2> DEFINE run == scrubbed[2]
    <2>1. run \in Seq(Characters) /\ outcome = Walk(run)[Len(run)].gone
      BY RedactionAssumption DEF ScrubbedRun, RedactEmails
    <2>2. WalkInv(run, Len(run), Walk(run)[Len(run)])
      BY <2>1, WalkedWhole
    <2>3. \A at \in Addresses(run) : at <= Len(run)
      BY <2>1 DEF Addresses
    <2> HIDE DEF run
    <2>4. /\ \A at \in Addresses(run) : LocalPart(run, at) \subseteq outcome
          /\ \A i \in outcome : \E at \in Addresses(run) :
                i \in LocalPart(run, at) \cup at..Max(DomainEnds(run, at))
      BY <2>1, <2>2, <2>3 DEF WalkInv
    <2> QED
      BY <2>4 DEF AddressesGoWhole, run
  <1> QED
    BY <1>1, <1>2, <1>3, PTL DEF RedactionSpec

=============================================================================
