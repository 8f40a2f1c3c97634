---------------------------- MODULE Negotiation ----------------------------
(***************************************************************************)
(* The proxy in front of the pages: which requests it leaves alone, the    *)
(* Markdown aliases, and the negotiation of HTML and Markdown by the       *)
(* Accept header.  A media range is a record of what it names and of its   *)
(* raw q parameter; weights are in tenths.                                 *)
(***************************************************************************)
EXTENDS Naturals, Sequences, SequencesExt

CONSTANT MaxRanges      \* bound on the ranges of an Accept header
ASSUME MaxRangesAssumption == MaxRanges \in Nat

Representations == {"html", "markdown"}

\* "none": no q parameter; "bad": not a number of 0..1, or an empty one.
RawRange == [names : {"*/*", "text/*", "html", "markdown", "other", "malformed"},
             q     : {"none", "zero", "half", "bad"}]

\* skip: neither GET nor HEAD, or internal to Next.js; stage: CORPUS_RELEASE_STAGE.
\* Long headers are enumerated for the pages, which negotiate; short ones for all.
ProxyRequests ==
    [path : {"page"}, skip : {FALSE}, stage : {"valid"},
     accept : BoundedSeq(RawRange, MaxRanges)]
    \cup
    [path : {"page", "alias", "manage", "file", "unknown"}, skip : BOOLEAN,
     stage : {"valid", "invalid"}, accept : BoundedSeq(RawRange, 1)]

VARIABLES
    httpRequest,    \* <<>> before the request, then <<request>>
    httpResponse    \* "none", "next", "markdown", "markdown 404", "406", "error"

proxyVars == <<httpRequest, httpResponse>>

ProxyInit == httpRequest = <<>> /\ httpResponse = "none"

-----------------------------------------------------------------------------
\* Mutant: a parameter that cannot be read is a refusal.
QualityOrZero(q) == CASE q = "none" -> 10 [] q = "half" -> 5 [] OTHER -> 0

\* parseQuality: a weight that cannot be read is ignored.
ParseQuality(q) == CASE q = "zero" -> 0 [] q = "half" -> 5 [] OTHER -> 10

\* parseAcceptHeader: malformed ranges are dropped, the others keep their index.
ParseAccept(accept) ==
    {[names |-> accept[i].names, index |-> i, quality |-> ParseQuality(accept[i].q)] :
        i \in {k \in DOMAIN accept : accept[k].names # "malformed"}}

\* One more than in the code, where -1 is no match.
Specificity(range, rep) ==
    CASE range.names = "*/*"    -> 1
      [] range.names = "text/*" -> 2
      [] range.names = rep      -> 3
      [] OTHER                  -> 0

Matching(ranges, rep) == {r \in ranges : Specificity(r, rep) > 0}

\* The order that bestMatch sorts by.
More(a, b, rep) ==
    \/ Specificity(a, rep) > Specificity(b, rep)
    \/ Specificity(a, rep) = Specificity(b, rep) /\ a.index < b.index

\* bestMatch: the set of the range that sorts first, empty if there is none.
BestMatch(ranges, rep) ==
    {r \in Matching(ranges, rep) :
        \A o \in Matching(ranges, rep) : o = r \/ More(r, o, rep)}

\* scoreCandidate for both representations.
Candidates(ranges) ==
    UNION {{[representation |-> rep, quality |-> best.quality,
             acceptIndex |-> best.index, serverIndex |-> IF rep = "html" THEN 0 ELSE 1] :
                best \in {r \in BestMatch(ranges, rep) : r.quality > 0}} :
                    rep \in Representations}

\* The order that negotiateRepresentation sorts by.
Preferred(a, b) ==
    \/ a.quality > b.quality
    \/ a.quality = b.quality /\ a.acceptIndex < b.acceptIndex
    \/ a.quality = b.quality /\ a.acceptIndex = b.acceptIndex /\ a.serverIndex < b.serverIndex

NegotiateRepresentation(accept) ==
    LET ranges     == ParseAccept(accept)
        candidates == Candidates(ranges)
        first      == CHOOSE c \in candidates :
                         \A o \in candidates : o = c \/ Preferred(c, o)
    IN  IF ranges = {} THEN "html"
        ELSE IF candidates # {} THEN first.representation
        ELSE IF \E r \in BestMatch(ranges, "html") : r.quality = 0 THEN "html-rejected"
        ELSE "html"

-----------------------------------------------------------------------------
\* renderMarkdownPage reads the release stage, and an invalid one throws.
RenderMarkdown(request) == IF request.stage = "valid" THEN "markdown" ELSE "error"

Proxy(request) ==
    LET decision == NegotiateRepresentation(request.accept)
    IN  CASE request.skip \/ request.path \in {"manage", "file"} -> "next"
          [] ~request.skip /\ request.path = "alias" -> RenderMarkdown(request)
          [] ~request.skip /\ request.path = "page" ->
                 CASE decision = "markdown"      -> RenderMarkdown(request)
                   [] decision = "html-rejected" -> "406"
                   [] OTHER                      -> "next"
          [] OTHER -> IF decision = "markdown" THEN "markdown 404" ELSE "next"

Receive ==
    /\ httpRequest = <<>>
    /\ \E request \in ProxyRequests : httpRequest' = <<request>>
    /\ UNCHANGED httpResponse

Respond ==
    /\ httpRequest # <<>> /\ httpResponse = "none"
    /\ httpResponse' = Proxy(httpRequest[1])
    /\ UNCHANGED httpRequest

ProxyNext == Receive \/ Respond

ProxySpec == ProxyInit /\ [][ProxyNext]_proxyVars

-----------------------------------------------------------------------------
\* The reference: RFC 9110 read with quantifiers.  The range that governs a
\* representation is the most specific one that names it, the first of equals; a
\* representation is acceptable unless its range weighs nothing, or there is none.
Governs(accept, rep, i) ==
    LET Spec(j) == Specificity(accept[j], rep)
    IN  /\ i \in DOMAIN accept /\ Spec(i) > 0
        /\ \A j \in DOMAIN accept : Spec(j) <= Spec(i) /\ (Spec(j) = Spec(i) => i <= j)
Weight(accept, i) ==
    CASE accept[i].q = "zero" -> 0 [] accept[i].q = "half" -> 5 [] OTHER -> 10
Wants(accept, rep, other) ==
    \E i \in DOMAIN accept :
        /\ Governs(accept, rep, i) /\ Weight(accept, i) > 0
        /\ \A j \in DOMAIN accept :
             Governs(accept, other, j) =>
                \/ Weight(accept, j) < Weight(accept, i)
                \/ Weight(accept, j) = Weight(accept, i) /\ i < j
Acceptable(accept, rep) ==
    \E i \in DOMAIN accept : Governs(accept, rep, i) /\ Weight(accept, i) > 0
Refused(accept, rep) ==
    \E i \in DOMAIN accept : Governs(accept, rep, i) /\ Weight(accept, i) = 0

\* The representation served is the one the client asked for by the most specific
\* ranges: Markdown exactly when it is wanted over HTML, and 406 exactly when HTML was
\* refused and Markdown is not acceptable; a client that never spoke of HTML gets it.
NegotiationIsRfc9110 ==
    httpResponse # "none" =>
        LET r == httpRequest[1]
        IN  ~r.skip /\ r.path = "page" =>
                /\ httpResponse \in {"markdown", "error"}
                       <=> Wants(r.accept, "markdown", "html")
                /\ httpResponse = "406"
                       <=> /\ Refused(r.accept, "html")
                           /\ ~Acceptable(r.accept, "markdown")

=============================================================================
