----------------------------- MODULE Redaction -----------------------------
(***************************************************************************)
(* redactText: what becomes of a text before it leaves the deployment in   *)
(* an event, a log line or a span.  Two views of it: the walk that redacts *)
(* the addresses of one run of characters, position by position; and the   *)
(* six replacements in their order, each over what the one before it left. *)
(***************************************************************************)
EXTENDS Integers, Sequences, SequencesExt, FiniteSetsExt

\* The characters of EMAIL_CANDIDATE_PATTERN by what the patterns tell apart: a letter
\* ("t" is one of a secret), "-" (also a digit: in a domain, not in its last label), "'"
\* and "%23" (in a local part only), the dot and the at sign.
Characters == {"x", "t", "-", "'", "%23", ".", "@"}

\* Those of a text besides: the signs that the patterns look for, the scheme of a
\* database's URL or of another one with its "://", the pair of a query up to its value,
\* and what a replacement leaves ("[email]", "[redacted]" and the like).
Signs == {"#", "%23"}
TextCharacters ==
    Characters \cup {"#", "/", ":", " ", "postgres://", "https://", "?token=", "[]"}

CONSTANTS Runs,         \* the runs of characters whose addresses are redacted
          Texts,        \* the texts that are redacted
          MinToken      \* the length from which a fragment is shaped like a token (20)
ASSUME RedactionAssumption ==
    /\ Runs \subseteq Seq(Characters) /\ Texts \subseteq Seq(TextCharacters)
    /\ MinToken \in Nat \ {0}

-----------------------------------------------------------------------------

Letter(c)   == c \in {"x", "t"}
InDomain(c) == Letter(c) \/ c \in {"-", "."}

\* EMAIL_DOMAIN_PATTERN after an at sign: the ends it could have, of which the greedy
\* match takes the last.
DomainEnds(run, at) ==
    {e \in (at + 4)..Len(run) :
        \E dot \in (at + 2)..(e - 2) :
            /\ run[dot] = "."
            /\ \A i \in (at + 1)..(dot - 1) : InDomain(run[i])
            /\ \A i \in (dot + 1)..e : Letter(run[i])}

\* Mutant: a local part of two characters at the most (the bound of RFC 5321, scaled).
BoundedStart(s, at) == IF s.kept + 1 > at - 2 THEN s.kept + 1 ELSE at - 2

\* The local part starts where the last redaction, or the last at sign, ended.
LocalStart(s, at) == Max({s.kept, s.previousAt}) + 1

\* One turn of the loop of redactEmails: kept is the last position dealt with, gone
\* the positions replaced by a marker.
RedactAt(s, at, run) ==
    LET start == LocalStart(s, at)
        ends  == DomainEnds(run, at)
    IN  IF start >= at \/ ends = {} THEN [s EXCEPT !.previousAt = at]
        ELSE [kept |-> Max(ends), previousAt |-> at,
              gone |-> s.gone \cup start..Max(ends)]

\* The walk after the characters up to each one.
Walk(run) ==
    LET walked[i \in 0..Len(run)] ==
            IF i = 0 THEN [kept |-> 0, previousAt |-> 0, gone |-> {}]
            ELSE IF run[i] = "@" THEN RedactAt(walked[i - 1], i, run)
            ELSE walked[i - 1]
    IN  walked

RedactEmails(run) == Walk(run)[Len(run)].gone

-----------------------------------------------------------------------------
\* String.replace with a global pattern: Match(text, i) is the end of the match that
\* starts at i, 0 for none, and Leave(text, i) what replaces it.
Replace(text, Match(_, _), Leave(_, _)) ==
    LET rest[i \in 1..(Len(text) + 1)] ==
            IF i > Len(text) THEN <<>>
            ELSE LET end == Match(text, i)
                 IN  IF end = 0 THEN <<text[i]>> \o rest[i + 1]
                     ELSE Leave(text, i) \o rest[end + 1]
    IN  rest[1]

\* The last position of the run that starts at i and holds no character of the set;
\* i - 1 for an empty one.
Until(text, i, stops) ==
    Max({j \in (i - 1)..Len(text) : \A k \in i..j : text[k] \notin stops})

Blanks  == {" ", "'"}
Slashed == {"/", "https://", "postgres://"}

KeepFirst(text, i) == <<text[i], "[]">>

DatabaseUrl(text, i) ==
    LET end == Until(text, i + 1, Blanks)
    IN  IF text[i] = "postgres://" /\ end > i THEN end ELSE 0

UrlCredentials(text, i) ==
    LET end == Until(text, i + 1, Slashed \cup {" ", "@"})
    IN  IF text[i] = "https://" /\ end > i /\ end < Len(text) /\ text[end + 1] = "@"
        THEN end ELSE 0

\* The addresses of one run, from its start.
RunEnd(text, i) == Until(text, i, TextCharacters \ Characters)
EmailRun(text, i) ==
    IF RunEnd(text, i) >= i /\ RedactEmails(SubSeq(text, i, RunEnd(text, i))) # {}
    THEN RunEnd(text, i) ELSE 0
WithoutEmails(text, i) ==
    LET run  == SubSeq(text, i, RunEnd(text, i))
        gone == RedactEmails(run)
        left[p \in 0..Len(run)] ==
            IF p = 0 THEN <<>>
            ELSE IF p \notin gone THEN Append(left[p - 1], run[p])
            ELSE IF p - 1 \in gone THEN left[p - 1] ELSE Append(left[p - 1], "[]")
    IN  left[Len(run)]

SensitiveQuery(text, i) ==
    IF text[i] = "?token=" THEN Until(text, i + 1, Blanks \cup {"#"}) ELSE 0

\* redactUrlFragment: the first "#" of a word, if a slash comes before it.
PathFragment(text, i) ==
    LET start == 1 + Max({0} \cup {j \in 1..(i - 1) : text[j] \in Blanks})
        before == {text[k] : k \in start..(i - 1)}
    IN  IF text[i] = "#" /\ "#" \notin before /\ before \cap Slashed # {}
        THEN Until(text, i + 1, Blanks) ELSE 0

TokenShaped(text, i) ==
    LET end == Until(text, i + 1, TextCharacters \ {"x", "t", "-"})
    IN  IF text[i] \in Signs /\ end - i >= MinToken THEN end ELSE 0

WithoutUrls(text) ==
    Replace(Replace(text, DatabaseUrl, KeepFirst), UrlCredentials, KeepFirst)
WithoutAddresses(text) == Replace(text, EmailRun, WithoutEmails)
WithoutFragments(text) ==
    Replace(Replace(text, PathFragment, KeepFirst), TokenShaped, KeepFirst)

\* Mutant: the addresses are replaced before the credentials of a URL.
RedactAddressesFirst(text) ==
    WithoutFragments(Replace(WithoutUrls(WithoutAddresses(text)), SensitiveQuery, KeepFirst))

RedactText(text) ==
    WithoutFragments(Replace(WithoutAddresses(WithoutUrls(text)), SensitiveQuery, KeepFirst))

-----------------------------------------------------------------------------
VARIABLES scrubbed,     \* <<>>, or <<"run" or "text", what was redacted>>
          outcome       \* the positions gone of a run, or what is left of a text

redactionVars == <<scrubbed, outcome>>

RedactionInit == scrubbed = <<>> /\ outcome = {}

ScrubRun ==
    /\ scrubbed = <<>>
    /\ \E run \in Runs : scrubbed' = <<"run", run>> /\ outcome' = RedactEmails(run)

ScrubText ==
    /\ scrubbed = <<>>
    /\ \E text \in Texts : scrubbed' = <<"text", text>> /\ outcome' = RedactText(text)

RedactionNext == ScrubRun \/ ScrubText

RedactionSpec == RedactionInit /\ [][RedactionNext]_redactionVars

-----------------------------------------------------------------------------
\* The reference: what precedes an at sign, from the one before it, and the at signs
\* that a domain follows.
LocalPart(run, at) ==
    {i \in 1..Len(run) : i < at /\ \A j \in i..(at - 1) : run[j] # "@"}
Addresses(run) == {at \in 1..Len(run) : run[at] = "@" /\ DomainEnds(run, at) # {}}

\* An address goes whole, however long its local part and whatever it is glued to: for
\* every at sign that a domain follows, nothing of the run between the at sign before it
\* and this one is left; and nothing goes that is no part of such an address.
AddressesGoWhole ==
    scrubbed # <<>> /\ scrubbed[1] = "run" =>
        LET run == scrubbed[2]
        IN  /\ \A at \in Addresses(run) : LocalPart(run, at) \subseteq outcome
            /\ \A i \in outcome : \E at \in Addresses(run) :
                  i \in LocalPart(run, at) \cup at..Max(DomainEnds(run, at))

\* What is secret of a text, said of its positions and not of the replacements: the
\* token of a fragment, a database's URL, the credentials of another one, the value of
\* a sensitive pair, the local part of an address.  (Not of a pair that stands before the
\* at sign of a URL: it counts as credentials, and what follows the sign as the host.)
Between(text, from, to, stops) == \A k \in from..to : text[k] \notin stops

InCredentials(text, i) ==
    \E s \in 1..(i - 1), e \in (i + 1)..Len(text) :
        /\ text[s] = "https://" /\ text[e] = "@"
        /\ Between(text, s + 1, e - 1, Slashed \cup {" ", "@"})

Secret(text, i) ==
    \/ InCredentials(text, i)
    \/ \E s \in 1..(i - 1), e \in i..Len(text) :
          /\ text[s] \in Signs /\ e - s >= MinToken
          /\ Between(text, s + 1, e, TextCharacters \ {"x", "t", "-"})
    \/ \E s \in 1..(i - 1) : text[s] = "postgres://" /\ Between(text, s + 1, i, Blanks)
    \/ \E s \in 1..(i - 1) :
          /\ text[s] = "?token=" /\ ~InCredentials(text, s)
          /\ Between(text, s + 1, i, Blanks \cup {"#"})
    \/ \E at \in (i + 1)..Len(text) :
          /\ text[at] = "@" /\ DomainEnds(text, at) # {}
          /\ \A k \in i..(at - 1) : text[k] \in Characters \ {"@"}

Harmless(text) ==
    /\ ToSet(text) \cap ({"@", "?token=", "postgres://"} \cup Slashed) = {}
    /\ \A i \in DOMAIN text : text[i] # "[]" /\ ~Secret(text, i)

\* The six replacements together: whatever text a secret stands in, and whichever
\* replacement changes the text around it first, nothing of it is left, a bare fragment
\* "#<token>" or "%23<token>" included (R-01, R-41); and a text that holds nothing of the
\* kind, like "button#submit" or "error #418", stays as it is (R-32, R-42).
SecretsNeverLeave ==
    scrubbed # <<>> /\ scrubbed[1] = "text" =>
        LET text == scrubbed[2]
        IN  /\ (\A i \in DOMAIN text : text[i] = "t" => Secret(text, i)) =>
                  "t" \notin ToSet(outcome)
            /\ Harmless(text) => outcome = text

=============================================================================
