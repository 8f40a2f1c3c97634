----------------------------- MODULE MCPlatform -----------------------------
(***************************************************************************)
(* One instance for the parts around the signup table: what the server     *)
(* does with requests that are not signups, how a process is configured,   *)
(* how a release gets out, and what CI says of the repository.  As in      *)
(* MCVisits, a behaviour picks one part and follows it; the parts that     *)
(* build on Configuration's and Negotiation's operators do so inside their *)
(* own steps.                                                              *)
(***************************************************************************)
EXTENDS MonitoringTunnel, Redaction, ProductionRelease, PreviewEnvironments, LaunchGate,
        StackAudit

CONSTANT MaxPieces      \* bound on the pieces a run or a text is made of
ASSUME MaxPiecesAssumption == MaxPieces \in Nat

Pieces == {<<"x">>, <<"-">>, <<"'">>, <<".">>, <<"@">>,
           <<"@", "x", ".", "x", "x">>, <<"x", ".", "x", "x">>}
MCRuns == {FlattenSeq(pieces) : pieces \in BoundedSeq(Pieces, MaxPieces)}

\* A text is made of signs, of words and of a secret of three characters; a scheme starts
\* a word, so that no letter before it is taken for a part of it.
TextPieces == {<<"#">>, <<"%23">>, <<"/">>, <<":", "x">>, <<"'">>, <<"@">>, <<" ">>,
               <<"t", "-", "t">>, <<"x", "x">>, <<"@", "x", ".", "x", "x">>,
               <<" ", "https://">>, <<" ", "postgres://">>, <<"?token=">>}
MCTexts == {FlattenSeq(pieces) : pieces \in BoundedSeq(TextPieces, MaxPieces)}

VARIABLE part

Parts == {"tunnel", "proxy", "redaction", "configuration", "release", "preview", "launch",
          "audit"}

platformVars == <<part, tunnelVars, proxyVars, redactionVars, configurationVars, releaseVars,
                  previewVars, launchVars, auditVars>>

PlatformInit ==
    /\ part \in Parts
    /\ TunnelInit /\ ProxyInit /\ RedactionInit /\ ConfigurationInit
    /\ ReleaseInit /\ (part # "release" => settings = Production("early-access", "unset"))
    /\ PreviewInit /\ (part # "preview" => ~fromFork)
    /\ AuditInit
    /\ LaunchInit  /\ (part # "launch"  => releaseFile = (CHOOSE file \in Files : TRUE))

\* A step of one part leaves the variables of the others alone.
Others(p) ==
    /\ part = p /\ UNCHANGED part
    /\ p # "tunnel"        => UNCHANGED tunnelVars
    /\ p # "proxy"         => UNCHANGED proxyVars
    /\ p # "redaction"     => UNCHANGED redactionVars
    /\ p # "configuration" => UNCHANGED configurationVars
    /\ p # "release"       => UNCHANGED releaseVars
    /\ p # "preview"       => UNCHANGED previewVars
    /\ p # "launch"        => UNCHANGED launchVars
    /\ p # "audit"         => UNCHANGED auditVars

PlatformNext ==
    \/ Others("tunnel")        /\ TunnelNext
    \/ Others("proxy")         /\ ProxyNext
    \/ Others("redaction")     /\ RedactionNext
    \/ Others("configuration") /\ ConfigurationNext
    \/ Others("release")       /\ ReleaseNext
    \/ Others("preview")       /\ PreviewNext
    \/ Others("launch")        /\ LaunchGateNext
    \/ Others("audit")         /\ AuditNext

\* Only the previews are owed anything, and nothing of them in their initial state.
PlatformSpec == PlatformInit /\ [][PlatformNext]_platformVars /\ PreviewFairness

=============================================================================
