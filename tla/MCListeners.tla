---------------------------- MODULE MCListeners ----------------------------
(***************************************************************************)
(* The client side and the wire below it, checked in one run: admission of *)
(* connections, HTTP proxy requests, relay ports of UDP associations, one  *)
(* association after its port is bound, requests to the provider port      *)
(* beside the jobs of the service loop, and Snell records.  Each behaviour *)
(* exercises one part; they share no variable, so what the run explores is *)
(* the sum of the parts, not their product.                                *)
(***************************************************************************)
EXTENDS Admission, UdpPorts, UdpAssociation, HttpRequest, Records, Provider

VARIABLE part

listenerVars == <<part, vars, portVars, assocVars, httpVars, recVars, provVars>>

CONSTANTS FirstLimit, A

-----------------------------------------------------------------------------
Line(name, tokens) == [name |-> name, tokens |-> tokens, split |-> <<>>]

\* A header with a bare LF in it, behind which a reader may see a length.
SplitLine ==
    [Line("x", <<"any">>) EXCEPT !.split =
        <<[name |-> "x", tokens |-> <<"any">>], [name |-> "content-length", tokens |-> <<"1">>]>>]

\* Binary sizes of at most two digits; "9" is a number that no u64 holds.
MCDigitValues == [c \in {"0", "1"} |-> IF c = "1" THEN 1 ELSE 0]
MCNumerals == [t \in {"0", "1", "2", "9"} |->
                  CASE t = "0" -> 0 [] t = "1" -> 1 [] t = "2" -> 2 [] t = "9" -> 6]

\* Header lines that frame a body, or that may remove one that does.
MCLines ==
    {Line("content-length", t) : t \in {<<"2">>, <<"1", "1">>, <<"1", "2">>, <<"9">>, <<"">>}} \cup
    {Line("transfer-encoding", t) : t \in {<<"chunked">>, <<"gzip", "chunked">>, <<"gzip">>}} \cup
    {Line("connection", t) :
        t \in {<<"content-length">>, <<"transfer-encoding", "x">>, <<"upgrade">>}} \cup
    {Line(n, <<"any">>) : n \in {"upgrade", "x", "folded"}} \cup {SplitLine}

AuthLines == {Line("proxy-authorization", t) : t \in {<<"good">>, <<"wrong">>, <<"bearer">>}}

MCHeads ==
    [method : {"get"}, target : {"good"}, version : {"1.0", "1.1"},
     headers : UNION {[1..k -> MCLines] : k \in 0..2}] \cup
    [method : {"get"}, target : {"good"}, version : {"1.1"},
     headers : {<<a, b, Line("transfer-encoding", <<"chunked">>)>> : a, b \in AuthLines}] \cup
    [method : {"connect", "get"}, target : {"good", "bad"}, version : {"1.1"},
     headers : {<<>>, <<Line("proxy-authorization", <<"good">>)>>}]

\* Every short stream of digits and line ends, and longer ones: two chunks,
\* trailers within and beyond the limit, a chunk without its end, bytes after
\* the body, blanks, extensions, sizes of too many digits, and bare CRs and
\* LFs where a line should end.
CrLf == <<"cr", "lf">>
MCStreams ==
    UNION {[1..n -> {"1", "cr", "lf"}] : n \in 0..2} \cup
    {<<"1">> \o CrLf \o <<"lf">> \o CrLf \o <<"0">> \o CrLf \o CrLf \o <<"1">>,
     <<"1", "0">> \o CrLf \o <<"x", "cr">> \o CrLf \o <<"0">> \o CrLf \o CrLf,
     <<"0">> \o CrLf \o <<"x">> \o CrLf \o CrLf \o <<"0">>,
     <<"0">> \o CrLf \o <<"x", "x", "x">> \o CrLf \o CrLf,
     <<"0">> \o CrLf \o <<"x">> \o CrLf \o <<"x">> \o CrLf \o CrLf,
     <<"0", "blank", "semicolon", "x">> \o CrLf \o CrLf,
     <<"0", "semicolon", "cr", "x">> \o CrLf \o CrLf,
     <<"0", "0", "0">> \o CrLf \o CrLf, <<"1", "0", "0">> \o CrLf \o CrLf,
     <<"0", "x">> \o CrLf \o CrLf, <<"blank", "0">> \o CrLf \o CrLf, <<"semicolon">> \o CrLf,
     <<"0", "lf">> \o CrLf, <<"0">> \o CrLf \o <<"lf">> \o CrLf,
     <<"0">> \o CrLf \o <<"x", "lf">> \o CrLf, <<"1">> \o CrLf \o <<"x", "lf", "0">> \o CrLf \o CrLf,
     <<"1">> \o CrLf \o <<"x", "x">> \o CrLf}

\* Requests to the provider port that wait for a job, read twice or are
\* checked twice.
Asks(p, r, l) == [path |-> p, refresh |-> r, local |-> l]
MCRacing == {Asks("clash", FALSE, TRUE), Asks("clash", TRUE, TRUE), Asks("raw", TRUE, FALSE)}

-----------------------------------------------------------------------------
\* A part that is not exercised stays in one of its initial states.  The
\* accounts are interchangeable, so the first may be any.
ListenersInit ==
    /\ part \in {"admission", "ports", "association", "http", "records", "provider"}
    /\ Init /\ PortsInit /\ AssocInit /\ HttpInit /\ RecInit /\ ProvInit
    /\ part # "admission" => limit = FirstLimit
    /\ part # "http" => httpAuth
    /\ part # "records" => wPc = "idle" /\ wKey = DeriveRecordKey(rPsk) /\ rPsk = "psk"
    /\ part # "provider" => ~gwRouter.allow /\ gwSub = NoInfo
    /\ gwRouter.account = A

ListenersNext ==
    \/ /\ part = "admission" /\ Next
       /\ UNCHANGED <<part, portVars, assocVars, httpVars, recVars, provVars>>
    \/ /\ part = "ports" /\ PortsNext
       /\ UNCHANGED <<part, vars, assocVars, httpVars, recVars, provVars>>
    \/ /\ part = "association" /\ AssocNext
       /\ UNCHANGED <<part, vars, portVars, httpVars, recVars, provVars>>
    \/ /\ part = "http" /\ HttpNext
       /\ UNCHANGED <<part, vars, portVars, assocVars, recVars, provVars>>
    \/ /\ part = "records" /\ RecNext
       /\ UNCHANGED <<part, vars, portVars, assocVars, httpVars, provVars>>
    \/ /\ part = "provider" /\ ProvNext
       /\ UNCHANGED <<part, vars, portVars, assocVars, httpVars, recVars>>

ListenersSpec == ListenersInit /\ [][ListenersNext]_listenerVars
=============================================================================
