----------------------------- MODULE MCExchanges -----------------------------
(* One side that asks and one that answers, late or not at all: six modules    *)
(* that share no state, checked in one run. `part` chooses, once, which of     *)
(* them moves; the others rest in one of their initial states.                 *)
EXTENDS SignOut, AnswerForms, EvidenceStore, Outbound, TraceExport, GatewayInterceptor

VARIABLE part
Parts == {"signout", "answers", "evidence", "outbound", "traces", "gateway"}
exchangeVars == <<signOutVars, answerVars, evidenceVars, outboundVars, traceVars, gatewayVars, part>>

ctx(place, kind, name, ref, url, must) ==
  [at |-> place, kind |-> kind, name |-> name, ref |-> ref, url |-> url, mustOpen |-> must]
limits(numeric, min, max) == [numeric |-> numeric, min |-> min, max |-> max]
\* A request with a number to edit, a reason for each kind of answer and two items
\* that gate (once with one ref for both, which ingest refuses); a plain yes or
\* no; one whose number and text start outside their limits; and one with a key
\* that is the url of another item.
RequestsMC ==
  { [allowed |-> {"accept", "edit", "reject"}, reasonDeclared |-> TRUE, reasonRequired |-> {"edit"},
     items |-> {ctx(1, "link", "", "policy", "u1", TRUE), ctx(2, "attachment", "f", second, "u1", TRUE)},
     fields |-> [amount |-> limits(TRUE, 1, 2)], args |-> [amount |-> 2, order |-> 1],
     editReasonRequired |-> TRUE] : second \in {"", "policy"} } \cup
  { [allowed |-> {"accept", "reject"}, reasonDeclared |-> FALSE, reasonRequired |-> {},
     items |-> {ctx(1, "link", "", "", "u1", TRUE), ctx(2, "link", "", "", "u2", FALSE)},
     fields |-> <<>>, args |-> [order |-> 1], editReasonRequired |-> FALSE],
    [allowed |-> {"accept", "edit"}, reasonDeclared |-> FALSE, reasonRequired |-> {},
     items |-> {ctx(1, "attachment", "", "", "u1", TRUE)},
     fields |-> [note |-> limits(FALSE, 1, 2), amount |-> limits(TRUE, 1, 1)],
     args |-> [note |-> 0, order |-> 1], editReasonRequired |-> FALSE] } \cup
  { [allowed |-> {"accept", "respond"}, reasonDeclared |-> FALSE, reasonRequired |-> {},
     items |-> {ctx(1, "link", "", "policy", "u1", TRUE), ctx(2, "attachment", "f", "u1", "u2", gates)},
     fields |-> <<>>, args |-> <<>>, editReasonRequired |-> FALSE] : gates \in BOOLEAN }

SinkConfigsMC == [type : {"none", "http", "s3"}, complete : BOOLEAN]
\* Every class of address and every way an IPv6 one carries an IPv4 one.
AddressesMC ==
  {V4(8, 8, 8, 8), V4(172, 31, 0, 1), V4(172, 32, 0, 1), V4(224, 0, 0, 1), V4(255, 255, 255, 255),
   V6Text(<<8193, 3512>>, TRUE, <<1>>, NoTail), V6Text(<<>>, TRUE, <<1>>, NoTail),
   V6Text(<<>>, TRUE, <<65535>>, <<10, 0, 0, 1>>), V6Text(<<>>, TRUE, <<65535, 0>>, <<8, 8, 8, 8>>),
   V6Text(WellKnownNat64, TRUE, <<>>, <<169, 254, 0, 1>>), V6Text(WellKnownNat64, TRUE, <<>>, <<8, 8, 8, 8>>),
   V6Text(WellKnownNat64 \o <<1>>, TRUE, <<>>, <<8, 8, 8, 8>>), V6Text(<<8194, 57344, 1>>, TRUE, <<>>, NoTail),
   V6Text(<<8194, 2048, 1>>, TRUE, <<>>, NoTail), V6Text(<<65152>>, TRUE, <<1>>, NoTail), V6Text(<<65216>>, TRUE, <<1>>, NoTail),
   V6Text(<<64768>>, TRUE, <<1>>, NoTail), V6Text(<<65282>>, TRUE, <<1>>, NoTail),
   V6Text(<<1, 2, 3, 4, 5, 6, 7, 8>>, TRUE, <<>>, NoTail), V6Text(<<1, 2, 3, 4, 5, 6, 7, 8>>, FALSE, <<>>, NoTail)}
AnswersMC == {<<>>} \cup {<<a>> : a \in AddressesMC} \cup {<<V4(8, 8, 8, 8), a>> : a \in AddressesMC}
  \cup {<<V4(172, 31, 0, 1), V4(8, 8, 8, 8), V4(172, 32, 0, 1)>>}
PoliciesMC == {"development", "production", "allowed"}
KindsMC == {"fetch", "dial"}
UrlsMC == {"bad_url", "scheme", "userinfo", "localhost", "literal", "name"}

-----------------------------------------------------------------------------
\* Which initial state a part rests in.
SignOutRest == cookie = CHOOSE s \in Sessions : TRUE
AnswersRest == request = CHOOSE r \in Requests : ValidRequest(r)
EvidenceRest == sinkConfig = CHOOSE c \in SinkConfigs : TRUE
OutboundRest == policy = "production" /\ call.kind = "fetch" /\ call.url = "name"
GatewayRest == mode = CHOOSE m \in Modes : TRUE
TracesRest == down = {} /\ \A x \in Exporters : exporters[x] = "absent"

ExchangeInit ==
  /\ part \in Parts
  /\ SignOutInit /\ AnswerInit /\ EvidenceInit /\ OutboundInit /\ TraceInit /\ GatewayInit
  /\ part # "signout" => SignOutRest
  /\ part # "answers" => AnswersRest
  /\ part # "evidence" => EvidenceRest
  /\ part # "outbound" => OutboundRest
  /\ part # "traces" => TracesRest
  /\ part # "gateway" => GatewayRest

ExchangeNext ==
  /\ UNCHANGED part
  /\ \/ /\ part = "signout" /\ SignOutNext
        /\ UNCHANGED <<answerVars, evidenceVars, outboundVars, traceVars, gatewayVars>>
     \/ /\ part = "answers" /\ AnswerNext
        /\ UNCHANGED <<signOutVars, evidenceVars, outboundVars, traceVars, gatewayVars>>
     \/ /\ part = "evidence" /\ EvidenceNext
        /\ UNCHANGED <<signOutVars, answerVars, outboundVars, traceVars, gatewayVars>>
     \/ /\ part = "outbound" /\ OutboundNext
        /\ UNCHANGED <<signOutVars, answerVars, evidenceVars, traceVars, gatewayVars>>
     \/ /\ part = "traces" /\ TraceNext
        /\ UNCHANGED <<signOutVars, answerVars, evidenceVars, outboundVars, gatewayVars>>
     \/ /\ part = "gateway" /\ GatewayNext
        /\ UNCHANGED <<signOutVars, answerVars, evidenceVars, outboundVars, traceVars>>

ExchangeSpec == ExchangeInit /\ [][ExchangeNext]_exchangeVars

-----------------------------------------------------------------------------
\* The shape of every module's state.
ExchangeTypeOK ==
  /\ SignOutTypeOK /\ AnswerTypeOK /\ EvidenceTypeOK /\ OutboundTypeOK /\ TraceTypeOK
  /\ GatewayTypeOK
=============================================================================
