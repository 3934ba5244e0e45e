--------------------------- MODULE WalletProtocol ---------------------------
(***************************************************************************)
(* The whole exchange: the site's client (RelayClient), the relay, the     *)
(* wallet page and the callback page, over a network that delays, drops    *)
(* and reorders.  The relay is the OneShotExchange its table is shown to   *)
(* implement (RelayStoreRefinement), one ticket per operation, with the    *)
(* statuses of wallet-ui/relay/src/server.ts around it.                    *)
(***************************************************************************)
EXTENDS RelayClient

VARIABLES
  used, open, held, delivered,  \* the relay, as in OneShotExchange
  answers,    \* answers of the relay on their way to the client
  returned,   \* operations whose wallet page was sent back with a code
  settledAt   \* history: operations whose cancel the relay settled, as the
              \* client understood its answer

relayVars == <<used, open, held, delivered>>
protocolVars == <<clientVars, relayVars, answers, returned, settledAt>>

Events == {"connected", "disconnected"}

Relay == INSTANCE OneShotExchange WITH Tickets <- Ops, Values <- Events

Answer == [type : {"register", "redeem", "cancel"}, op : Ops, status : Nat]

ProtocolInit ==
  /\ ClientInit
  /\ Relay!ExchangeInit
  /\ answers = {} /\ returned = {} /\ settledAt = {}

-----------------------------------------------------------------------------
(* The relay takes a request off the wire and answers it.                  *)
Takes(type, p) ==
  /\ [type |-> type, op |-> p] \in outbox
  /\ outbox' = outbox \ {[type |-> type, op |-> p]}
  /\ UNCHANGED <<ops, retired, sent, evicted, startVars, pending, generation, connVars,
                 destroyed, channel, frame, envVars, returned, settledAt>>

Replies(type, p, status) ==
  answers' = answers \cup {[type |-> type, op |-> p, status |-> status]}

(* Fault: the relay opens the ticket but does not remember the id. *)
RelayRegistersUnlisted(p) ==
  /\ Takes("register", p)
  /\ open' = open \cup {p} /\ UNCHANGED <<used, held, delivered>>
  /\ Replies("register", p, 201)

RelayRegisters(p) ==
  /\ Takes("register", p)
  /\ \/ Relay!OpenTicket(p, {}) /\ Replies("register", p, 201)
     \/ UNCHANGED relayVars /\ Replies("register", p, 429)

RelayRedeems(p) ==
  /\ Takes("redeem", p)
  /\ \/ Relay!TakeTicket(p, {}) /\ Replies("redeem", p, 200)
     \/ held[p] = {} /\ UNCHANGED relayVars /\ Replies("redeem", p, 410)
     \/ UNCHANGED relayVars /\ Replies("redeem", p, 429)

(* A ticket that is gone is remembered (409, 410) until its row is pruned. *)
RelayCancels(p) ==
  /\ Takes("cancel", p)
  /\ \/ /\ p \in open \/ held[p] # {}
        /\ Relay!Drop({p}) /\ Replies("cancel", p, 204)
     \/ /\ p \in used /\ p \notin open /\ held[p] = {}
        /\ UNCHANGED relayVars
        /\ \E s \in {404, 409, 410} : Replies("cancel", p, s)
     \/ /\ p \notin used
        /\ UNCHANGED relayVars /\ Replies("cancel", p, 404)
     \/ UNCHANGED relayVars /\ Replies("cancel", p, 429)

(* Expiry, or a restart.                                                   *)
RelayDrops(p) ==
  /\ p \in open \/ held[p] # {}
  /\ Relay!Drop({p})
  /\ UNCHANGED <<clientVars, answers, returned, settledAt>>

-----------------------------------------------------------------------------
(* The wallet page opened for p posts its result and is sent back to the   *)
(* site's callback page, which stores the code.                            *)
WalletCompletes(p) ==
  /\ \E v \in Events : Relay!FillTicket(p, v, {})
  /\ returned' = returned \cup {p}
  /\ UNCHANGED <<clientVars, answers, settledAt>>

CallbackPage(p) ==
  /\ p \in returned
  /\ CallbackStored(p, TRUE)
  /\ returned' = returned \ {p}
  /\ UNCHANGED <<relayVars, answers, settledAt>>

-----------------------------------------------------------------------------
(* The client reads an answer.                                             *)
Receives(type, p, status) ==
  LET a == [type |-> type, op |-> p, status |-> status]
  IN  a \in answers /\ answers' = answers \ {a}

ClientReceives(p) ==
  /\ \/ /\ Receives("register", p, 201)
        /\ \E e \in Readings : RegisterAccepted(p, e)
        /\ UNCHANGED settledAt
     \/ /\ Receives("register", p, 429)
        /\ RegisterRefused(p)
        /\ UNCHANGED settledAt
     \/ /\ Receives("redeem", p, 200)
        /\ \E v \in delivered[p], e \in Readings : Completes(p, v, e)
        /\ UNCHANGED settledAt
     \/ /\ \E s \in {410, 429} : Receives("redeem", p, s)
        /\ RedeemFails(p)
        /\ UNCHANGED settledAt
     \/ \E s \in CancelStatuses \cup {429} :
          /\ Receives("cancel", p, s)
          /\ CancelAnswered(p, s)
          /\ settledAt' = IF s \in DoneStatuses THEN settledAt \cup {p} ELSE settledAt
  /\ UNCHANGED <<relayVars, returned>>

(* Calls, timers and local failures of the client; an answer nobody awaits *)
(* any more is lost.                                                       *)
ClientSteps ==
  /\ Calls \/ Returns \/ Timers \/ LocalSteps \/ ClientTick \/ StepBack
  /\ UNCHANGED <<relayVars, answers, returned, settledAt>>

ProtocolNext ==
  \/ ClientSteps
  \/ \E p \in Ops : \/ RelayRegisters(p) \/ RelayRedeems(p) \/ RelayCancels(p)
                    \/ RelayDrops(p) \/ WalletCompletes(p) \/ CallbackPage(p)
                    \/ ClientReceives(p)

ProtocolSpec == ProtocolInit /\ [][ProtocolNext]_protocolVars

-----------------------------------------------------------------------------
(* The relay's and the network's variables have their types.               *)
ProtocolTypeOK ==
  /\ used \subseteq Ops /\ open \subseteq used
  /\ held \in [Ops -> SUBSET Events] /\ delivered \in [Ops -> SUBSET Events]
  /\ answers \subseteq Answer /\ returned \subseteq Ops /\ settledAt \subseteq Ops

(* Once the client takes a cancellation for settled, the relay holds       *)
(* nothing for the operation, for ever: no registration that was still     *)
(* under way can open it and no wallet page can complete it.               *)
SettledCancelIsFinal ==
  \A p \in settledAt : p \notin open /\ held[p] = {}

(* The client calls a registration a definitive failure, and forgets it    *)
(* without a cancel, only when the relay holds nothing for it.             *)
DefinitiveIsDefinitive ==
  \A p \in Ops : Exists(p) /\ ops[p].outcome = "definitive-failure" =>
    p \notin used /\ [type |-> "register", op |-> p] \notin outbox

(* Together, in states of the right type: what the client believes of the  *)
(* relay's table, after a cancel and after a refused registration, stays   *)
(* true.                                                                   *)
BeliefsAreTrue == ProtocolTypeOK /\ SettledCancelIsFinal /\ DefinitiveIsDefinitive
=============================================================================
