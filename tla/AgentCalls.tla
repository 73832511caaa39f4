----------------------------- MODULE AgentCalls -----------------------------
(***************************************************************************)
(* Update calls that threads or tasks make at the same time through one    *)
(* Agent, seen from their requests: what is signed, when, in whose name    *)
(* and for which canister.  How one call waits for its answer is           *)
(* UpdateCall's subject; here a call posts, polls, and is answered,        *)
(* refused or left without an answer.  Envelopes may be lost, delayed and  *)
(* delivered again by the network and the boundary nodes.                  *)
(***************************************************************************)
EXTENDS SignedRequests, PrincipalText

CONSTANTS
  Calls,          \* the calls made
  Canisters,      \* the ids of the canisters that exist
  Texts,          \* Texts[c]: the canister ids call c may be made with
  Args,           \* the arguments a call may be made with
  Logins,         \* the identities the agent may be made with, as exported
  IngressExpiry,  \* Agent.ingress_expiry
  Window,         \* how far ahead an ingress_expiry the subnet accepts
  Skews,          \* the differences of the host's clock from the subnet's time
  StartTime,
  MaxTime         \* time stops here

ASSUME AgentAssumption ==
  /\ IngressExpiry \in Nat
  /\ Window \in Nat
  /\ Skews \subseteq Int
  /\ \A s \in Skews : IngressExpiry + s <= Window
  /\ StartTime \in Nat
  /\ MaxTime \in Nat
  /\ Canisters \subseteq Seq(Bytes)
  /\ \A l \in Logins :
       /\ Len(l.links) \in Nat
       /\ DOMAIN l.links = 1 .. Len(l.links)
       /\ \A i \in DOMAIN l.links : l.links[i].expires \in Nat

VARIABLES
  now,       \* the subnet's time
  skew,      \* the host's clock minus the subnet's time
  login,     \* the agent's identity, as exported
  agent,     \* "absent", "made", or "ValueError": its identity is unreadable
  nonces,    \* has the agent a nonce_factory?
  calls,     \* the calls
  wire,      \* the envelopes posted so far; any may arrive, once or again
  pool,      \* the ids the subnet remembers, with their expiry
  queue,     \* the requests taken in that have not run
  runs       \* the requests that have run, in their order

agentVars  == <<agent, calls>>
subnetVars == <<pool, queue, runs>>
fixedVars  == <<skew, login, nonces>>
vars       == <<now, wire, agentVars, subnetVars, fixedVars>>

identity == Identity(login)            \* Agent.identity

(* How a call stands: "answered" by the run number run, "refused" (an HTTP  *)
(* error) at the time at, "ValueError" for its canister id, or "doubt".     *)
States == {"idle", "posting", "polling", "answered", "refused", "ValueError", "doubt"}

(* made, wall: the host's clock when the call and when its last request was *)
(* signed; sent: the last envelope.                                         *)
NewCall == [state |-> "idle", text |-> << >>, arg |-> Absent, made |-> 0,
            id |-> << >>, wall |-> 0, sent |-> << >>, at |-> 0, run |-> 0]

Wall == now + skew
-----------------------------------------------------------------------------
(* The subnet's check of an envelope: its expiry, its sender and the chain  *)
(* of signatures from the sender's key to the one that signed the request.  *)
Signer(e, i) == IF i = 0 THEN e.sender_pubkey ELSE e.sender_delegation[i].pubkey

Authentic(e) ==
  \/ e.content.sender = Anonymous
  \/ /\ e.content.sender = SelfAuthenticating(e.sender_pubkey)
     /\ \A i \in DOMAIN e.sender_delegation :
          LET d == e.sender_delegation[i] IN
          /\ now <= d.expiration
          /\ d.signature = Signature(Signer(e, i - 1), "delegation",
                                     <<d.pubkey, d.expiration, Everywhere>>)
     /\ e.sender_sig = Signature(Signer(e, Len(e.sender_delegation)), "ic-request",
                                 ToRequestId(e.content))

Accepted(e) ==
  /\ now <= e.content.ingress_expiry
  /\ e.content.ingress_expiry <= now + Window
  /\ Authentic(e)

Remembered == {p.id : p \in pool}
-----------------------------------------------------------------------------
(* What from_str makes of every text. *)
Resolved == [t \in UNION {Texts[c] : c \in Calls} |-> FromStr(t)]

Names == {ToStr(b) : b \in Canisters}

(* _encode_arg: no argument is encode([]), whose bytes may also be passed. *)
EncodeArg(arg) == IF arg = "None" THEN "DIDL00" ELSE arg

(* The nonce_factory never returns a value twice.  Each status request asks *)
(* it anew, too; that request has an id of its own, which nobody looks up.  *)
Nonce(c) == IF nonces THEN c ELSE Absent

PollNonce == IF nonces THEN "new" ELSE Absent

GetExpiryDate == Wall + IngressExpiry

CallRequest(c, text, arg) ==
  [request_type   |-> "call",
   sender         |-> Sender(identity),
   canister_id    |-> Resolved[text],
   method_name    |-> "method",
   arg            |-> EncodeArg(arg),
   ingress_expiry |-> GetExpiryDate,
   nonce          |-> Nonce(c)]

StatusRequest(c) ==
  [request_type   |-> "read_state",
   sender         |-> Sender(identity),
   paths          |-> << <<"request_status", calls[c].id>> >>,
   ingress_expiry |-> GetExpiryDate,
   nonce          |-> PollNonce]
-----------------------------------------------------------------------------
Init ==
  /\ now = StartTime
  /\ skew \in Skews
  /\ login \in Logins
  /\ agent = "absent"
  /\ nonces \in BOOLEAN
  /\ calls = [c \in Calls |-> NewCall]
  /\ wire = {}
  /\ pool = {}
  /\ queue = {}
  /\ runs = << >>

(* Identity(...) or DelegateIdentity.from_json(...), and the Agent. *)
Login ==
  /\ agent = "absent"
  /\ agent' = IF Readable(login) THEN "made" ELSE "ValueError"
  /\ UNCHANGED <<now, wire, calls, subnetVars, fixedVars>>

BadCanisterId(c) ==
  /\ agent = "made"
  /\ calls[c].state = "idle"
  /\ \E text \in Texts[c] :
       /\ Resolved[text] = NoPrincipal
       /\ calls' = [calls EXCEPT ![c].state = "ValueError", ![c].text = text]
  /\ UNCHANGED <<now, wire, agent, subnetVars, fixedVars>>

Post(c, text, arg, envelope) ==
  /\ calls' = [calls EXCEPT ![c].state = "posting", ![c].text = text, ![c].arg = arg,
                            ![c].made = Wall, ![c].wall = Wall,
                            ![c].id = ToRequestId(envelope.content), ![c].sent = envelope]
  /\ wire' = wire \cup {envelope}

(* Agent.update as far as its post *)
Call(c) ==
  /\ agent = "made"
  /\ calls[c].state = "idle"
  /\ \E text \in Texts[c], arg \in Args :
       /\ Resolved[text] # NoPrincipal
       /\ Post(c, text, arg, SignRequest(CallRequest(c, text, arg), identity))
  /\ UNCHANGED <<now, agent, subnetVars, fixedVars>>

(* request_status_raw's read_state *)
Poll(c) ==
  calls' = [calls EXCEPT ![c].state = "polling", ![c].wall = Wall,
                         ![c].sent = SignRequest(StatusRequest(c), identity)]

TakeIn(e) ==
  LET id == ToRequestId(e.content) IN
  IF id \in Remembered THEN UNCHANGED <<pool, queue>>
  ELSE /\ pool' = pool \cup {[id |-> id, expiry |-> e.content.ingress_expiry]}
       /\ queue' = queue \cup {e.content}

(* The post arrives and its response comes back: 202, or an error. *)
PostAccepted(c) ==
  /\ calls[c].state = "posting"
  /\ Accepted(calls[c].sent)
  /\ TakeIn(calls[c].sent)
  /\ Poll(c)
  /\ UNCHANGED <<now, wire, agent, runs, fixedVars>>

Refused(c) ==
  /\ calls[c].state \in {"posting", "polling"}
  /\ ~Accepted(calls[c].sent)
  /\ calls' = [calls EXCEPT ![c].state = "refused", ![c].at = now]
  /\ UNCHANGED <<now, wire, agent, subnetVars, fixedVars>>

(* The exchange fails otherwise, or the polling time is over. *)
GivesUp(c) ==
  /\ calls[c].state \in {"posting", "polling"}
  /\ calls' = [calls EXCEPT ![c].state = "doubt"]
  /\ UNCHANGED <<now, wire, agent, subnetVars, fixedVars>>

(* A poll that finds no final status is followed by another. *)
PollAgain(c) ==
  /\ calls[c].state = "polling"
  /\ Accepted(calls[c].sent)
  /\ Poll(c)
  /\ UNCHANGED <<now, wire, agent, subnetVars, fixedVars>>

(* Only the sender of a request may read how it stands. *)
Answered(c) ==
  /\ calls[c].state = "polling"
  /\ Accepted(calls[c].sent)
  /\ calls[c].id \in Remembered
  /\ \E i \in DOMAIN runs :
       /\ ToRequestId(runs[i]) = calls[c].id
       /\ runs[i].sender = calls[c].sent.content.sender
       /\ calls' = [calls EXCEPT ![c].state = "answered", ![c].run = i]
  /\ UNCHANGED <<now, wire, agent, subnetVars, fixedVars>>
-----------------------------------------------------------------------------
(* A copy of an envelope arrives late, or once more. *)
Redeliver ==
  /\ \E e \in wire : Accepted(e) /\ ToRequestId(e.content) \notin Remembered /\ TakeIn(e)
  /\ UNCHANGED <<now, wire, agentVars, runs, fixedVars>>

Execute ==
  /\ \E r \in queue :
       /\ queue' = queue \ {r}
       /\ runs' = Append(runs, r)
  /\ UNCHANGED <<now, wire, agentVars, pool, fixedVars>>

(* The subnet forgets a request once it can no longer be taken in again. *)
Prune ==
  /\ \E p \in pool :
       /\ p.expiry < now
       /\ \A r \in queue : ToRequestId(r) # p.id
       /\ pool' = pool \ {p}
  /\ UNCHANGED <<now, wire, agentVars, queue, runs, fixedVars>>

Tick ==
  /\ now < MaxTime
  /\ now' = now + 1
  /\ UNCHANGED <<wire, agentVars, subnetVars, fixedVars>>

CallStep(c) ==
  \/ BadCanisterId(c) \/ Call(c) \/ PostAccepted(c) \/ Refused(c)
  \/ GivesUp(c) \/ PollAgain(c) \/ Answered(c)

Next == Login \/ (\E c \in Calls : CallStep(c)) \/ Redeliver \/ Execute \/ Prune \/ Tick

Spec == Init /\ [][Next]_vars
-----------------------------------------------------------------------------
Begun(c) == calls[c].id # << >>

Named == {Resolved[t] : t \in DOMAIN Resolved} \ {NoPrincipal}

CallRequests ==
  [request_type : {"call"}, sender : {Sender(identity)}, canister_id : Named,
   method_name : {"method"}, arg : {EncodeArg(a) : a \in Args},
   ingress_expiry : Int, nonce : Calls \cup {Absent}]

Contents == {e.content : e \in wire}

(* Every variable has its type; what is posted is a request for a principal *)
(* under delegations whose expirations were read, and what the subnet runs  *)
(* has been posted.                                                         *)
TypeOK ==
  /\ now \in Nat
  /\ skew \in Skews
  /\ login \in Logins
  /\ agent \in {"absent", "made", "ValueError"}
  /\ nonces \in BOOLEAN
  /\ \A c \in Calls :
       /\ calls[c].state \in States
       /\ calls[c].made \in Int
       /\ calls[c].wall \in Int
       /\ calls[c].at \in Nat
       /\ calls[c].run \in 0 .. Len(runs)
  /\ Contents \subseteq CallRequests
  /\ \A e \in wire : \A i \in DOMAIN e.sender_delegation :
       e.sender_delegation[i].expiration # Unreadable
  /\ queue \subseteq Contents
  /\ runs \in Seq(Contents)
  /\ \A p \in pool : p.expiry \in Int

(* update_raw signs a request once and posts it once; whatever the network  *)
(* does to the envelope, a request id names one execution at most, also     *)
(* after the subnet forgot that it ran.                                     *)
RunsOnce ==
  \A i, j \in DOMAIN runs : ToRequestId(runs[i]) = ToRequestId(runs[j]) => i = j

(* The run a caller is told of is a run of its own request, made for its    *)
(* own canister, argument and principal, and no other caller is told of     *)
(* the same one, unless there are no nonces and both asked for the same     *)
(* thing at the same instant of the host's clock.                           *)
OwnExecution ==
  \A c \in Calls : calls[c].state = "answered" =>
    LET run == runs[calls[c].run] IN
    /\ run.canister_id = Resolved[calls[c].text]
    /\ run.arg = EncodeArg(calls[c].arg)
    /\ run.sender = Sender(identity)
    /\ \A d \in Calls \ {c} :
         calls[d].state = "answered" /\ calls[d].run = calls[c].run =>
           /\ ~nonces
           /\ calls[d].made = calls[c].made
           /\ Resolved[calls[d].text] = Resolved[calls[c].text]
           /\ EncodeArg(calls[d].arg) = EncodeArg(calls[c].arg)

(* The texts, in any case, of what they are read as *)
Written == {t \in DOMAIN Resolved : ToStr(Resolved[t]) = Lower(t)}

(* A call goes to the canister that its text is the text of, in any case,    *)
(* and to none otherwise, a mistyped one above all; and no canister's text   *)
(* is refused, so that every one can be called.                              *)
TextNamesCanister ==
  \A c \in Calls :
    /\ Begun(c) => calls[c].text \in Written
    /\ calls[c].state = "ValueError" => Lower(calls[c].text) \notin Names

(* A delegation in a form that is read, from root to key, signed link by link *)
Proper(l) ==
  /\ l.root = Unsigned <=> l.key = Unsigned
  /\ l.root = Unsigned => l.links = << >>
  /\ l.key = IF l.links = << >> THEN l.root ELSE l.links[Len(l.links)].pubkey
  /\ \A i \in DOMAIN l.links :
       /\ l.links[i].signer = IF i = 1 THEN l.root ELSE l.links[i - 1].pubkey
       /\ l.links[i].targets = Everywhere
       /\ Expiration(l.links[i].expiration) = l.links[i].expires

(* An agent with a sound identity is refused by the subnet, on the post or  *)
(* on a poll, only because the request was under way for longer than        *)
(* ingress_expiry or a delegation had expired: never for its signature, its *)
(* sender or a delegation's expiry misread.                                 *)
RefusedOnlyWhenExpired ==
  \A c \in Calls : calls[c].state = "refused" /\ Proper(login) =>
    \/ calls[c].at > calls[c].wall + IngressExpiry
    \/ \E i \in DOMAIN login.links : calls[c].at > login.links[i].expires
=============================================================================
