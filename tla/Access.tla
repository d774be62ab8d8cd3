-------------------------------- MODULE Access --------------------------------
(***************************************************************************)
(* Who may do what over HTTP: the digest authenticator (firmware auth.rs), *)
(* the gate in front of every handler (adapters/http/mod.rs, auth.rs), and *)
(* the handlers that change what the gate decides by: the admin key        *)
(* (handlers/settings.rs), restart and factory reset (handlers/system.rs). *)
(*                                                                         *)
(* The server runs one request at a time, under the control lock.  Any     *)
(* header made with any key, for any endpoint, nonce and count, may arrive *)
(* at any endpoint, any number of times, early or late: a client's retries *)
(* and copies of requests already served are all among them.  SHA-256 is   *)
(* taken as collision-free and 16 random bytes as always new.              *)
(***************************************************************************)
EXTENDS Endpoints

CONSTANTS
  AdminKeys,        \* the keys in play
  NoKey,            \* an unprovisioned device's empty key
  MaxNonces,        \* MAX_NONCES
  NonceTtl,         \* NONCE_TTL_MS, in ticks of the model's clock
  MaxMinted,        \* bound: challenges in a behaviour
  MaxCount,         \* bound: the highest nonce count a client sends
  MaxNow            \* bound: ticks of the clock since boot

ASSUME AccessAssumption ==
  /\ MaxNonces \in Nat \ {0} /\ NonceTtl \in Nat /\ MaxCount \in Nat
  /\ NoKey \notin AdminKeys

VARIABLES
  nonces,           \* the live table, oldest first
  adminKey,         \* the running configuration's key
  savedKey,         \* the key in flash
  commissioned,     \* the mode is not setup: it booted with a configuration
  leaving,          \* a restart is pending
  now,              \* the monotonic clock
  minted,           \* [at, boot] of each challenge, a nonce being its index
  boots,            \* the index of the first challenge of this boot, less one
  spent,            \* the nonces and counts that ran a handler behind a key
  respent           \* those that ran one more than once

accessVars == <<nonces, adminKey, savedKey, commissioned, leaving, now, minted, boots,
                spent, respent>>

\* What a client may have hashed, for the endpoint it asks or for another.
HeadersFor(name) == [key : AdminKeys, uri : {name, "elsewhere"}, nonce : 1..Len(minted),
                  nc : 0..MaxCount]
NoHeader == [key |-> NoKey, uri |-> "", nonce |-> 0, nc |-> 0]
Asked == {"settings", "wifi", "admin-key", "unlock", "restart", "factory-reset"}

Unseen(n) == now - n.at < NonceTtl

\* Vec::retain over the first n nonces.
Live[n \in 0 .. Len(nonces)] ==
  IF n = 0 THEN <<>>
  ELSE IF Unseen(nonces[n]) THEN Append(Live[n - 1], nonces[n])
  ELSE Live[n - 1]

\* DigestAuthenticator::challenge.
Challenged ==
  LET live == Live[Len(nonces)]
      kept == IF Len(live) >= MaxNonces THEN Tail(live) ELSE live
  IN  Append(kept, [value |-> Len(minted) + 1, at |-> now, last |-> 0])

Challenge ==
  /\ nonces' = Challenged
  /\ minted' = Append(minted, now)

HeldNonces(h) == {i \in DOMAIN nonces : nonces[i].value = h.nonce}

\* DigestAuthenticator::authorize, check by check; the hash binds the key,
\* the endpoint, the nonce and the count.
Verdict(h, r) ==
  IF adminKey = NoKey THEN "authorized"
  ELSE IF h = NoHeader \/ h.uri # r.name THEN "denied"
  ELSE IF \A i \in HeldNonces(h) : ~Unseen(nonces[i]) \/ h.nc <= nonces[i].last THEN "stale"
  ELSE IF h.key # adminKey THEN "denied"
  ELSE "authorized"

Use(h) == [nonce |-> h.nonce, nc |-> h.nc]

CountForgotten(h) == nonces

\* The accepted count is recorded with the nonce.
Counted(h) ==
  [i \in DOMAIN nonces |->
     IF i \in HeldNonces(h) THEN [nonces[i] EXCEPT !.last = h.nc] ELSE nonces[i]]

Accepted(h) ==
  IF adminKey = NoKey THEN UNCHANGED <<nonces, spent, respent>>
  ELSE /\ nonces' = Counted(h)
       /\ spent' = spent \cup {Use(h)}
       /\ respent' = respent \cup ({Use(h)} \cap spent)

KeepKeys == UNCHANGED <<adminKey, savedKey, leaving>>

\* replace_wifi and persist_configuration: an empty field keeps the key, and a
\* configuration without one is refused.  A failed save may have landed.
PutWifi(status) ==
  \E k \in AdminKeys \cup {NoKey} :
    LET next == IF k = NoKey THEN adminKey ELSE k
    IN  \/ /\ next = NoKey /\ status = 400 /\ KeepKeys
        \/ /\ next # NoKey /\ status = 200
           /\ adminKey' = next /\ savedKey' = next /\ leaving' = TRUE
        \/ /\ next # NoKey /\ status = 500
           /\ savedKey' \in {savedKey, next}
           /\ UNCHANGED <<adminKey, leaving>>

\* Rotation only: the first key comes with commissioning.
SetAdminKey(status) ==
  \/ ~commissioned /\ status = 503 /\ KeepKeys
  \/ \E k \in AdminKeys :
       /\ commissioned
       /\ \/ status = 200 /\ adminKey' = k /\ savedKey' = k
          \/ status = 500 /\ savedKey' \in {savedKey, k} /\ UNCHANGED adminKey
       /\ UNCHANGED leaving

RestartAsked(status) == status = 200 /\ leaving' = TRUE /\ UNCHANGED <<adminKey, savedKey>>

ResetDevice(status) ==
  \/ status = 200 /\ savedKey' = NoKey /\ leaving' = TRUE /\ UNCHANGED adminKey
  \/ status = 500 /\ savedKey' \in {savedKey, NoKey} /\ UNCHANGED <<adminKey, leaving>>

\* The other handlers change nothing that is modelled here.
Handled(r, status) ==
  CASE r.name = "wifi" -> PutWifi(status)
    [] r.name = "admin-key" -> SetAdminKey(status)
    [] r.name = "restart" -> RestartAsked(status)
    [] r.name = "factory-reset" -> ResetDevice(status)
    [] OTHER -> status = 200 /\ KeepKeys

\* ContractServer::handler: the key first, then a pending restart, then the
\* handler.
Serve(h, r) ==
  LET verdict == IF r.auth THEN Verdict(h, r) ELSE "public"
  IN  \/ /\ verdict \in {"denied", "stale"}
         /\ Len(minted) < MaxMinted
         /\ Challenge
         /\ KeepKeys /\ UNCHANGED <<spent, respent>>
      \/ /\ verdict \notin {"denied", "stale"}
         /\ IF verdict = "authorized" THEN Accepted(h)
            ELSE UNCHANGED <<nonces, spent, respent>>
         /\ IF r.method = "POST" /\ leaving THEN KeepKeys
            ELSE \E status \in r.statuses : Handled(r, status)
         /\ UNCHANGED minted

Request ==
  /\ \E n \in Asked : \E h \in HeadersFor(n) \cup {NoHeader} : Serve(h, RouteOf(n))
  /\ UNCHANGED <<commissioned, now, boots>>

Elapse ==
  /\ now < MaxNow
  /\ now' = now + 1
  /\ UNCHANGED <<nonces, adminKey, savedKey, commissioned, leaving, minted, boots, spent,
                 respent>>

\* The restart worker, or the power: the table is lost, the key comes from flash.
AccessBoot ==
  /\ nonces' = <<>> /\ now' = 0 /\ leaving' = FALSE
  /\ adminKey' = savedKey
  /\ commissioned' = (savedKey # NoKey)
  /\ boots' = Len(minted)
  /\ UNCHANGED <<savedKey, minted, spent, respent>>

AccessInit ==
  /\ nonces = <<>> /\ minted = <<>> /\ now = 0 /\ boots = 0
  /\ savedKey \in AdminKeys \cup {NoKey}
  /\ adminKey = savedKey /\ commissioned = (savedKey # NoKey)
  /\ leaving = FALSE
  /\ spent = {} /\ respent = {}

AccessNext == Request \/ Elapse \/ AccessBoot

-----------------------------------------------------------------------------
(***************************************************************************)
(* A request behind a key runs at most once: not again under another       *)
(* nonce's eviction, after the key was rotated and rotated back, nor after *)
(* a restart.                                                              *)
(***************************************************************************)
ExchangeRunsOnce == respent = {}

(***************************************************************************)
(* The table is bounded without locking anyone out: whoever answers one of *)
(* the last MaxNonces challenges of this boot within its lifetime, with    *)
(* the current key and a count it has not used, is let in.                 *)
(***************************************************************************)
ChallengeAnswered ==
  \A v \in boots + 1 .. Len(minted) :
    (/\ Len(minted) - v < MaxNonces
     /\ now - minted[v] < NonceTtl
     /\ adminKey # NoKey)
    => \A r \in Routes, nc \in 1..MaxCount :
         LET h == [key |-> adminKey, uri |-> r.name, nonce |-> v, nc |-> nc]
         IN  (\A x \in spent : x.nonce = v => x.nc < nc)
             => Verdict(h, r) = "authorized"

(***************************************************************************)
(* A challenge is worth one request, to whoever holds the key and to       *)
(* nobody twice.                                                           *)
(***************************************************************************)
AccessKept == ExchangeRunsOnce /\ ChallengeAnswered
=============================================================================
