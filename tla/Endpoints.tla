------------------------------ MODULE Endpoints ------------------------------
(***************************************************************************)
(* The device's HTTP route table (firmware api/endpoints.rs): each         *)
(* endpoint's method, whether the route asks for the admin key, and the    *)
(* statuses its contract declares; and the handlers that are registered    *)
(* for it, in order (adapters/http/handlers).                              *)
(***************************************************************************)
EXTENDS Naturals, Sequences, FiniteSets

Route(name, method, auth, statuses) ==
  [name |-> name, method |-> method, auth |-> auth, statuses |-> statuses]

Public(name, statuses) == Route(name, "GET", FALSE, statuses)
Authenticated(name, method, statuses) == Route(name, method, TRUE, statuses)

\* mutation.rs: invalid input, conflict, absent capability, and faults.
MutationStatus == [InvalidInput |-> 400, Conflict |-> 409, Unavailable |-> 503,
                   Persistence |-> 500, Internal |-> 500]
MutationStatuses == {MutationStatus[k] : k \in DOMAIN MutationStatus}

\* The transport errors as mutations: what the state forbids is a conflict,
\* what the caller must fix is invalid input.
TransportStatus(error) ==
  IF error \in {"UnsupportedVersion", "InvalidKeyState", "InvalidKeyId"} THEN 400 ELSE 409
VerifyStatus(error) == IF error = "NoPendingKey" THEN 409 ELSE 400

Mutation(name, success) ==
  Route(name, "POST", TRUE, {success, 401} \cup MutationStatuses)

ReadRoutes ==
  {Public(n, {200}) : n \in {"status", "metrics", "settings", "audio-profiles", "boards",
                             "openapi"}}
  \cup {Public("health", {200, 503}),
        Authenticated("logs", "GET", {200, 401, 503}),
        Authenticated("coredump", "GET", {200, 401, 503}),
        Authenticated("coredump-image", "GET", {200, 401, 404, 503}),
        Authenticated("coredump-erase", "POST", {200, 401, 503})}

NetworkRoutes ==
  {Mutation(n, 200) : n \in {"wifi", "target", "transport", "key-stage", "key-verify",
     "key-activate", "key-discard", "key-rollback", "key-retire", "recover"}}

SettingsRoutes ==
  {Mutation(n, 200) : n \in {"board", "audio", "analog-passthrough", "led", "button",
     "set-audio-profiles", "audio-profile", "name", "admin-key", "firmware"}}

ActionRoutes ==
  {Mutation("stream", 200), Mutation("ota-check", 202), Mutation("ota-update", 202),
   Mutation("ota-rollback", 200),
   Authenticated("unlock", "POST", {200, 401, 503}),
   Authenticated("restart", "POST", {200, 401, 503}),
   Authenticated("factory-reset", "POST", {200, 401, 500, 503})}

Routes == ReadRoutes \cup NetworkRoutes \cup SettingsRoutes \cup ActionRoutes
RouteOf(name) == CHOOSE r \in Routes : r.name = name

-----------------------------------------------------------------------------
Registrations ==
  <<"status", "health", "metrics">> \o <<"logs">>
  \o <<"coredump", "coredump-image", "coredump-erase">>
  \o <<"settings">> \o <<"audio-profiles">> \o <<"boards">> \o <<"openapi">>
  \o <<"wifi", "target">>
  \o <<"transport", "key-stage", "key-verify", "key-activate", "key-discard",
       "key-rollback", "key-retire", "recover">>
  \o <<"board">> \o <<"audio", "set-audio-profiles", "audio-profile">>
  \o <<"analog-passthrough">> \o <<"led">> \o <<"button">> \o <<"stream">>
  \o <<"name", "admin-key">> \o <<"firmware">>
  \o <<"ota-check", "ota-update", "ota-rollback">>
  \o <<"unlock", "restart", "factory-reset">>

\* ContractServer: `handler` takes a declared endpoint once, and `finish`
\* wants each; their registrations are the bits of a 64-bit word.
BitsInWord == 64
Registered(names) ==
  /\ Cardinality(Routes) <= BitsInWord
  /\ \A i \in DOMAIN names : \E r \in Routes : r.name = names[i]
  /\ \A i, j \in DOMAIN names : names[i] = names[j] => i = j
  /\ \A r \in Routes : \E i \in DOMAIN names : names[i] = r.name

\* What the gate in front of each handler may answer by itself.
GateStatuses(r) ==
  (IF r.auth THEN {401} ELSE {}) \cup (IF r.method = "POST" THEN {503} ELSE {})

\* Every answer of the gate is in the endpoint's declared set, every write asks
\* for the key, and the method and path pairs are unique.
TableSound ==
  /\ Registered(Registrations)
  /\ \A r \in Routes : GateStatuses(r) \subseteq r.statuses
  /\ \A r \in Routes : r.method = "POST" => r.auth
  /\ Cardinality({r.name : r \in Routes}) = Cardinality(Routes)
=============================================================================
