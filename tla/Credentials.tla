---------------------------- MODULE Credentials ----------------------------
(***************************************************************************)
(* Login tokens, API keys and robot tokens, the worker registrations that  *)
(* hold API keys, and the cache of verified keys.                          *)
(*                                                                         *)
(* A login (PASETO) token is looked up in the database by every request.   *)
(* API keys and robot tokens are stored as Argon2 hashes, so a verified    *)
(* one is kept in an LRU cache, and whoever revokes one purges the cache   *)
(* afterwards, by prefix or by owner.  Each SQL statement or transaction   *)
(* and each use of the cache is a step of its own; nothing is held from    *)
(* one to the next.                                                        *)
(*                                                                         *)
(* A credential stands for its secret, its hash and its prefix.  Deleted   *)
(* and revoked rows are alike to every query.  That the caller of an       *)
(* administrative request may make it is the subject of module Accounts;   *)
(* here such a request starts with its first statement.                    *)
(***************************************************************************)
EXTENDS Integers, Sequences, Functions

CONSTANTS
    Human,      \* a human account, the owner of login tokens and API keys
    Robot,      \* a robot account, the owner of robot tokens
    Logins,     \* ids of login tokens
    Keys,       \* ids of API keys
    Tokens,     \* ids of robot tokens
    CacheSize,  \* capacity of the cache
    Calls       \* requests in progress

ASSUME CredentialsAssumption ==
    /\ Human # Robot
    /\ Logins \cap Keys = {} /\ Logins \cap Tokens = {} /\ Keys \cap Tokens = {}
    /\ 0 \notin Logins \cup Keys \cup Tokens
    /\ \E k \in Keys : \A j \in Keys : k <= j
    /\ CacheSize \in Nat \ {0}

VARIABLES
    acct,   \* users.active; the robot's row may be missing
    cred,   \* tables tokens, api_keys and robot_tokens: "none", "live", "revoked"
    wkr,    \* workers.api_key_id of the one worker name, 0 without a registration
    sess,   \* the browser session: the login token it holds, 0 without one
    cache,  \* TokenCache
    call,    \* the requests in progress
    late,   \* history: cached, though revoked, in a way the code lets pass
    old     \* history: live before the owner was deactivated, and to be revoked

credentials == <<acct, cred, wkr, sess, cache, call, late, old>>

Entities == {Human, Robot}

Ids == Logins \cup Keys \cup Tokens

Owner(k) == IF k \in Tokens THEN Robot ELSE Human

EmptyCache == [lru |-> <<>>, by_prefix |-> {}, by_owner |-> [e \in Entities |-> {}]]

Vacant == [pc |-> "free", k |-> 0, e |-> Human]

\* run_first_startup_seed: a development server starts with a worker, registered to
\* the administrator with a key of its own; any other server with none.
SeedWorkers == {0, CHOOSE k \in Keys : \A j \in Keys : k <= j}

CredentialsInit ==
    /\ acct = [e \in Entities |-> IF e = Human THEN "active" ELSE "none"]
    /\ wkr \in SeedWorkers
    /\ cred = [k \in Ids |-> IF k = wkr THEN "live" ELSE "none"]
    /\ sess = 0
    /\ cache = EmptyCache
    /\ call = [s \in Calls |-> Vacant]
    /\ late = {}
    /\ old = {}

-----------------------------------------------------------------------------
(* TokenCache.                                                              *)

Cached == Range(cache.lru)

\* Mutant: an evicted entry stays in the reverse indexes.
InsertLeavesIndex(k) ==
    LET rest == SelectSeq(cache.lru, LAMBDA j : j # k)
    IN  [lru |-> <<k>> \o SubSeq(rest, 1, IF Len(rest) < CacheSize THEN Len(rest)
                                          ELSE CacheSize - 1),
         by_prefix |-> cache.by_prefix \cup {k},
         by_owner |-> [cache.by_owner EXCEPT ![Owner(k)] = @ \cup {k}]]

\* Mutant: eviction starts one entry too late.
InsertOverfull(k) ==
    LET rest == SelectSeq(cache.lru, LAMBDA j : j # k)
        kept == SubSeq(rest, 1, IF Len(rest) <= CacheSize THEN Len(rest) ELSE CacheSize)
        out == Range(rest) \ Range(kept)
    IN  [lru |-> <<k>> \o kept,
         by_prefix |-> (cache.by_prefix \ out) \cup {k},
         by_owner |-> [e \in Entities |->
             (cache.by_owner[e] \ out) \cup (IF e = Owner(k) THEN {k} ELSE {})]]

\* remove_from_reverse_maps for the evicted entries.
RemoveFromReverseMaps(out) ==
    [cache EXCEPT !.by_prefix = @ \ out, !.by_owner = [e \in Entities |-> @[e] \ out]]

\* insert: the entry comes to the front; the one that falls off the end leaves
\* the reverse indexes too.
Insert(k) ==
    LET rest == SelectSeq(cache.lru, LAMBDA j : j # k)
        kept == SubSeq(rest, 1, IF Len(rest) < CacheSize THEN Len(rest) ELSE CacheSize - 1)
        left == RemoveFromReverseMaps(Range(rest) \ Range(kept))
    IN  [lru |-> <<k>> \o kept,
         by_prefix |-> left.by_prefix \cup {k},
         by_owner |-> [left.by_owner EXCEPT ![Owner(k)] = @ \cup {k}]]

\* get: a hit comes to the front.
Get(k) == [cache EXCEPT !.lru = <<k>> \o SelectSeq(@, LAMBDA j : j # k)]

\* remove_by_prefix.
RemoveByPrefix(k) ==
    LET popped == cache.by_prefix \cap {k} \cap Cached
    IN  [lru |-> SelectSeq(cache.lru, LAMBDA j : j \notin popped),
         by_prefix |-> cache.by_prefix \ {k},
         by_owner |-> [e \in Entities |-> cache.by_owner[e] \ popped]]

\* remove_by_owner.
RemoveByOwner(e) ==
    LET popped == cache.by_owner[e] \cap Cached
    IN  [lru |-> SelectSeq(cache.lru, LAMBDA j : j \notin popped),
         by_prefix |-> cache.by_prefix \ popped,
         by_owner |-> [cache.by_owner EXCEPT ![e] = {}]]

-----------------------------------------------------------------------------
(* Helpers.                                                                 *)

At(s, pc) == call[s].pc = pc

Proceed(s, pc, k, e) == call' = [call EXCEPT ![s] = [pc |-> pc, k |-> k, e |-> e]]

Done(s) == call' = [call EXCEPT ![s] = Vacant]

\* The next id of a table, in the order rows are inserted.
Fresh(T) == {k \in T : cred[k] = "none" /\ \A j \in T : j < k => cred[j] # "none"}

\* A new row, live from its insertion.
Store(k) == cred' = [cred EXCEPT ![k] = "live"]

\* insert_token, insert_api_key and insert_api_key_in_tx.
InsertToken(k) == k \in Logins /\ Store(k)

InsertApiKey(k) == k \in Keys /\ Store(k)

InsertApiKeyInTx(k) == k \in Keys /\ Store(k)

\* Secrets nobody has yet: token_create, generate_api_key_material and
\* generate_robot_token_material.
TokenCreate == Fresh(Logins)

GenerateApiKeyMaterial == Fresh(Keys)

GenerateRobotTokenMaterial == Fresh(Tokens)

\* The rows in K become revoked.
RevokeCredentials(K) ==
    cred' = [k \in Ids |-> IF k \in K /\ cred[k] = "live" THEN "revoked" ELSE cred[k]]

\* The history variables forget what has left the cache or is not live.
Remember(L, O) ==
    /\ late' = {k \in L : k \in Range(cache'.lru) /\ cred'[k] # "live"}
    /\ old' = {k \in O : cred'[k] = "live"}

-----------------------------------------------------------------------------
(* Authentication.                                                          *)

\* is_token_revoked: an unknown token counts as revoked.
IsTokenRevoked(k) == cred[k] # "live"

\* token_decode: what token_create made decodes, and nothing else.  Expiry is left
\* out here and below: an expired credential is refused like a revoked one.
TokenDecode(k) == k \in Logins

\* validate_paseto: the token decodes, and its row is looked up.
ValidatePaseto(s, k) ==
    /\ TokenDecode(k)
    /\ ~IsTokenRevoked(k)
    /\ Proceed(s, "user", k, Owner(k))
    /\ UNCHANGED cache

\* verify_hashed_token: a hit in the cache ends the verification, a miss goes on to
\* the rows.
VerifyHashedToken(s, k) ==
    \/ /\ k \in Cached
       /\ Proceed(s, "user", k, Owner(k))
       /\ cache' = Get(k)
    \/ /\ k \notin Cached
       /\ Proceed(s, "fetch", k, Owner(k))
       /\ UNCHANGED cache

\* verify_api_key and verify_robot_token, told apart by the form of the secret.
VerifyApiKey(s, k) == k \in Keys /\ VerifyHashedToken(s, k)

VerifyRobotToken(s, k) == k \in Tokens /\ VerifyHashedToken(s, k)

\* AuthUser's extractor: the bearer's form tells API keys, robot tokens and login
\* tokens apart.
PresentBearer(s, k) ==
    /\ At(s, "free")
    /\ cred[k] # "none"
    /\ VerifyApiKey(s, k) \/ VerifyRobotToken(s, k) \/ ValidatePaseto(s, k)
    /\ UNCHANGED <<acct, cred, wkr, sess>>
    /\ Remember(late, old)

\* Without a bearer the session's login token is validated.
PresentCookie(s) ==
    /\ At(s, "free")
    /\ sess # 0
    /\ ValidatePaseto(s, sess)
    /\ UNCHANGED <<acct, cred, wkr, sess>>
    /\ Remember(late, old)

\* find_api_keys_by_prefix, for verify_api_key: the row unless it is revoked.
FindApiKeysByPrefix(k) == {j \in Keys \cap {k} : cred[j] = "live"}

\* find_active_token_by_prefix, for verify_robot_token.
FindActiveTokenByPrefix(k) == {j \in Tokens \cap {k} : cred[j] = "live"}

\* verify_hashed_token, a miss: no candidate row is a refusal.
FetchCandidates(s) ==
    LET found == FindApiKeysByPrefix(call[s].k) \cup FindActiveTokenByPrefix(call[s].k)
    IN  /\ At(s, "fetch")
        /\ IF found # {} THEN Proceed(s, "hash", call[s].k, call[s].e) ELSE Done(s)
        /\ UNCHANGED <<acct, cred, wkr, sess, cache, late, old>>

\* The hash is verified off the executor, and the entry cached under the lock; the
\* row is not looked at again.
Verified(s) ==
    /\ At(s, "hash")
    /\ cache' = Insert(call[s].k)
    /\ Proceed(s, "user", call[s].k, call[s].e)
    /\ UNCHANGED <<acct, cred, wkr, sess>>
    /\ Remember(late \cup {call[s].k}, old)

\* load_authed_user: the owner has to be active.
LoadUser(s) ==
    /\ At(s, "user")
    /\ IF acct[call[s].e] = "active" THEN Proceed(s, "in", call[s].k, call[s].e) ELSE Done(s)
    /\ UNCHANGED <<acct, cred, wkr, sess, cache, late, old>>

\* get_worker_by_api_key_id: the registration that refers to the key.
GetWorkerByApiKeyId(k) == {wkr} \cap {k}

\* ws_upgrade: what verify_api_key accepted opens a worker connection if a
\* registration refers to the key.  The owner's account is not looked at.
WsUpgrade(s) ==
    /\ At(s, "user")
    /\ GetWorkerByApiKeyId(call[s].k) # {}
    /\ Done(s)
    /\ UNCHANGED <<acct, cred, wkr, sess, cache, late, old>>

-----------------------------------------------------------------------------
(* What an account does with its own credentials.                           *)

\* login and callback, up to the exchange with the provider: the nonce that login left
\* in the session is the one the callback brings.
Callback(s) ==
    /\ At(s, "free")
    /\ Proceed(s, "exchange", 0, Human)
    /\ UNCHANGED <<acct, cred, wkr, sess, cache, late, old>>

\* exchange_code_for_userinfo: what the provider may answer about the user.
ExchangeCodeForUserinfo ==
    [email_verified : BOOLEAN, domain_listed : BOOLEAN, name : {"robot", "plain"}]

\* is_email_domain_allowed.
IsEmailDomainAllowed(info) == info.domain_listed

\* validate_user_info.
ValidateUserInfo(info) == info.email_verified /\ IsEmailDomainAllowed(info)

\* callback, once the provider has answered: the answer is validated, the account row
\* written unless the name is one kept for robots (module Accounts), and a login
\* token inserted.  The account need not be active.
Exchanged(s) ==
    /\ At(s, "exchange")
    /\ \E info \in ExchangeCodeForUserinfo :
        IF ValidateUserInfo(info) /\ info.name # "robot"
        THEN \E k \in TokenCreate : InsertToken(k) /\ Proceed(s, "respond", k, Human)
        ELSE Done(s) /\ UNCHANGED cred
    /\ UNCHANGED <<acct, wkr, sess, cache, late, old>>

\* The end of the callback: a command-line client takes the token, a browser keeps
\* it in its session.
Reply(s) ==
    /\ At(s, "respond")
    /\ sess' \in {sess, call[s].k}
    /\ Done(s)
    /\ UNCHANGED <<acct, cred, wkr, cache, late, old>>

\* create_api_key.
CreateKey == \E k \in GenerateApiKeyMaterial : InsertApiKey(k)

\* create_api_key_handler, refused to robots.
CreateApiKey(s) ==
    /\ At(s, "in")
    /\ call[s].e = Human
    /\ CreateKey
    /\ Done(s)
    /\ UNCHANGED <<acct, wkr, sess, cache, late, old>>

\* revoke_api_key_by_prefix: a live key of the owner; it says when there is none.
RevokeApiKeyByPrefix(e, k) ==
    /\ Owner(k) = e
    /\ cred[k] = "live"
    /\ RevokeCredentials({k})

\* revoke_api_key_handler: the row first, then the purge by prefix.
RevokeApiKey(s) ==
    /\ At(s, "in")
    /\ \E k \in Keys :
        /\ RevokeApiKeyByPrefix(call[s].e, k)
        /\ Proceed(s, "purge_prefix", k, Owner(k))
    /\ UNCHANGED <<acct, wkr, sess, cache>>
    /\ Remember(late, old)

\* revoke_token of the database.
RevokeTokenRow(k) == RevokeCredentials({k})

\* revoke_token: a request that came in with a login token in its header revokes it.
RevokeToken(s) ==
    /\ At(s, "in")
    /\ call[s].k \in Logins
    /\ RevokeTokenRow(call[s].k)
    /\ Done(s)
    /\ UNCHANGED <<acct, wkr, sess, cache>>
    /\ Remember(late, old)

\* logout wants no valid token: it revokes the session's and flushes the session.
Logout ==
    /\ sess # 0
    /\ RevokeTokenRow(sess)
    /\ sess' = 0
    /\ UNCHANGED <<acct, wkr, cache, call>>
    /\ Remember(late, old)

\* revoke_all_for_user of the database.
RevokeAllForUser == RevokeCredentials(Logins)

\* revoke_all_tokens, refused to robots.
RevokeAllTokens(s) ==
    /\ At(s, "in")
    /\ call[s].e = Human
    /\ RevokeAllForUser
    /\ Done(s)
    /\ UNCHANGED <<acct, wkr, sess, cache>>
    /\ Remember(late, old)

-----------------------------------------------------------------------------
(* Accounts.                                                                *)

\* deactivate_entity, the account row: already inactive is a success.
FindActive(s) ==
    /\ At(s, "free")
    /\ \E e \in Entities : acct[e] = "active" /\ Proceed(s, "deactivate", 0, e)
    /\ UNCHANGED <<acct, cred, wkr, sess, cache, late, old>>

\* The transaction of deactivate_entity (the guard that may refuse it is Leave).
Deactivate(s) ==
    LET e == call[s].e
    IN  /\ At(s, "deactivate")
        /\ acct' = [acct EXCEPT ![e] = "inactive"]
        /\ Proceed(s, IF e = Human THEN "purge_human" ELSE "purge_owner", 0, e)
        /\ UNCHANGED <<cred, wkr, sess, cache>>
        /\ Remember(late, old \cup (IF e = Human THEN Logins \cup Keys ELSE {}))

\* deactivate_entity purges the cache by owner; for a human it goes on.
PurgeHuman(s) ==
    /\ At(s, "purge_human")
    /\ cache' = RemoveByOwner(call[s].e)
    /\ Proceed(s, "logins", 0, call[s].e)
    /\ UNCHANGED <<acct, cred, wkr, sess>>
    /\ Remember(late, old)

\* deactivate_entity revokes the login tokens.
RevokeLogins(s) ==
    /\ At(s, "logins")
    /\ RevokeAllForUser
    /\ Proceed(s, "keys", 0, call[s].e)
    /\ UNCHANGED <<acct, wkr, sess, cache>>
    /\ Remember(late, old)

\* Mutant: only unregistered keys are revoked.
RevokeApiKeysButWorkers == RevokeCredentials(Keys \ {wkr})

\* revoke_all_api_keys_for_user.
RevokeAllApiKeys == RevokeCredentials(Keys)

\* deactivate_entity revokes the API keys, those of workers among them.  Nothing is
\* purged after that: the account is inactive, and activation purges, unless the
\* activation has come in between.
RevokeKeys(s) ==
    /\ At(s, "keys")
    /\ RevokeAllApiKeys
    /\ Done(s)
    /\ UNCHANGED <<acct, wkr, sess, cache>>
    /\ Remember(IF acct[Human] = "active" THEN Ids ELSE late, old)

\* has_non_revoked_token.
HasNonRevokedToken == \E k \in Tokens : cred[k] = "live"

\* activate_entity looks the account up; a robot needs a token that is not revoked.
FindToActivate(s) ==
    /\ At(s, "free")
    /\ \E e \in Entities :
        /\ acct[e] # "none"
        /\ e = Robot => HasNonRevokedToken
        /\ Proceed(s, "activate", 0, e)
    /\ UNCHANGED <<acct, cred, wkr, sess, cache, late, old>>

\* Mutant: no purge after an activation.
ActivateUnpurged(s) ==
    /\ At(s, "activate")
    /\ acct' = [acct EXCEPT ![call[s].e] = "active"]
    /\ Done(s)
    /\ UNCHANGED <<cred, wkr, sess, cache, late, old>>

\* activate_entity, the update; the purge follows.
Activate(s) ==
    /\ At(s, "activate")
    /\ acct' = [acct EXCEPT ![call[s].e] = "active"]
    /\ Proceed(s, "purge_owner", 0, call[s].e)
    /\ UNCHANGED <<cred, wkr, sess, cache, late, old>>

\* remove_by_owner as the last step of a handler.
PurgeOwner(s) ==
    /\ At(s, "purge_owner")
    /\ cache' = RemoveByOwner(call[s].e)
    /\ Done(s)
    /\ UNCHANGED <<acct, cred, wkr, sess>>
    /\ Remember(late, old)

\* remove_by_prefix as the last step of a handler.
PurgePrefix(s) ==
    /\ At(s, "purge_prefix")
    /\ cache' = RemoveByPrefix(call[s].k)
    /\ Done(s)
    /\ UNCHANGED <<acct, cred, wkr, sess>>
    /\ Remember(late, old)

-----------------------------------------------------------------------------
(* Robots.                                                                  *)

\* create_robot_in_conn and revive_robot_in_conn: the account is active with one new
\* token, and a revived one has lost its old ones.
CreateRobot(new) ==
    /\ acct' = [acct EXCEPT ![Robot] = "active"]
    /\ Store(new)

ReviveRobot(new) ==
    /\ acct' = [acct EXCEPT ![Robot] = "active"]
    /\ cred' = [k \in Ids |-> IF k = new THEN "live"
                              ELSE IF k \in Tokens /\ cred[k] = "live" THEN "revoked"
                              ELSE cred[k]]

\* create_or_revive_robot: one immediate transaction, in which an active robot is
\* refused; the cache entries of a revived one are purged afterwards.
CreateOrRevive(s) ==
    /\ At(s, "free")
    /\ \E new \in GenerateRobotTokenMaterial :
        \/ acct[Robot] = "none" /\ CreateRobot(new) /\ UNCHANGED call
        \/ acct[Robot] = "inactive" /\ ReviveRobot(new) /\ Proceed(s, "purge_owner", 0, Robot)
    /\ UNCHANGED <<wkr, sess, cache>>
    /\ Remember(late, old)

\* revoke_all_active_tokens.
RevokeAllActiveTokens == RevokeCredentials(Tokens)

\* tombstone_robot of the database, one immediate transaction.
TombstoneRow ==
    /\ acct' = [acct EXCEPT ![Robot] = "inactive"]
    /\ RevokeAllActiveTokens

\* get_robot_by_name: the row is there, whether or not the robot is active.
GetRobotByName == acct[Robot] # "none"

\* tombstone_robot: the robot's row is found (it is never deleted), then the
\* transaction, then the purge.
TombstoneRobot(s) ==
    /\ At(s, "free")
    /\ GetRobotByName
    /\ TombstoneRow
    /\ Proceed(s, "purge_owner", 0, Robot)
    /\ UNCHANGED <<wkr, sess, cache>>
    /\ Remember(late, old)

\* Mutant: a renewal leaves the old token.
RotateKeepsOld(new, renew) ==
    /\ acct[Robot] = "active"
    /\ renew \/ ~HasNonRevokedToken
    /\ Store(new)

\* rotate_token of the database, one immediate transaction: refused to an unknown or
\* inactive robot, and without renew to one that has a live token.
RotateRow(new, renew) ==
    /\ acct[Robot] = "active"
    /\ renew \/ ~HasNonRevokedToken
    /\ cred' = [k \in Ids |-> IF k = new THEN "live"
                              ELSE IF k \in Tokens /\ cred[k] = "live" THEN "revoked"
                              ELSE cred[k]]

\* create_or_rotate_token: the transaction, then the purge.
RotateToken(s) ==
    /\ At(s, "free")
    /\ \E renew \in BOOLEAN, new \in GenerateRobotTokenMaterial : RotateRow(new, renew)
    /\ Proceed(s, "purge_owner", 0, Robot)
    /\ UNCHANGED <<acct, wkr, sess, cache>>
    /\ Remember(late, old)

\* revoke_robot_token.
RevokeRobotToken(s) ==
    /\ At(s, "free")
    /\ GetRobotByName
    /\ RevokeAllActiveTokens
    /\ Proceed(s, "purge_owner", 0, Robot)
    /\ UNCHANGED <<acct, wkr, sess, cache>>
    /\ Remember(late, old)

-----------------------------------------------------------------------------
(* Worker registrations.  A name in use fails a unique index, which is Leave or *)
(* a registration that does not happen.                                     *)

\* insert_worker: the registration refers to the key.
InsertWorker(k) == wkr' = k

\* register_worker by an authenticated human: key and registration in one transaction.
RegisterWorker(s) ==
    /\ At(s, "in")
    /\ call[s].e = Human
    /\ wkr = 0
    /\ \E k \in GenerateApiKeyMaterial :
        /\ InsertApiKeyInTx(k)
        /\ InsertWorker(k)
    /\ Done(s)
    /\ UNCHANGED <<acct, sess, cache, late, old>>

\* get_worker_by_id: the key of the registration, if there is one.
GetWorker == {wkr} \ {0}

\* deregister_worker reads the registration.
FindToDeregister(s) ==
    /\ At(s, "in")
    /\ call[s].e = Human
    /\ \E k \in GetWorker : Proceed(s, "deregister", k, Human)
    /\ UNCHANGED <<acct, cred, wkr, sess, cache, late, old>>

\* regenerate_worker_token reads the registration.
FindToRegenerate(s) ==
    /\ At(s, "in")
    /\ call[s].e = Human
    /\ \E k \in GetWorker : Proceed(s, "regenerate", k, Human)
    /\ UNCHANGED <<acct, cred, wkr, sess, cache, late, old>>

\* deregister_worker: the key read before is revoked and the registration deleted in
\* one transaction; the purge of its prefix follows.
DeregisterWorker(s) ==
    /\ At(s, "deregister")
    /\ RevokeCredentials({call[s].k})
    /\ wkr' = 0
    /\ Proceed(s, "purge_prefix", call[s].k, Human)
    /\ UNCHANGED <<acct, sess, cache>>
    /\ Remember(late, old)

\* update_api_key_id changes the registration, if it is still there.
UpdateApiKeyId(k) == wkr' = IF wkr = 0 THEN 0 ELSE k

\* regenerate_worker_token: a new key, the registration (if it is still there) and
\* the revocation of the key read before are one transaction.
RegenerateToken(s) ==
    /\ At(s, "regenerate")
    /\ \E new \in GenerateApiKeyMaterial :
        /\ cred' = [k \in Ids |-> IF k = new THEN "live"
                                  ELSE IF k = call[s].k THEN "revoked" ELSE cred[k]]
        /\ UpdateApiKeyId(new)
    /\ Proceed(s, "purge_prefix", call[s].k, Human)
    /\ UNCHANGED <<acct, sess, cache>>
    /\ Remember(late, old)

-----------------------------------------------------------------------------

\* The handler returns early or is dropped with its connection.  A purge that is
\* dropped leaves its entries, a deactivation its credentials.
Leave(s) ==
    /\ call[s].pc # "free"
    /\ Done(s)
    /\ UNCHANGED <<acct, cred, wkr, sess, cache>>
    /\ Remember(IF call[s].pc \in {"purge_owner", "purge_human", "purge_prefix"}
                THEN Ids ELSE late,
                IF call[s].pc \in {"purge_human", "logins", "keys"} THEN {} ELSE old)

\* The server restarts: the cache and the requests are gone.
Restart ==
    /\ cache' = EmptyCache
    /\ call' = [s \in Calls |-> Vacant]
    /\ UNCHANGED <<acct, cred, wkr, sess>>
    /\ Remember({}, IF \E s \in Calls : call[s].pc \in {"purge_human", "logins", "keys"}
                    THEN {} ELSE old)

Step(s) ==
    \/ FetchCandidates(s) \/ Verified(s) \/ LoadUser(s) \/ WsUpgrade(s) \/ Leave(s)
    \/ PresentCookie(s) \/ Callback(s) \/ Exchanged(s) \/ Reply(s)
    \/ CreateApiKey(s) \/ RevokeApiKey(s) \/ RevokeToken(s) \/ RevokeAllTokens(s)
    \/ FindActive(s) \/ Deactivate(s) \/ PurgeHuman(s) \/ RevokeLogins(s) \/ RevokeKeys(s)
    \/ FindToActivate(s) \/ Activate(s) \/ PurgeOwner(s) \/ PurgePrefix(s)
    \/ CreateOrRevive(s) \/ TombstoneRobot(s) \/ RotateToken(s) \/ RevokeRobotToken(s)
    \/ RegisterWorker(s) \/ FindToDeregister(s) \/ DeregisterWorker(s)
    \/ FindToRegenerate(s) \/ RegenerateToken(s)

CredentialsNext ==
    \/ \E s \in Calls : Step(s)
    \/ \E s \in Calls, k \in Ids : PresentBearer(s, k)
    \/ Logout \/ Restart

CredentialsSpec == CredentialsInit /\ [][CredentialsNext]_credentials

-----------------------------------------------------------------------------
(* Properties.                                                              *)

Pcs == {"free", "fetch", "hash", "user", "in", "exchange", "respond", "deactivate",
        "purge_human", "logins", "keys", "activate", "purge_owner", "purge_prefix", "deregister", "regenerate"}

\* Every variable stays in its type, the cache within its capacity, and a login
\* token is never cached.
CredentialsTypeOK ==
    /\ acct \in [Entities -> {"none", "active", "inactive"}]
    /\ cred \in [Ids -> {"none", "live", "revoked"}]
    /\ wkr \in Keys \cup {0}
    /\ sess \in Logins \cup {0}
    /\ cache.lru \in Seq(Keys \cup Tokens)
    /\ Len(cache.lru) <= CacheSize
    /\ call \in [Calls -> [pc : Pcs, k : Ids \cup {0}, e : Entities]]
    /\ late \subseteq Ids
    /\ old \subseteq Ids

\* The reverse indexes of TokenCache agree with the cache: a purge by prefix or by
\* owner finds every cached entry it is for, and nothing keeps an evicted one.
CacheIndexed ==
    /\ IsInjective(cache.lru)
    /\ cache.by_prefix = Cached
    /\ \A e \in Entities : cache.by_owner[e] = {k \in Cached : Owner(k) = e}

\* A purge that is still to come and will take k out of the cache.
PurgePending(k) ==
    \E s \in Calls :
        \/ call[s].pc \in {"purge_owner", "purge_human"} /\ call[s].e = Owner(k)
        \/ call[s].pc = "purge_prefix" /\ call[s].k = k

\* A cached key whose row is revoked is on its way out, or refused to requests because
\* its owner is inactive, or was let in by one of three gaps: its verification had
\* fetched the row before the revocation, the purge was dropped with its request, or
\* the owner was activated again before the deactivation had revoked the keys.
CacheFresh ==
    \A k \in Cached :
        cred[k] = "live" \/ acct[Owner(k)] # "active" \/ PurgePending(k) \/ k \in late

\* A robot never has two live tokens, whatever creations, revivals, rotations and
\* tombstones interleave, so the partial unique index on robot_tokens never fires.
OneRobotToken ==
    \A j, k \in Tokens : cred[j] = "live" /\ cred[k] = "live" => j = k

\* The credentials an account had when it was deactivated are dead once no
\* deactivation of it is under way, even if it has been activated again meanwhile.
DeactivationRevokes ==
    old = {} \/ \E s \in Calls : call[s].pc \in {"purge_human", "logins", "keys"}
=============================================================================
