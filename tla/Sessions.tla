---------------------------------- MODULE Sessions ----------------------------------
(***************************************************************************)
(* Authorization codes and refresh tokens of the platform core.  A code is *)
(* exchanged once, for generation 1 of a new family of refresh tokens;     *)
(* every use of a token rotates it to the next generation; a token used    *)
(* again, or raced by another use of itself, revokes its family.           *)
(*                                                                         *)
(* Postgres decides and Redis caches: a lookup believes the cache, which   *)
(* only ever holds records that were active when they were written, and    *)
(* whose calls fail silently.  Each await of the service is a step of its  *)
(* own; an UPDATE of many rows takes its snapshot in one step and writes   *)
(* in another.                                                             *)
(*                                                                         *)
(* Expiry is not a step: presenting an expired code or token changes       *)
(* nothing, like never presenting it.                                      *)
(***************************************************************************)
EXTENDS Naturals

CONSTANTS
  Tokens,   \* bound: rows of refresh_tokens there can be
  Codes,    \* authorization codes, one per login
  Users,
  Owner,    \* the user who logged in
  Requests, \* requests in flight at once
  None

ASSUME SessionsAssumption ==
  /\ Owner \in [Codes -> Users]
  /\ None \notin Tokens \cup Codes \cup Users

VARIABLES
  code,     \* status of each authorization code
  status,   \* refresh_tokens.status of the committed rows
  family,   \* family_id: the row that is generation 1
  gen,      \* generation
  login,    \* the code the family was issued for
  replaced, \* replaced_by_id
  cache,    \* token hashes with an "active" record in Redis
  held,     \* tokens some client has been answered with
  pc, tok,  \* where each request is, and the token it presented
  arg,      \* the code it exchanges, or the user it logs out
  next,     \* the row it creates
  snap,     \* the rows its UPDATE has found
  purge     \* the cache entries it will delete

rows == <<status, family, gen, login, replaced>>
locals == <<pc, tok, arg, next, snap, purge>>
vars == <<code, status, family, gen, login, replaced, cache, held,
          pc, tok, arg, next, snap, purge>>

Status == {"active", "rotated", "revoked"}
Steps == {"idle", "create", "cache", "answer", "insert", "swap", "won", "lost",
          "revoke", "update", "purge"}

TypeOK ==
  /\ code \in [Codes -> {"none", "issued", "consumed"}]
  /\ status \in [Tokens -> Status \cup {"none"}]
  /\ family \in [Tokens -> Tokens \cup {None}]
  /\ gen \in [Tokens -> Nat]
  /\ login \in [Tokens -> Codes \cup {None}]
  /\ replaced \in [Tokens -> Tokens \cup {None}]
  /\ cache \subseteq Tokens
  /\ held \subseteq Tokens
  /\ pc \in [Requests -> Steps]
  /\ tok \in [Requests -> Tokens \cup {None}]
  /\ arg \in [Requests -> Codes \cup Users \cup {None}]
  /\ next \in [Requests -> Tokens \cup {None}]
  /\ \A r \in Requests : pc[r] = "swap" => next[r] \in Tokens /\ status[next[r]] = "none"
  /\ snap \in [Requests -> SUBSET Tokens]
  /\ purge \in [Requests -> SUBSET Tokens]

Init ==
  /\ code = [c \in Codes |-> "none"]
  /\ status = [t \in Tokens |-> "none"]
  /\ family = [t \in Tokens |-> None]
  /\ gen = [t \in Tokens |-> 0]
  /\ login = [t \in Tokens |-> None]
  /\ replaced = [t \in Tokens |-> None]
  /\ cache = {} /\ held = {}
  /\ pc = [r \in Requests |-> "idle"]
  /\ tok = [r \in Requests |-> None]
  /\ arg = [r \in Requests |-> None]
  /\ next = [r \in Requests |-> None]
  /\ snap = [r \in Requests |-> {}]
  /\ purge = [r \in Requests |-> {}]

Goto(r, step) == pc' = [pc EXCEPT ![r] = step]

\* The request ends, whatever it had got to; an open transaction rolls back.
Finish(r) ==
  /\ Goto(r, "idle")
  /\ tok' = [tok EXCEPT ![r] = None]
  /\ arg' = [arg EXCEPT ![r] = None]
  /\ next' = [next EXCEPT ![r] = None]
  /\ snap' = [snap EXCEPT ![r] = {}]
  /\ purge' = [purge EXCEPT ![r] = {}]

Fresh(n) == status[n] = "none" /\ \A r \in Requests : next[r] # n

CommitRow(n, fam, g, c) ==
  /\ family' = [family EXCEPT ![n] = fam]
  /\ gen' = [gen EXCEPT ![n] = g]
  /\ login' = [login EXCEPT ![n] = c]

(***************************************************************************)
(* POST /oauth/authorize and the authorization_code grant.                 *)
(***************************************************************************)
Authorize(c) ==
  /\ code[c] = "none"
  /\ code' = [code EXCEPT ![c] = "issued"]
  /\ UNCHANGED <<rows, cache, held, locals>>

\* Mutant of Redeemable: the code is read, then marked.
Reusable(c) == code[c] # "none"

Redeemable(c) == code[c] = "issued"

\* A client, redirect_uri or verifier that does not match is found out after
\* the code was consumed.
Consume(r, c) ==
  /\ pc[r] = "idle"
  /\ Redeemable(c)
  /\ code' = [code EXCEPT ![c] = "consumed"]
  /\ \/ Goto(r, "create") /\ arg' = [arg EXCEPT ![r] = c]
     \/ UNCHANGED <<pc, arg>>
  /\ UNCHANGED <<rows, cache, held, tok, next, snap, purge>>

CreateFamily(r) ==
  /\ pc[r] = "create"
  /\ \E n \in Tokens :
       /\ Fresh(n)
       /\ status' = [status EXCEPT ![n] = "active"]
       /\ CommitRow(n, n, 1, arg[r])
       /\ next' = [next EXCEPT ![r] = n]
  /\ Goto(r, "cache")
  /\ UNCHANGED <<code, replaced, cache, held, tok, arg, snap, purge>>

Cache(r) ==
  /\ pc[r] = "cache"
  /\ cache' = cache \cup {next[r]}
  /\ Goto(r, "answer")
  /\ UNCHANGED <<code, rows, held, tok, arg, next, snap, purge>>

Answer(r) ==
  /\ pc[r] = "answer"
  /\ held' = held \cup {next[r]}
  /\ Finish(r)
  /\ UNCHANGED <<code, rows, cache>>

(***************************************************************************)
(* The refresh_token grant.                                                *)
(***************************************************************************)
\* What a lookup may find: a cached record is active, a GET that fails is a miss.
Lookup(t) == {status[t]} \cup {s \in {"active"} : t \in cache}

\* A DEL may fail, and the caller goes on.
Forget(t) == cache' \in {cache, cache \ {t}}

Rotate(r, t) ==
  /\ pc[r] = "idle"
  /\ t \in held
  /\ tok' = [tok EXCEPT ![r] = t]
  /\ \/ /\ "active" \in Lookup(t)
        /\ Goto(r, "insert")
        /\ UNCHANGED purge
     \/ /\ Lookup(t) # {"active"}
        /\ Goto(r, "revoke")
        /\ purge' = [purge EXCEPT ![r] = {t}]
  /\ UNCHANGED <<code, rows, cache, held, arg, next, snap>>

\* Mutant of InsertNext: the insert commits on its own.
InsertAndCommit(r) ==
  /\ pc[r] = "insert"
  /\ \E n \in Tokens :
       /\ Fresh(n)
       /\ next' = [next EXCEPT ![r] = n]
       /\ status' = [status EXCEPT ![n] = "active"]
  /\ Goto(r, "swap")
  /\ UNCHANGED <<code, family, gen, login, replaced, cache, held, tok, arg, snap, purge>>

InsertNext(r) ==
  /\ pc[r] = "insert"
  /\ \E n \in Tokens : Fresh(n) /\ next' = [next EXCEPT ![r] = n]
  /\ Goto(r, "swap")
  /\ UNCHANGED <<code, rows, cache, held, tok, arg, snap, purge>>

\* Mutant of MayReplace: the UPDATE matches the row by its id alone.
MayReplaceAny(t) == t \in Tokens

MayReplace(t) == status[t] = "active"

\* The compare-and-swap and the commit: the inserted row becomes visible
\* whether or not it replaces the presented one.
Swap(r) ==
  /\ pc[r] = "swap"
  /\ LET t == tok[r] n == next[r] IN
     /\ CommitRow(n, family[t], gen[t] + 1, login[t])
     /\ \/ /\ MayReplace(t)
           /\ status' = [status EXCEPT ![t] = "rotated", ![n] = "active"]
           /\ replaced' = [replaced EXCEPT ![t] = n]
           /\ Goto(r, "won")
        \/ /\ ~MayReplace(t)
           /\ status' = [status EXCEPT ![n] = "active"]
           /\ Goto(r, "lost")
           /\ UNCHANGED replaced
  /\ UNCHANGED <<code, cache, held, tok, arg, next, snap, purge>>

DropPresented(r) ==
  /\ pc[r] \in {"won", "lost"}
  /\ Forget(tok[r])
  /\ Goto(r, IF pc[r] = "won" THEN "cache" ELSE "revoke")
  /\ UNCHANGED <<code, rows, held, tok, arg, next, snap, purge>>

(***************************************************************************)
(* Revocation: of the family of a token used again or handed in, or of all *)
(* the families of a user.                                                 *)
(***************************************************************************)
RevokeByRawToken(r, t) ==
  /\ pc[r] = "idle"
  /\ t \in held
  /\ tok' = [tok EXCEPT ![r] = t]
  /\ purge' = [purge EXCEPT ![r] = {t}]
  /\ Goto(r, "revoke")
  /\ UNCHANGED <<code, rows, cache, held, arg, next, snap>>

RevokeAllSessionsForUser(r, u) ==
  /\ pc[r] = "idle"
  /\ arg' = [arg EXCEPT ![r] = u]
  /\ Goto(r, "revoke")
  /\ UNCHANGED <<code, rows, cache, held, tok, next, snap, purge>>

OfUser(t, u) == login[t] \in Codes /\ Owner[login[t]] = u

\* Mutant of InScope: the presented token is revoked, and not its family.
InScopeAlone(r, t) == IF tok[r] = None THEN OfUser(t, arg[r]) ELSE t = tok[r]

InScope(r, t) == IF tok[r] = None THEN OfUser(t, arg[r]) ELSE family[t] = family[tok[r]]
Revocable(t) == status[t] \in Status \ {"revoked"}

StartUpdate(r) ==
  /\ pc[r] = "revoke"
  /\ snap' = [snap EXCEPT ![r] = {t \in Tokens : Revocable(t) /\ InScope(r, t)}]
  /\ Goto(r, "update")
  /\ UNCHANGED <<code, rows, cache, held, tok, arg, next, purge>>

\* Rows committed since the snapshot stay as they are.
RevokeRows(r) ==
  /\ pc[r] = "update"
  /\ LET found == {t \in snap[r] : Revocable(t)} IN
     /\ status' = [t \in Tokens |-> IF t \in found THEN "revoked" ELSE status[t]]
     /\ purge' = IF tok[r] = None THEN [purge EXCEPT ![r] = found] ELSE purge
  /\ snap' = [snap EXCEPT ![r] = {}]
  /\ Goto(r, "purge")
  /\ UNCHANGED <<code, family, gen, login, replaced, cache, held, tok, arg, next>>

Purge(r) ==
  /\ pc[r] = "purge"
  /\ \/ /\ purge[r] = {}
        /\ Finish(r)
        /\ UNCHANGED cache
     \/ /\ \E t \in purge[r] :
             /\ Forget(t)
             /\ purge' = [purge EXCEPT ![r] = @ \ {t}]
        /\ UNCHANGED <<pc, tok, arg, next, snap>>
  /\ UNCHANGED <<code, rows, held>>

(***************************************************************************)
(* Faults.                                                                 *)
(***************************************************************************)
\* The process dies, a call fails, or the answer is lost or refused because
\* the token belongs to another client.
Die(r) ==
  /\ pc[r] # "idle"
  /\ Finish(r)
  /\ UNCHANGED <<code, rows, cache, held>>

\* Redis evicts an entry or restarts empty, or the SET that wrote it had failed.
Evict(t) ==
  /\ t \in cache
  /\ cache' = cache \ {t}
  /\ UNCHANGED <<code, rows, held, locals>>

Next ==
  \/ \E c \in Codes : Authorize(c)
  \/ \E t \in Tokens : Evict(t)
  \/ \E r \in Requests :
       \/ \E c \in Codes : Consume(r, c)
       \/ CreateFamily(r) \/ Cache(r) \/ Answer(r)
       \/ \E t \in Tokens : Rotate(r, t) \/ RevokeByRawToken(r, t)
       \/ InsertNext(r) \/ Swap(r) \/ DropPresented(r)
       \/ \E u \in Users : RevokeAllSessionsForUser(r, u)
       \/ StartUpdate(r) \/ RevokeRows(r) \/ Purge(r)
       \/ Die(r)

Spec == Init /\ [][Next]_vars

(***************************************************************************)
(* Properties.                                                             *)
(***************************************************************************)
\* The rows a client can come to hold: generation 1, and the rows that
\* replaced another.  A row whose rotation lost stays out.
Issued(t) ==
  /\ status[t] # "none"
  /\ family[t] = t \/ \E s \in Tokens : replaced[s] = t

\* However many requests exchange an authorization code at once, and whichever
\* of them fail on the way, it starts at most one family of refresh tokens.
OneSessionPerCode ==
  \A t, u \in Tokens :
    status[t] # "none" /\ status[u] # "none" /\ login[t] = login[u] => family[t] = family[u]

\* Two uses of one token never leave its family with two tokens that work,
\* although the cache answers for both that the token is active and the loser
\* commits an active row of its own.
OneLiveToken ==
  \A t, u \in Tokens :
    /\ Issued(t) /\ status[t] = "active"
    /\ Issued(u) /\ status[u] = "active"
    /\ family[t] = family[u]
    => t = u

\* A family whose current token was revoked is over: no rotation that had
\* looked the token up before the revocation, or finds it in a cache the
\* revocation did not reach, revives it.
RevokedSessionIsOver ==
  \A t, u \in Tokens :
    /\ Issued(t) /\ status[t] = "revoked" /\ replaced[t] = None
    /\ Issued(u) /\ family[u] = family[t]
    => status[u] # "active"

\* A revocation under way: the logins it is to end, and the live tokens its
\* UPDATE has found.
Phase(r) ==
  CASE pc[r] = "revoke" -> "asked"
    [] pc[r] = "update" -> "found"
    [] pc[r] = "purge"  -> "done"
    [] OTHER            -> "idle"

Scope(r) == {c \in Codes : IF tok[r] = None THEN Owner[c] = arg[r] ELSE login[tok[r]] = c}
Asked(r) == IF pc[r] = "revoke" THEN Scope(r) ELSE {}
Found(r) == {t \in snap[r] : Issued(t) /\ status[t] = "active"}

Live(c) == {t \in Tokens : Issued(t) /\ login[t] = c /\ status[t] = "active"}
Used(c) == {t \in Tokens : Issued(t) /\ login[t] = c /\ status[t] # "active"}

Chained == INSTANCE TokenChain WITH
  Logins <- Codes,
  Revokers <- Requests,
  live <- [c \in Codes |-> Live(c)],
  used <- [c \in Codes |-> Used(c)],
  phase <- [r \in Requests |-> Phase(r)],
  asked <- [r \in Requests |-> Asked(r)],
  found <- [r \in Requests |-> Found(r)]

\* Every login is one chain of tokens: the exchange of its code begins it, a use
\* of the live token replaces that token and nothing else does, and the row of a
\* rotation that lost never joins it.  A revocation (reuse of any token of the
\* family, /oauth/revoke, logout everywhere) finds the live token of each login it
\* is about and ends those logins for good, unless a rotation replaces the token
\* between the snapshot of the UPDATE and its write: then the row of the new token
\* was not there to be found, and the login goes on.
SessionsAreChains == Chained!Spec

================================================================================
