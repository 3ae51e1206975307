------------------------------- MODULE SessionsProofs -------------------------------
(***************************************************************************)
(* The families of Sessions are chains, and a revocation ends the ones it  *)
(* is about unless a rotation overtakes it, for any number of rows, codes  *)
(* and requests.                                                           *)
(***************************************************************************)
EXTENDS Sessions, TLAPS

Exists(t) == status[t] # "none"

\* A replaced row is no longer active, and its successor is the next
\* generation of its family.
Linked ==
  \A s \in Tokens : replaced[s] # None =>
    /\ status[s] \in {"rotated", "revoked"}
    /\ Exists(replaced[s])
    /\ family[replaced[s]] = family[s]
    /\ gen[replaced[s]] = gen[s] + 1

\* Generation 1 is the row the family is named after.
Rooted ==
  \A t \in Tokens : Exists(t) =>
    /\ family[t] \in Tokens /\ Exists(family[t])
    /\ gen[t] >= 1
    /\ family[t] = t <=> gen[t] = 1

\* The issued rows of a family are a chain: one per generation, and all but
\* the last replaced.
Chain ==
  \A t, u \in Tokens :
    Issued(t) /\ Issued(u) /\ family[t] = family[u] =>
      /\ gen[t] = gen[u] => t = u
      /\ gen[t] < gen[u] => replaced[t] # None

\* What a request works on.
Working ==
  \A r \in Requests :
    /\ pc[r] = "create" => arg[r] \in Codes
    /\ pc[r] \in {"insert", "swap"} => tok[r] \in Tokens /\ Issued(tok[r])
    /\ pc[r] \in {"won", "cache", "answer"} => next[r] \in Tokens /\ Issued(next[r])

HeldIsIssued == \A t \in held : Issued(t)

\* No two requests create the same row.
Reserved == \A r, q \in Requests : next[r] = next[q] /\ next[r] # None => r = q

\* A code is spent before it leads to a row, and by one request.
Spent ==
  /\ \A t \in Tokens : Exists(t) => login[t] \in Codes /\ code[login[t]] = "consumed"
  /\ \A r \in Requests : pc[r] = "create" =>
       /\ code[arg[r]] = "consumed"
       /\ \A t \in Tokens : Exists(t) => login[t] # arg[r]
       /\ \A q \in Requests : pc[q] = "create" /\ arg[q] = arg[r] => q = r

IInv ==
  /\ TypeOK
  /\ Linked /\ Rooted /\ Chain
  /\ Working /\ HeldIsIssued /\ Reserved
  /\ Spent /\ OneSessionPerCode

USE SessionsAssumption

\* A step that keeps the rows, and leaves the codes as far as Spent looks at
\* them, disturbs no fact about rows alone.
LEMMA RowsKept ==
  ASSUME IInv, UNCHANGED rows, \A c \in Codes : code[c] = "consumed" => code'[c] = "consumed"
  PROVE  /\ Linked' /\ Rooted' /\ Chain' /\ OneSessionPerCode'
         /\ \A t : Issued(t)' <=> Issued(t)
         /\ \A t \in Tokens : Exists(t)' => login'[t] \in Codes /\ code'[login'[t]] = "consumed"
<1>1. \A t : Issued(t)' <=> Issued(t)
  BY DEF rows, Issued
<1>2. Linked' /\ Rooted' /\ Chain' /\ OneSessionPerCode'
  BY <1>1 DEF IInv, Linked, Rooted, Chain, OneSessionPerCode, Exists, rows
<1>3. \A t \in Tokens : Exists(t)' => login'[t] \in Codes /\ code'[login'[t]] = "consumed"
  BY DEF IInv, Spent, Exists, rows
<1> QED BY <1>1, <1>2, <1>3

\* A request that ends, by its answer, by its last DEL or by dying, forgets what it worked on.
LEMMA FinishKeeps ==
  ASSUME IInv, NEW r \in Requests, Finish(r), UNCHANGED <<code, rows>>,
         cache' \subseteq Tokens, held' \subseteq Tokens, \A t \in held' : Issued(t)
  PROVE  IInv'
<1>1. /\ Linked' /\ Rooted' /\ Chain' /\ OneSessionPerCode'
      /\ \A t : Issued(t)' <=> Issued(t)
      /\ \A t \in Tokens : Exists(t)' => login'[t] \in Codes /\ code'[login'[t]] = "consumed"
  BY RowsKept
<1>2. TypeOK'
  BY DEF IInv, TypeOK, Finish, Goto, Steps, rows
<1>3. Working'
  BY <1>1 DEF IInv, TypeOK, Working, Finish, Goto
<1>4. HeldIsIssued'
  BY <1>1 DEF HeldIsIssued
<1>5. Reserved'
  BY DEF IInv, TypeOK, Reserved, Finish
<1>6. Spent'
  BY <1>1 DEF IInv, TypeOK, Spent, Finish, Goto, Exists, rows
<1> QED BY <1>1, <1>2, <1>3, <1>4, <1>5, <1>6 DEF IInv

\* A step of one request that touches no row, reserves none and spends no
\* code, and only goes where it may.
LEMMA RequestMoves ==
  ASSUME IInv, NEW r \in Requests, NEW step \in Steps,
         Goto(r, step), step \notin {"create", "swap"}, UNCHANGED <<code, rows, held, next>>,
         cache' \subseteq Tokens,
         tok' \in [Requests -> Tokens \cup {None}],
         \A q \in Requests \ {r} : tok'[q] = tok[q] /\ arg'[q] = arg[q],
         arg' \in [Requests -> Codes \cup Users \cup {None}],
         snap' \in [Requests -> SUBSET Tokens], purge' \in [Requests -> SUBSET Tokens],
         step = "insert" => tok'[r] \in Tokens /\ Issued(tok'[r]),
         step \in {"won", "cache", "answer"} => next[r] \in Tokens /\ Issued(next[r])
  PROVE  IInv'
<1>1. /\ Linked' /\ Rooted' /\ Chain' /\ OneSessionPerCode'
      /\ \A t : Issued(t)' <=> Issued(t)
      /\ \A t \in Tokens : Exists(t)' => login'[t] \in Codes /\ code'[login'[t]] = "consumed"
  BY RowsKept
<1>2. TypeOK'
  BY DEF IInv, TypeOK, Goto, rows
<1>3. Working'
  BY <1>1 DEF IInv, TypeOK, Working, Goto
<1>4. HeldIsIssued' /\ Reserved'
  BY <1>1 DEF IInv, HeldIsIssued, Reserved
<1>5. Spent'
  BY <1>1 DEF IInv, TypeOK, Spent, Goto, Exists, rows
<1> QED BY <1>1, <1>2, <1>3, <1>4, <1>5 DEF IInv

LEMMA AuthorizeStep == ASSUME IInv, NEW c \in Codes, Authorize(c) PROVE IInv'
<1>1. /\ Linked' /\ Rooted' /\ Chain' /\ OneSessionPerCode'
      /\ \A t : Issued(t)' <=> Issued(t)
      /\ \A t \in Tokens : Exists(t)' => login'[t] \in Codes /\ code'[login'[t]] = "consumed"
  <2>1. \A d \in Codes : code[d] = "consumed" => code'[d] = "consumed"
    BY DEF IInv, TypeOK, Authorize
  <2> QED BY <2>1, RowsKept DEF Authorize
<1>2. TypeOK'
  BY DEF IInv, TypeOK, Authorize, rows, locals
<1>3. Working' /\ HeldIsIssued' /\ Reserved'
  BY <1>1 DEF IInv, Working, HeldIsIssued, Reserved, Authorize, locals
<1>4. Spent'
  BY <1>1 DEF IInv, TypeOK, Spent, Working, Authorize, locals, Exists, rows
<1> QED BY <1>1, <1>2, <1>3, <1>4 DEF IInv

LEMMA EvictStep == ASSUME IInv, NEW t \in Tokens, Evict(t) PROVE IInv'
<1>1. /\ Linked' /\ Rooted' /\ Chain' /\ OneSessionPerCode'
      /\ \A u : Issued(u)' <=> Issued(u)
      /\ \A u \in Tokens : Exists(u)' => login'[u] \in Codes /\ code'[login'[u]] = "consumed"
  BY RowsKept DEF Evict
<1>2. TypeOK'
  BY DEF IInv, TypeOK, Evict, rows, locals
<1>3. Working' /\ HeldIsIssued' /\ Reserved'
  BY <1>1 DEF IInv, Working, HeldIsIssued, Reserved, Evict, locals
<1>4. Spent'
  BY <1>1 DEF IInv, Spent, Evict, locals, Exists, rows
<1> QED BY <1>1, <1>2, <1>3, <1>4 DEF IInv

LEMMA ConsumeStep ==
  ASSUME IInv, NEW r \in Requests, NEW c \in Codes, Consume(r, c)
  PROVE  IInv'
<1>1. /\ Linked' /\ Rooted' /\ Chain' /\ OneSessionPerCode'
      /\ \A t : Issued(t)' <=> Issued(t)
      /\ \A t \in Tokens : Exists(t)' => login'[t] \in Codes /\ code'[login'[t]] = "consumed"
  <2>1. \A d \in Codes : code[d] = "consumed" => code'[d] = "consumed"
    BY DEF IInv, TypeOK, Consume
  <2> QED BY <2>1, RowsKept DEF Consume
<1>2. TypeOK'
  BY DEF IInv, TypeOK, Consume, Goto, Steps, rows
<1>3. Working' /\ HeldIsIssued' /\ Reserved'
  BY <1>1 DEF IInv, TypeOK, Working, HeldIsIssued, Reserved, Consume, Goto
<1>4. Spent'
  <2>1. \A t \in Tokens : Exists(t) => login[t] # c
    BY DEF IInv, Spent, Consume, Redeemable
  <2>2. \A q \in Requests : pc[q] = "create" => arg[q] # c
    BY DEF IInv, Spent, Consume, Redeemable
  <2> QED
    BY <1>1, <2>1, <2>2 DEF IInv, TypeOK, Spent, Working, Consume, Goto, Exists, rows
<1> QED BY <1>1, <1>2, <1>3, <1>4 DEF IInv

LEMMA CreateFamilyStep == ASSUME IInv, NEW r \in Requests, CreateFamily(r) PROVE IInv'
<1>1. PICK n \in Tokens :
        /\ Fresh(n)
        /\ status' = [status EXCEPT ![n] = "active"]
        /\ CommitRow(n, n, 1, arg[r])
        /\ next' = [next EXCEPT ![r] = n]
  BY DEF CreateFamily
<1>2. ~Exists(n) /\ arg[r] \in Codes
  BY <1>1 DEF CreateFamily, IInv, Working, Fresh, Exists
<1>3. TypeOK'
  BY <1>1, <1>2 DEF IInv, TypeOK, CreateFamily, CommitRow, Goto, Steps, Status, Fresh
<1>4. \A t \in Tokens \ {n} :
        /\ status'[t] = status[t] /\ family'[t] = family[t]
        /\ gen'[t] = gen[t] /\ login'[t] = login[t]
  BY <1>1 DEF IInv, TypeOK, CommitRow
<1>5. status'[n] = "active" /\ family'[n] = n /\ gen'[n] = 1 /\ login'[n] = arg[r]
  BY <1>1 DEF IInv, TypeOK, CommitRow
<1>6. UNCHANGED <<replaced, code>> /\ \A s \in Tokens : replaced[s] # n
  BY <1>2 DEF IInv, Linked, TypeOK, CreateFamily
<1>7. \A t \in Tokens : Issued(t)' <=> Issued(t) \/ t = n
  BY <1>2, <1>4, <1>5, <1>6 DEF Issued, Exists
<1>8. Linked'
  <2>1. replaced[n] = None
    BY <1>2 DEF IInv, Linked, Exists, TypeOK
  <2> QED
    BY <1>2, <1>4, <1>5, <1>6, <2>1 DEF IInv, TypeOK, Linked, Exists
<1>9. Rooted'
  BY <1>2, <1>4, <1>5 DEF IInv, TypeOK, Rooted, Exists
<1>10. Chain'
  <2>1. \A t \in Tokens \ {n} : Issued(t) => family[t] # n
    BY <1>2 DEF IInv, Rooted, Issued, Exists
  <2> QED
    BY <1>4, <1>5, <1>6, <1>7, <2>1 DEF IInv, TypeOK, Chain
<1>11. Working' /\ HeldIsIssued'
  BY <1>1, <1>2, <1>7 DEF IInv, TypeOK, Working, HeldIsIssued, CreateFamily, Goto
<1>12. Reserved'
  BY <1>1 DEF IInv, TypeOK, Reserved, Fresh
<1>13. Spent'
  BY <1>2, <1>4, <1>5, <1>6 DEF IInv, TypeOK, Spent, CreateFamily, Goto, Exists
<1>14. OneSessionPerCode'
  <2>1. \A t \in Tokens \ {n} : Exists(t) => login[t] # arg[r]
    BY DEF IInv, Spent, CreateFamily
  <2> QED
    BY <1>4, <1>5, <2>1 DEF IInv, OneSessionPerCode, Exists
<1> QED
  BY <1>3, <1>8, <1>9, <1>10, <1>11, <1>12, <1>13, <1>14 DEF IInv

LEMMA InsertNextStep == ASSUME IInv, NEW r \in Requests, InsertNext(r) PROVE IInv'
<1>1. PICK n \in Tokens : Fresh(n) /\ next' = [next EXCEPT ![r] = n]
  BY DEF InsertNext
<1>2. /\ Linked' /\ Rooted' /\ Chain' /\ OneSessionPerCode'
      /\ \A t : Issued(t)' <=> Issued(t)
      /\ \A t \in Tokens : Exists(t)' => login'[t] \in Codes /\ code'[login'[t]] = "consumed"
  BY RowsKept DEF InsertNext
<1>3. TypeOK'
  BY <1>1 DEF IInv, TypeOK, InsertNext, Goto, Steps, Fresh, rows
<1>4. Working' /\ HeldIsIssued'
  BY <1>1, <1>2 DEF IInv, TypeOK, Working, HeldIsIssued, InsertNext, Goto
<1>5. Reserved'
  BY <1>1 DEF IInv, TypeOK, Reserved, Fresh
<1>6. Spent'
  BY <1>2 DEF IInv, TypeOK, Spent, InsertNext, Goto, Exists, rows
<1> QED BY <1>2, <1>3, <1>4, <1>5, <1>6 DEF IInv

\* The compare-and-swap.  Won or lost, it adds the row n to the family of t.
LEMMA SwapStep == ASSUME IInv, NEW r \in Requests, Swap(r) PROVE IInv'
<1>0. PICK t \in Tokens, n \in Tokens : t = tok[r] /\ n = next[r]
  BY DEF Swap, IInv, Working, TypeOK
<1> USE <1>0
<1>1. Issued(t) /\ Exists(t) /\ ~Exists(n) /\ n # t
  BY DEF Swap, IInv, Working, TypeOK, Issued, Exists
<1>2. CommitRow(n, family[t], gen[t] + 1, login[t])
  BY DEF Swap
<1>3. /\ \A u \in Tokens \ {n} :
           family'[u] = family[u] /\ gen'[u] = gen[u] /\ login'[u] = login[u]
      /\ family'[n] = family[t] /\ gen'[n] = gen[t] + 1 /\ login'[n] = login[t]
  BY <1>1, <1>2 DEF IInv, TypeOK, CommitRow
<1>4. /\ \A u \in Tokens \ {n, t} : status'[u] = status[u]
      /\ status'[n] = "active"
      /\ status'[t] # "none"
  BY <1>1 DEF Swap, IInv, TypeOK, Exists
<1>5. ASSUME NEW s \in Tokens PROVE replaced[s] # n
  <2>1. replaced[s] # None => status[replaced[s]] # "none"
    BY DEF IInv, Linked, Exists
  <2>2. n # None /\ status[n] = "none"
    BY <1>1 DEF Exists
  <2> QED BY <2>1, <2>2
<1>6. replaced[n] = None
  BY <1>1 DEF IInv, Linked, TypeOK, Exists
<1>7. TypeOK'
  <2>1. /\ status' \in [Tokens -> Status \cup {"none"}]
        /\ replaced' \in [Tokens -> Tokens \cup {None}]
        /\ pc' \in [Requests -> Steps]
        /\ pc'[r] # "swap"
    BY <1>1 DEF Swap, IInv, TypeOK, Goto, Steps, Status
  <2>2. /\ family' \in [Tokens -> Tokens \cup {None}]
        /\ gen' \in [Tokens -> Nat]
        /\ login' \in [Tokens -> Codes \cup {None}]
    BY <1>1, <1>2 DEF IInv, TypeOK, CommitRow
  <2>3. \A q \in Requests : pc'[q] = "swap" => next'[q] \in Tokens /\ status'[next'[q]] = "none"
    <3>1. \A q \in Requests \ {r} : pc'[q] = pc[q] /\ next'[q] = next[q]
      BY DEF Swap, IInv, TypeOK, Goto
    <3>2. \A q \in Requests \ {r} : next[q] # n
      BY <1>1 DEF IInv, Reserved
    <3> QED
      BY <1>1, <1>4, <2>1, <3>1, <3>2 DEF IInv, TypeOK, Exists
  <2> QED
    BY <2>1, <2>2, <2>3 DEF IInv, TypeOK, Swap
<1>8. Rooted'
  <2>1. family[t] \in Tokens /\ Exists(family[t]) /\ gen[t] >= 1 /\ gen[t] \in Nat
    BY <1>1 DEF IInv, Rooted, TypeOK
  <2> QED
    BY <1>1, <1>3, <1>4, <2>1 DEF IInv, TypeOK, Rooted, Exists
<1>9. HeldIsIssued' /\ Working' /\ Linked' /\ Chain'
  <2>1. CASE MayReplace(t)
    <3>1. /\ status'[t] = "rotated" /\ replaced' = [replaced EXCEPT ![t] = n]
          /\ pc' = [pc EXCEPT ![r] = "won"]
      BY <1>1, <2>1 DEF Swap, IInv, TypeOK, Goto
    <3>2. replaced[t] = None
      BY <1>1, <2>1 DEF MayReplace, IInv, Linked, TypeOK
    <3>3. \A u \in Tokens : Issued(u)' <=> Issued(u) \/ u = n
      <4>1. \A u \in Tokens \ {n} : Issued(u)' <=> Issued(u)
        BY <1>1, <1>3, <1>4, <3>1, <3>2 DEF Issued, Exists, IInv, TypeOK
      <4>2. Issued(n)'
        BY <1>1, <1>4, <3>1 DEF Issued, IInv, TypeOK
      <4> QED BY <4>1, <4>2
    <3>4. HeldIsIssued' /\ Working'
      BY <1>1, <3>1, <3>3 DEF IInv, TypeOK, HeldIsIssued, Working, Swap
    <3>5. Linked'
      BY <1>1, <1>3, <1>4, <1>5, <1>6, <3>1 DEF IInv, TypeOK, Linked, Exists
    <3>6. Chain'
      <4>1. \A u \in Tokens : Issued(u) /\ family[u] = family[t] => gen[u] <= gen[t]
        BY <1>1, <3>2 DEF IInv, TypeOK, Chain
      <4>2. ~Issued(n)
        BY <1>1 DEF Issued, Exists
      <4>3. \A u \in Tokens : replaced[u] # None => replaced'[u] # None
        BY <1>1, <3>1 DEF IInv, TypeOK
      <4>4. replaced'[t] # None
        BY <1>1, <3>1 DEF IInv, TypeOK
      <4>5. ASSUME NEW u \in Tokens, NEW v \in Tokens,
                   Issued(u)', Issued(v)', family'[u] = family'[v]
            PROVE  /\ gen'[u] = gen'[v] => u = v
                   /\ gen'[u] < gen'[v] => replaced'[u] # None
        <5>1. CASE u = n
          BY <1>1, <1>3, <3>3, <4>1, <4>5, <5>1 DEF IInv, TypeOK
        <5>2. CASE u # n /\ v = n
          <6>1. Issued(u) /\ family[u] = family[t] /\ gen'[u] = gen[u] /\ gen'[v] = gen[t] + 1
            BY <1>3, <3>3, <4>5, <5>2
          <6>2. gen[u] <= gen[t] /\ gen[u] \in Nat /\ gen[t] \in Nat
            BY <4>1, <6>1 DEF IInv, TypeOK
          <6>3. u = t \/ replaced[u] # None
            BY <1>1, <6>1, <6>2 DEF IInv, Chain
          <6> QED BY <4>3, <4>4, <6>1, <6>2, <6>3
        <5>3. CASE u # n /\ v # n
          BY <1>3, <3>3, <4>3, <4>5, <5>3 DEF IInv, Chain
        <5> QED BY <5>1, <5>2, <5>3
      <4> QED BY <4>5 DEF Chain
    <3> QED BY <3>4, <3>5, <3>6
  <2>2. CASE ~MayReplace(t)
    <3>1. status'[t] = status[t] /\ replaced' = replaced /\ pc' = [pc EXCEPT ![r] = "lost"]
      BY <1>1, <2>2 DEF Swap, IInv, TypeOK, Goto
    <3>2. \A u \in Tokens : Issued(u)' <=> Issued(u)
      <4>1. \A u \in Tokens \ {n} : Issued(u)' <=> Issued(u)
        BY <1>1, <1>3, <1>4, <3>1 DEF Issued
      <4>2. ~Issued(n)' /\ ~Issued(n)
        <5>1. family'[n] # n
          BY <1>1, <1>3 DEF IInv, Rooted
        <5> QED BY <1>1, <1>5, <3>1, <5>1 DEF Issued, Exists
      <4> QED BY <4>1, <4>2
    <3>3. HeldIsIssued' /\ Working'
      BY <1>1, <3>1, <3>2 DEF IInv, TypeOK, HeldIsIssued, Working, Swap
    <3>4. Linked'
      BY <1>1, <1>3, <1>4, <1>5, <1>6, <3>1 DEF IInv, TypeOK, Linked, Exists
    <3>5. Chain'
      <4>1. ~Issued(n)
        BY <1>1 DEF Issued, Exists
      <4> QED BY <1>3, <3>1, <3>2, <4>1 DEF IInv, Chain
    <3> QED BY <3>3, <3>4, <3>5
  <2> QED BY <2>1, <2>2
<1>10. Reserved'
  BY DEF IInv, Reserved, Swap
<1>11. Spent' /\ OneSessionPerCode'
  <2>1. \A q \in Requests : pc'[q] = "create" => pc[q] = "create" /\ arg'[q] = arg[q]
    BY DEF Swap, IInv, TypeOK, Goto
  <2>2. code' = code /\ \A u \in Tokens : Exists(u)' => Exists(u) \/ u = n
    BY <1>1, <1>4 DEF Swap, Exists
  <2>3. login[t] \in Codes /\ code[login[t]] = "consumed"
    BY <1>1 DEF IInv, Spent
  <2>4. Spent'
    BY <1>1, <1>3, <2>1, <2>2, <2>3 DEF IInv, Spent
  <2>5. OneSessionPerCode'
    BY <1>1, <1>3, <2>2 DEF IInv, OneSessionPerCode, Exists
  <2> QED BY <2>4, <2>5
<1> QED BY <1>7, <1>8, <1>9, <1>10, <1>11 DEF IInv

LEMMA RevokeRowsStep == ASSUME IInv, NEW r \in Requests, RevokeRows(r) PROVE IInv'
<1>1. /\ UNCHANGED <<family, gen, login, replaced, code, held, next, tok, arg>>
      /\ pc' = [pc EXCEPT ![r] = "purge"]
  BY DEF RevokeRows, Goto
<1>2. \A t \in Tokens :
        \/ status'[t] = status[t]
        \/ status[t] \in {"active", "rotated"} /\ status'[t] = "revoked"
  BY DEF RevokeRows, Revocable, Status
<1>3. \A t \in Tokens : (Exists(t)' <=> Exists(t)) /\ (Issued(t)' <=> Issued(t))
  BY <1>1, <1>2 DEF Exists, Issued
<1>4. TypeOK'
  <2>1. status' \in [Tokens -> Status \cup {"none"}]
    BY DEF RevokeRows, IInv, TypeOK, Status
  <2>2. purge' \in [Requests -> SUBSET Tokens] /\ snap' \in [Requests -> SUBSET Tokens]
    BY DEF RevokeRows, IInv, TypeOK
  <2>3. \A q \in Requests : pc'[q] = "swap" => next'[q] \in Tokens /\ status'[next'[q]] = "none"
    BY <1>1, <1>2 DEF IInv, TypeOK
  <2>4. pc' \in [Requests -> Steps] /\ UNCHANGED cache
    BY <1>1 DEF RevokeRows, IInv, TypeOK, Steps
  <2> QED
    BY <1>1, <2>1, <2>2, <2>3, <2>4 DEF IInv, TypeOK
<1>5. Linked'
  BY <1>1, <1>2, <1>3 DEF IInv, TypeOK, Linked
<1>6. Rooted'
  BY <1>1, <1>3 DEF IInv, Rooted
<1>7. Chain'
  BY <1>1, <1>3 DEF IInv, Chain
<1>8. Working' /\ HeldIsIssued' /\ Reserved'
  BY <1>1, <1>3 DEF IInv, TypeOK, Working, HeldIsIssued, Reserved
<1>9. Spent' /\ OneSessionPerCode'
  BY <1>1, <1>3 DEF IInv, TypeOK, Spent, OneSessionPerCode, Exists
<1> QED BY <1>4, <1>5, <1>6, <1>7, <1>8, <1>9 DEF IInv

\* The remaining steps of a request, which leave the rows and the codes alone.
LEMMA QuietStep ==
  ASSUME IInv, NEW r \in Requests,
         \/ Cache(r) \/ DropPresented(r) \/ StartUpdate(r) \/ Purge(r)
         \/ \E t \in Tokens : Rotate(r, t) \/ RevokeByRawToken(r, t)
         \/ \E u \in Users : RevokeAllSessionsForUser(r, u)
  PROVE  IInv'
<1>1. CASE Cache(r)
  <2>1. next[r] \in Tokens /\ Issued(next[r]) /\ "answer" \in Steps /\ Goto(r, "answer")
    BY <1>1 DEF Cache, IInv, Working, Steps
  <2> QED
    BY <1>1, <2>1, RequestMoves DEF Cache, IInv, TypeOK
<1>2. CASE DropPresented(r)
  <2>1. CASE pc[r] = "won"
    <3>1. next[r] \in Tokens /\ Issued(next[r]) /\ "cache" \in Steps /\ Goto(r, "cache")
      BY <1>2, <2>1 DEF DropPresented, IInv, Working, Steps
    <3> QED
      BY <1>2, <3>1, RequestMoves DEF DropPresented, Forget, IInv, TypeOK
  <2>2. CASE pc[r] = "lost"
    <3>1. "revoke" \in Steps /\ Goto(r, "revoke")
      BY <1>2, <2>2 DEF DropPresented, Steps
    <3> QED
      BY <1>2, <3>1, RequestMoves DEF DropPresented, Forget, IInv, TypeOK
  <2> QED BY <1>2, <2>1, <2>2 DEF DropPresented
<1>3. CASE StartUpdate(r)
  <2>1. "update" \in Steps /\ Goto(r, "update") /\ snap' \in [Requests -> SUBSET Tokens]
    BY <1>3 DEF StartUpdate, Steps, IInv, TypeOK
  <2> QED
    BY <1>3, <2>1, RequestMoves DEF StartUpdate, IInv, TypeOK
<1>4. CASE Purge(r)
  <2>1. CASE purge[r] = {} /\ Finish(r) /\ UNCHANGED cache
    BY <1>4, <2>1, FinishKeeps DEF Purge, IInv, TypeOK, HeldIsIssued
  <2>2. ASSUME NEW t \in purge[r], Forget(t), purge' = [purge EXCEPT ![r] = @ \ {t}],
               UNCHANGED <<pc, tok, arg, next, snap>>
        PROVE  IInv'
    <3>1. "purge" \in Steps /\ Goto(r, "purge")
      BY <1>4, <2>2 DEF Purge, Goto, Steps, IInv, TypeOK
    <3>2. purge' \in [Requests -> SUBSET Tokens] /\ cache' \subseteq Tokens
      BY <2>2 DEF Forget, IInv, TypeOK
    <3> QED
      BY <1>4, <2>2, <3>1, <3>2, RequestMoves DEF Purge, IInv, TypeOK
  <2> QED BY <1>4, <2>1, <2>2 DEF Purge
<1>5. ASSUME NEW t \in Tokens, Rotate(r, t) PROVE IInv'
  <2>1. /\ tok' \in [Requests -> Tokens \cup {None}] /\ tok'[r] = t
        /\ \A q \in Requests \ {r} : tok'[q] = tok[q]
        /\ purge' \in [Requests -> SUBSET Tokens]
        /\ Issued(t)
    BY <1>5 DEF Rotate, IInv, TypeOK, HeldIsIssued
  <2>2. "insert" \in Steps /\ "revoke" \in Steps /\ (Goto(r, "insert") \/ Goto(r, "revoke"))
    BY <1>5 DEF Rotate, Steps
  <2> QED
    BY <1>5, <2>1, <2>2, RequestMoves DEF Rotate, IInv, TypeOK
<1>6. ASSUME NEW t \in Tokens, RevokeByRawToken(r, t) PROVE IInv'
  <2>1. /\ tok' \in [Requests -> Tokens \cup {None}]
        /\ \A q \in Requests \ {r} : tok'[q] = tok[q]
        /\ purge' \in [Requests -> SUBSET Tokens]
        /\ "revoke" \in Steps /\ Goto(r, "revoke")
    BY <1>6 DEF RevokeByRawToken, IInv, TypeOK, Steps
  <2> QED
    BY <1>6, <2>1, RequestMoves DEF RevokeByRawToken, IInv, TypeOK
<1>7. ASSUME NEW u \in Users, RevokeAllSessionsForUser(r, u) PROVE IInv'
  <2>1. /\ arg' \in [Requests -> Codes \cup Users \cup {None}]
        /\ \A q \in Requests \ {r} : arg'[q] = arg[q]
        /\ "revoke" \in Steps /\ Goto(r, "revoke")
    BY <1>7 DEF RevokeAllSessionsForUser, IInv, TypeOK, Steps
  <2> QED
    BY <1>7, <2>1, RequestMoves DEF RevokeAllSessionsForUser, IInv, TypeOK
<1> QED BY <1>1, <1>2, <1>3, <1>4, <1>5, <1>6, <1>7

LEMMA EndStep == ASSUME IInv, NEW r \in Requests, Answer(r) \/ Die(r) PROVE IInv'
<1>1. CASE Answer(r)
  <2>1. next[r] \in Tokens /\ Issued(next[r])
    BY <1>1 DEF Answer, IInv, Working
  <2> QED
    BY <1>1, <2>1, FinishKeeps DEF Answer, IInv, TypeOK, HeldIsIssued
<1>2. CASE Die(r)
  BY <1>2, FinishKeeps DEF Die, IInv, TypeOK, HeldIsIssued
<1> QED BY <1>1, <1>2

LEMMA InitInv == Init => IInv
<1> SUFFICES ASSUME Init PROVE IInv
  OBVIOUS
<1>1. TypeOK
  BY DEF Init, TypeOK, Steps, Status
<1>2. Linked /\ Rooted /\ Chain /\ OneSessionPerCode
  BY DEF Init, Linked, Rooted, Chain, OneSessionPerCode, Exists, Issued
<1>3. Working /\ HeldIsIssued /\ Reserved /\ Spent
  BY DEF Init, Working, HeldIsIssued, Reserved, Spent, Exists
<1> QED BY <1>1, <1>2, <1>3 DEF IInv

LEMMA StepInv == IInv /\ [Next]_vars => IInv'
<1> SUFFICES ASSUME IInv, [Next]_vars PROVE IInv'
  OBVIOUS
<1>1. ASSUME NEW c \in Codes, Authorize(c) PROVE IInv'
  BY <1>1, AuthorizeStep
<1>2. ASSUME NEW t \in Tokens, Evict(t) PROVE IInv'
  BY <1>2, EvictStep
<1>3. ASSUME NEW r \in Requests, NEW c \in Codes, Consume(r, c) PROVE IInv'
  BY <1>3, ConsumeStep
<1>4. ASSUME NEW r \in Requests, CreateFamily(r) PROVE IInv'
  BY <1>4, CreateFamilyStep
<1>5. ASSUME NEW r \in Requests, InsertNext(r) PROVE IInv'
  BY <1>5, InsertNextStep
<1>6. ASSUME NEW r \in Requests, Swap(r) PROVE IInv'
  BY <1>6, SwapStep
<1>7. ASSUME NEW r \in Requests, RevokeRows(r) PROVE IInv'
  BY <1>7, RevokeRowsStep
<1>8. ASSUME NEW r \in Requests,
             \/ Cache(r) \/ DropPresented(r) \/ StartUpdate(r) \/ Purge(r)
             \/ \E t \in Tokens : Rotate(r, t) \/ RevokeByRawToken(r, t)
             \/ \E u \in Users : RevokeAllSessionsForUser(r, u)
      PROVE  IInv'
  BY <1>8, QuietStep
<1>9. ASSUME NEW r \in Requests, Answer(r) \/ Die(r) PROVE IInv'
  BY <1>9, EndStep
<1>10. CASE UNCHANGED vars
  <2>1. \A t : Issued(t)' <=> Issued(t)
    BY <1>10 DEF Issued, vars
  <2> QED
    BY <1>10, <2>1 DEF IInv, TypeOK, Linked, Rooted, Chain, Working, HeldIsIssued, Reserved,
                       Spent, OneSessionPerCode, Exists, vars
<1> QED
  BY <1>1, <1>2, <1>3, <1>4, <1>5, <1>6, <1>7, <1>8, <1>9, <1>10 DEF Next

LEMMA Inductive == Spec => []IInv
<1> QED BY InitInv, StepInv, PTL DEF Spec

\* The state keeps its type, and a row inserted by a rotation stays invisible
\* until the rotation commits (RefreshTokensRepository.rotate).
THEOREM SessionsTypeCorrect == Spec => []TypeOK
<1>1. IInv => TypeOK
  BY DEF IInv
<1> QED BY <1>1, Inductive, PTL

\* An authorization code starts at most one family, however many requests
\* exchange it (AuthorizationCodesRepository.consume).
THEOREM CodeStartsOneSession == Spec => []OneSessionPerCode
<1>1. IInv => OneSessionPerCode
  BY DEF IInv
<1> QED BY <1>1, Inductive, PTL

\* A family never has two tokens that work, however its uses interleave
\* (RefreshTokenService.rotate).
THEOREM FamilyHasOneLiveToken == Spec => []OneLiveToken
<1>1. IInv => OneLiveToken
  <2> SUFFICES ASSUME IInv, NEW t \in Tokens, NEW u \in Tokens,
                      Issued(t), status[t] = "active", Issued(u), status[u] = "active",
                      family[t] = family[u]
               PROVE  t = u
    BY DEF OneLiveToken
  <2>1. replaced[t] = None /\ replaced[u] = None
    BY DEF IInv, Linked
  <2>2. gen[t] \in Nat /\ gen[u] \in Nat
    BY DEF IInv, TypeOK
  <2> QED BY <2>1, <2>2 DEF IInv, Chain
<1> QED BY <1>1, Inductive, PTL

\* Once its current token is revoked, a family never works again
\* (RefreshTokensRepository.revokeFamily and revokeAllForUser against rotate).
THEOREM RevocationIsFinal == Spec => []RevokedSessionIsOver
<1>1. IInv => RevokedSessionIsOver
  <2> SUFFICES ASSUME IInv, NEW t \in Tokens, NEW u \in Tokens,
                      Issued(t), status[t] = "revoked", replaced[t] = None,
                      Issued(u), family[u] = family[t], status[u] = "active"
               PROVE  FALSE
    BY DEF RevokedSessionIsOver
  <2>1. replaced[u] = None
    BY DEF IInv, Linked
  <2>2. gen[t] \in Nat /\ gen[u] \in Nat
    BY DEF IInv, TypeOK
  <2>3. t = u
    BY <2>1, <2>2 DEF IInv, Chain
  <2> QED BY <2>3
<1> QED BY <1>1, Inductive, PTL

(***************************************************************************)
(* Every login is a chain.                                                 *)
(***************************************************************************)
\* What a request presents was issued to somebody.
Presented == \A r \in Requests : tok[r] # None => Issued(tok[r])

\* A snapshot is of committed rows, and kept until the UPDATE writes.
Snapped ==
  \A r \in Requests :
    /\ pc[r] # "update" => snap[r] = {}
    /\ \A t \in snap[r] : Exists(t)

\* The rows of a family were all issued for its login.
OneLogin == \A t \in Tokens : Exists(t) => login[family[t]] = login[t]

RInv == Presented /\ Snapped /\ OneLogin

\* A committed row stays what it is, and so does its place in a chain.
RowsStay ==
  \A t \in Tokens : Exists(t) =>
    /\ Exists(t)' /\ family'[t] = family[t] /\ login'[t] = login[t]
    /\ Issued(t)' <=> Issued(t)

\* The rows change where a code is exchanged, where a rotation commits, and
\* where an UPDATE revokes.
LEMMA WhoWrites ==
  [Next]_vars => \/ UNCHANGED rows
                 \/ \E r \in Requests : CreateFamily(r) \/ Swap(r) \/ RevokeRows(r)
BY DEF Next, vars, rows, Authorize, Evict, Consume, Cache, Answer, Rotate, RevokeByRawToken,
       InsertNext, DropPresented, RevokeAllSessionsForUser, StartUpdate, Purge, Die

LEMMA RowsStayStep ==
  ASSUME IInv, [Next]_vars
  PROVE  RowsStay /\ (OneLogin => OneLogin')
<1>1. CASE UNCHANGED rows
  BY <1>1 DEF rows, RowsStay, OneLogin, Exists, Issued
<1>2. ASSUME NEW r \in Requests, CreateFamily(r) PROVE RowsStay /\ (OneLogin => OneLogin')
  <2>1. PICK n \in Tokens :
          /\ Fresh(n)
          /\ status' = [status EXCEPT ![n] = "active"]
          /\ CommitRow(n, n, 1, arg[r])
    BY <1>2 DEF CreateFamily
  <2>2. /\ \A t \in Tokens \ {n} :
             status'[t] = status[t] /\ family'[t] = family[t] /\ login'[t] = login[t]
        /\ family'[n] = n
        /\ ~Exists(n)
    BY <2>1 DEF IInv, TypeOK, CommitRow, Fresh, Exists
  <2>3. replaced' = replaced
    BY <1>2 DEF CreateFamily
  <2>4. \A t \in Tokens \ {n} : (Exists(t)' <=> Exists(t)) /\ (Issued(t)' <=> Issued(t))
    BY <2>2, <2>3 DEF Exists, Issued
  <2>5. \A t \in Tokens : Exists(t) => family[t] \in Tokens \ {n}
    BY <2>2 DEF IInv, Rooted
  <2> QED BY <2>2, <2>4, <2>5 DEF RowsStay, OneLogin
<1>3. ASSUME NEW r \in Requests, Swap(r) PROVE RowsStay /\ (OneLogin => OneLogin')
  <2>1. PICK t \in Tokens, n \in Tokens : t = tok[r] /\ n = next[r]
    BY <1>3 DEF Swap, IInv, Working, TypeOK
  <2>2. Exists(t) /\ ~Exists(n) /\ n # t
    BY <1>3, <2>1 DEF Swap, IInv, Working, TypeOK, Issued, Exists
  <2>3. CommitRow(n, family[t], gen[t] + 1, login[t])
    BY <1>3, <2>1 DEF Swap
  <2>4. /\ \A u \in Tokens \ {n} : family'[u] = family[u] /\ login'[u] = login[u]
        /\ family'[n] = family[t] /\ login'[n] = login[t]
    BY <2>3 DEF IInv, TypeOK, CommitRow
  <2>5. \A u \in Tokens \ {n} : Exists(u)' <=> Exists(u)
    BY <1>3, <2>1, <2>2 DEF Swap, IInv, TypeOK, Exists
  <2>6. \A u \in Tokens \ {n} : Issued(u)' <=> Issued(u)
    <3>1. \A s \in Tokens, u \in Tokens \ {n} : replaced'[s] = u <=> replaced[s] = u
      <4>1. MayReplace(t) => replaced[t] = None
        BY DEF MayReplace, IInv, Linked
      <4> QED BY <1>3, <2>1, <4>1 DEF Swap, IInv, TypeOK
    <3> QED BY <2>4, <2>5, <3>1 DEF Issued, Exists
  <2>7. \A u \in Tokens : Exists(u) => family[u] \in Tokens \ {n}
    BY <2>2 DEF IInv, Rooted
  <2> QED BY <2>2, <2>4, <2>5, <2>6, <2>7 DEF RowsStay, OneLogin
<1>4. ASSUME NEW r \in Requests, RevokeRows(r) PROVE RowsStay /\ (OneLogin => OneLogin')
  <2>1. UNCHANGED <<family, login, replaced>>
    BY <1>4 DEF RevokeRows
  <2>2. \A t \in Tokens : Exists(t)' <=> Exists(t)
    BY <1>4 DEF RevokeRows, Revocable, Status, Exists
  <2> QED BY <2>1, <2>2 DEF RowsStay, OneLogin, Issued, Exists
<1> QED BY <1>1, <1>2, <1>3, <1>4, WhoWrites

\* The step of one request leaves the others where they are; those of nobody leave all.
Untouched(q) == pc'[q] = pc[q] /\ tok'[q] = tok[q] /\ arg'[q] = arg[q] /\ snap'[q] = snap[q]

\* What the step of a request does to the token it presents and to its snapshot.
LocalsMove(q) ==
  /\ tok'[q] = tok[q] \/ tok'[q] = None \/ tok'[q] \in held
  /\ \/ snap'[q] = {}
     \/ Untouched(q)
     \/ pc'[q] = "update" /\ \A t \in snap'[q] : Exists(t)

LEMMA LocalsStep ==
  ASSUME IInv, RInv, [Next]_vars, NEW q \in Requests
  PROVE  LocalsMove(q)
<1>0. pc[q] # "update" => snap[q] = {}
  BY DEF RInv, Snapped
<1>1. ASSUME NEW c \in Codes, Authorize(c) PROVE LocalsMove(q)
  BY <1>1 DEF Authorize, locals, LocalsMove, Untouched
<1>2. ASSUME NEW t \in Tokens, Evict(t) PROVE LocalsMove(q)
  BY <1>2 DEF Evict, locals, LocalsMove, Untouched
<1>3. ASSUME NEW r \in Requests, NEW c \in Codes, Consume(r, c) PROVE LocalsMove(q)
  BY <1>0, <1>3 DEF Consume, Goto, LocalsMove, Untouched, IInv, TypeOK
<1>4. ASSUME NEW r \in Requests, CreateFamily(r) \/ Cache(r) \/ InsertNext(r) PROVE LocalsMove(q)
  BY <1>0, <1>4 DEF CreateFamily, Cache, InsertNext, Goto, LocalsMove, Untouched, IInv, TypeOK
<1>5. ASSUME NEW r \in Requests, Swap(r) PROVE LocalsMove(q)
  BY <1>0, <1>5 DEF Swap, Goto, LocalsMove, Untouched, IInv, TypeOK
<1>6. ASSUME NEW r \in Requests, DropPresented(r) PROVE LocalsMove(q)
  BY <1>0, <1>6 DEF DropPresented, Goto, LocalsMove, Untouched, IInv, TypeOK
<1>7. ASSUME NEW r \in Requests, Answer(r) \/ Die(r) PROVE LocalsMove(q)
  BY <1>7 DEF Answer, Die, Finish, Goto, LocalsMove, Untouched, IInv, TypeOK
<1>8. ASSUME NEW r \in Requests, NEW t \in Tokens, Rotate(r, t) \/ RevokeByRawToken(r, t)
      PROVE  LocalsMove(q)
  BY <1>0, <1>8 DEF Rotate, RevokeByRawToken, Goto, LocalsMove, Untouched, IInv, TypeOK
<1>9. ASSUME NEW r \in Requests, NEW u \in Users, RevokeAllSessionsForUser(r, u) PROVE LocalsMove(q)
  BY <1>0, <1>9 DEF RevokeAllSessionsForUser, Goto, LocalsMove, Untouched, IInv, TypeOK
<1>10. ASSUME NEW r \in Requests, StartUpdate(r) PROVE LocalsMove(q)
  <2>1. \A t \in snap'[r] : Exists(t)
    BY <1>10 DEF StartUpdate, Revocable, Status, Exists, IInv, TypeOK
  <2> QED BY <1>10, <2>1 DEF StartUpdate, Goto, LocalsMove, Untouched, IInv, TypeOK
<1>11. ASSUME NEW r \in Requests, RevokeRows(r) PROVE LocalsMove(q)
  BY <1>11 DEF RevokeRows, Goto, LocalsMove, Untouched, IInv, TypeOK
<1>12. ASSUME NEW r \in Requests, Purge(r) PROVE LocalsMove(q)
  BY <1>12 DEF Purge, Finish, Goto, LocalsMove, Untouched, IInv, TypeOK
<1>13. CASE UNCHANGED vars
  BY <1>13 DEF vars, LocalsMove, Untouched
<1> QED
  BY <1>1, <1>2, <1>3, <1>4, <1>5, <1>6, <1>7, <1>8, <1>9, <1>10, <1>11, <1>12, <1>13 DEF Next

LEMMA InitRevocations == Init => RInv
BY DEF Init, RInv, Presented, Snapped, OneLogin, Exists

LEMMA StepRevocations == IInv /\ RInv /\ [Next]_vars => RInv'
<1> SUFFICES ASSUME IInv, RInv, [Next]_vars PROVE RInv'
  OBVIOUS
<1>1. RowsStay /\ OneLogin'
  BY RowsStayStep DEF RInv
<1>2. \A t \in Tokens : Issued(t) => Issued(t)'
  BY <1>1 DEF RowsStay, Issued, Exists
<1>3. ASSUME NEW q \in Requests, tok'[q] # None PROVE Issued(tok[q])'
  <2>1. tok'[q] = tok[q] \/ tok'[q] \in held
    BY <1>3, LocalsStep DEF LocalsMove
  <2>2. PICK t \in Tokens : t = tok'[q] /\ Issued(t)
    BY <1>3, <2>1 DEF RInv, Presented, IInv, HeldIsIssued, TypeOK
  <2>3. Issued(t)'
    BY <1>2, <2>2
  <2> QED BY <2>2, <2>3 DEF Issued
<1>4. ASSUME NEW q \in Requests
      PROVE  /\ pc'[q] # "update" => snap'[q] = {}
             /\ \A t \in snap'[q] : Exists(t)'
  <2>1. snap'[q] \subseteq Tokens
    BY StepInv DEF IInv, TypeOK
  <2>2. \A t \in snap'[q] : Exists(t)
    BY LocalsStep DEF LocalsMove, Untouched, RInv, Snapped
  <2>3. pc'[q] # "update" => snap'[q] = {}
    BY LocalsStep DEF LocalsMove, Untouched, RInv, Snapped
  <2> QED BY <1>1, <2>1, <2>2, <2>3 DEF RowsStay
<1> QED BY <1>1, <1>3, <1>4 DEF RInv, Presented, Snapped

CStep == [Chained!Next]_(Chained!vars)

\* The live token of a login is its only one.
LEMMA LiveIsOne ==
  ASSUME IInv, NEW c \in Codes, NEW t \in Live(c), NEW u \in Live(c)
  PROVE  t = u
<1>1. /\ Issued(t) /\ Issued(u) /\ status[t] = "active" /\ status[u] = "active"
      /\ login[t] = login[u] /\ t \in Tokens /\ u \in Tokens
  BY DEF Live
<1>2. family[t] = family[u]
  BY <1>1 DEF IInv, OneSessionPerCode
<1>3. replaced[t] = None /\ replaced[u] = None
  BY <1>1 DEF IInv, Linked
<1>4. gen[t] \in Nat /\ gen[u] \in Nat
  BY <1>1 DEF IInv, TypeOK
<1> QED BY <1>1, <1>2, <1>3, <1>4 DEF IInv, Chain

\* What a step leaves of a revocation whose request it does not touch.
LEMMA OtherKept ==
  ASSUME IInv, RInv, RowsStay, NEW q \in Requests, Untouched(q)
  PROVE  /\ Phase(q)' = Phase(q)
         /\ Asked(q)' = Asked(q)
         /\ Found(q)' = {t \in snap[q] : Issued(t) /\ status'[t] = "active"}
<1>1. Phase(q)' = Phase(q)
  BY DEF Phase, Untouched
<1>2. tok[q] # None => login'[tok[q]] = login[tok[q]]
  BY DEF RowsStay, RInv, Presented, Issued, Exists, IInv, TypeOK
<1>3. Scope(q)' = Scope(q)
  BY <1>2 DEF Scope, Untouched
<1>4. \A t \in snap[q] : Issued(t)' <=> Issued(t)
  BY DEF RowsStay, RInv, Snapped, IInv, TypeOK
<1> QED BY <1>1, <1>3, <1>4 DEF Asked, Found, Untouched

AtRest == Steps \ {"revoke", "update", "purge"}

\* A step that keeps the rows keeps the chains.
LEMMA ChainsKept ==
  ASSUME UNCHANGED rows
  PROVE  /\ RowsStay
         /\ \A c : Live(c)' = Live(c) /\ Used(c)' = Used(c)
         /\ \A q \in Requests : snap'[q] = snap[q] => Found(q)' = Found(q)
<1>1. \A t : Issued(t)' <=> Issued(t)
  BY DEF rows, Issued
<1>2. RowsStay
  BY <1>1 DEF rows, RowsStay, Exists
<1>3. \A c : Live(c)' = Live(c) /\ Used(c)' = Used(c)
  BY <1>1 DEF rows, Live, Used
<1>4. \A q \in Requests : snap'[q] = snap[q] => Found(q)' = Found(q)
  BY <1>1 DEF rows, Found
<1> QED BY <1>2, <1>3, <1>4

\* Neither the rows nor a revocation: the chains stutter.
LEMMA ChainStays ==
  ASSUME IInv, RInv, RInv', UNCHANGED rows,
         \A q \in Requests : Untouched(q) \/ (pc[q] \in AtRest /\ pc'[q] \in AtRest)
  PROVE  CStep
<1>1. ASSUME NEW q \in Requests
      PROVE  Phase(q)' = Phase(q) /\ Asked(q)' = Asked(q) /\ Found(q)' = Found(q)
  <2>1. CASE Untouched(q)
    BY <2>1, ChainsKept, OtherKept DEF Untouched
  <2>2. CASE pc[q] \in AtRest /\ pc'[q] \in AtRest
    <3>1. snap[q] = {} /\ snap'[q] = {}
      BY <2>2 DEF RInv, Snapped, AtRest
    <3>2. Phase(q)' = Phase(q) /\ Asked(q)' = Asked(q)
      BY <2>2 DEF AtRest, Phase, Asked
    <3> QED BY <3>1, <3>2 DEF Found
  <2> QED BY <2>1, <2>2
<1> QED BY <1>1, ChainsKept DEF CStep, Chained!vars

\* A request turns to revoking.
LEMMA AskChains ==
  ASSUME IInv, RInv, RInv', UNCHANGED rows, NEW r \in Requests,
         pc[r] \in AtRest, pc'[r] = "revoke", \A q \in Requests \ {r} : Untouched(q)
  PROVE  CStep
<1>1. ASSUME NEW q \in Requests \ {r}
      PROVE  Phase(q)' = Phase(q) /\ Asked(q)' = Asked(q) /\ Found(q)' = Found(q)
  BY ChainsKept, OtherKept DEF Untouched
<1>2. snap[r] = {} /\ snap'[r] = {}
  BY DEF RInv, Snapped, AtRest
<1>3. Found(r)' = Found(r) /\ Phase(r) = "idle" /\ Phase(r)' = "asked"
  BY <1>2 DEF Found, Phase, AtRest
<1>4. PICK logins \in SUBSET Codes : logins = Asked(r)'
  BY DEF Asked, Scope
<1>5. Chained!Ask(r, logins)
  BY <1>1, <1>3, <1>4, ChainsKept DEF Chained!Ask, Chained!chains
<1> QED BY <1>5 DEF CStep, Chained!Next

\* The snapshot of a revoking UPDATE finds the live token of every login it is about.
LEMMA LookChains ==
  ASSUME IInv, RInv, NEW r \in Requests, StartUpdate(r)
  PROVE  CStep
<1>1. /\ UNCHANGED rows /\ \A q \in Requests \ {r} : Untouched(q)
      /\ pc[r] = "revoke" /\ pc'[r] = "update"
      /\ snap'[r] = {t \in Tokens : Revocable(t) /\ InScope(r, t)}
  BY DEF StartUpdate, Goto, Untouched, IInv, TypeOK
<1>2. ASSUME NEW q \in Requests \ {r}
      PROVE  Phase(q)' = Phase(q) /\ Asked(q)' = Asked(q) /\ Found(q)' = Found(q)
  BY <1>1, ChainsKept, OtherKept DEF Untouched
<1>3. Phase(r) = "asked" /\ Phase(r)' = "found" /\ Asked(r) = Scope(r) /\ Asked(r)' = {}
  BY <1>1 DEF Phase, Asked
<1>4. \A t \in Tokens : Issued(t)' <=> Issued(t)
  BY <1>1 DEF rows, Issued
<1>5. ASSUME NEW t \in Tokens, Issued(t), status[t] = "active"
      PROVE  Revocable(t) /\ (InScope(r, t) <=> login[t] \in Scope(r))
  <2>1. Exists(t) /\ login[t] \in Codes /\ Revocable(t)
    BY <1>5 DEF Issued, Exists, IInv, Spent, Revocable, Status
  <2>2. CASE tok[r] = None
    BY <2>1, <2>2 DEF InScope, OfUser, Scope
  <2>3. CASE tok[r] # None
    <3>1. tok[r] \in Tokens /\ Exists(tok[r])
      BY <2>3 DEF RInv, Presented, Issued, Exists, IInv, TypeOK
    <3>2. family[t] = family[tok[r]] => login[t] = login[tok[r]]
      BY <2>1, <3>1 DEF RInv, OneLogin
    <3>3. login[t] = login[tok[r]] => family[t] = family[tok[r]]
      BY <2>1, <3>1 DEF IInv, OneSessionPerCode, Exists
    <3> QED BY <2>1, <2>3, <3>2, <3>3 DEF InScope, Scope
  <2> QED BY <2>1, <2>2, <2>3
<1>6. Found(r)' = {t \in Tokens : Issued(t) /\ status[t] = "active" /\ login[t] \in Scope(r)}
  BY <1>1, <1>4, <1>5 DEF Found, rows
<1>7. UNION {Live(c) : c \in Scope(r)}
        = {t \in Tokens : Issued(t) /\ status[t] = "active" /\ login[t] \in Scope(r)}
  BY DEF Live
<1>8. Scope(r) \subseteq Codes
  BY DEF Scope
<1>9. Chained!Look(r)
  <2> DEFINE live == [c \in Codes |-> Live(c)]
             asked == [q \in Requests |-> Asked(q)]
  <2>1. UNION {live[c] : c \in asked[r]} = Found(r)'
    <3>1. asked[r] = Scope(r) /\ \A c \in Scope(r) : live[c] = Live(c)
      BY <1>3, <1>8
    <3> HIDE DEF live, asked
    <3>2. \A t : t \in UNION {live[c] : c \in asked[r]} <=> t \in UNION {Live(c) : c \in Scope(r)}
      BY <3>1
    <3>3. UNION {live[c] : c \in asked[r]} = UNION {Live(c) : c \in Scope(r)}
      BY <3>2
    <3> QED BY <1>6, <1>7, <3>3
  <2>2. [q \in Requests |-> Found(q)]'
          = [[q \in Requests |-> Found(q)] EXCEPT ![r] = UNION {live[c] : c \in asked[r]}]
    BY <1>2, <2>1
  <2>3. /\ [q \in Requests |-> Phase(q)][r] = "asked"
        /\ [q \in Requests |-> Phase(q)]'
             = [[q \in Requests |-> Phase(q)] EXCEPT ![r] = "found"]
        /\ [q \in Requests |-> Asked(q)]'
             = [[q \in Requests |-> Asked(q)] EXCEPT ![r] = {}]
    BY <1>2, <1>3
  <2>4. UNCHANGED Chained!chains
    BY <1>1, ChainsKept DEF Chained!chains
  <2> QED BY <2>2, <2>3, <2>4 DEF Chained!Look
<1> QED BY <1>9 DEF CStep, Chained!Next

\* A revocation is over, or its process died.
LEMMA QuitChains ==
  ASSUME IInv, RInv, RInv', UNCHANGED rows, NEW r \in Requests,
         pc[r] \in {"revoke", "update", "purge"}, pc'[r] = "idle",
         \A q \in Requests \ {r} : Untouched(q)
  PROVE  CStep
<1>1. ASSUME NEW q \in Requests \ {r}
      PROVE  Phase(q)' = Phase(q) /\ Asked(q)' = Asked(q) /\ Found(q)' = Found(q)
  BY ChainsKept, OtherKept DEF Untouched
<1>2. snap'[r] = {}
  BY DEF RInv, Snapped
<1>3. Found(r)' = {} /\ Asked(r)' = {} /\ Phase(r) # "idle" /\ Phase(r)' = "idle"
  BY <1>2 DEF Found, Asked, Phase
<1>4. Chained!Quit(r)
  BY <1>1, <1>3, ChainsKept DEF Chained!Quit, Chained!chains
<1> QED BY <1>4 DEF CStep, Chained!Next

LEMMA InitChains == Init => Chained!Init
<1> SUFFICES ASSUME Init PROVE Chained!Init
  OBVIOUS
<1>1. \A c \in Codes : Live(c) = {} /\ Used(c) = {}
  BY DEF Init, Live, Used, Issued
<1>2. \A r \in Requests : Phase(r) = "idle" /\ Asked(r) = {} /\ Found(r) = {}
  BY DEF Init, Phase, Asked, Found
<1> QED BY <1>1, <1>2 DEF Chained!Init

\* Generation 1: nobody has exchanged the code before.
LEMMA CreateFamilyChains ==
  ASSUME IInv, RInv, RInv', RowsStay, NEW r \in Requests, CreateFamily(r)
  PROVE  CStep
<1>1. PICK n \in Tokens :
        /\ Fresh(n)
        /\ status' = [status EXCEPT ![n] = "active"]
        /\ CommitRow(n, n, 1, arg[r])
  BY DEF CreateFamily
<1>2. PICK c \in Codes : c = arg[r]
  BY DEF CreateFamily, IInv, Working
<1>3. /\ \A t \in Tokens \ {n} :
           status'[t] = status[t] /\ family'[t] = family[t] /\ login'[t] = login[t]
      /\ status'[n] = "active" /\ family'[n] = n /\ login'[n] = c
      /\ ~Exists(n)
  BY <1>1, <1>2 DEF IInv, TypeOK, CommitRow, Fresh, Exists
<1>4. replaced' = replaced /\ \A s \in Tokens : replaced[s] # n
  BY <1>3 DEF IInv, Linked, TypeOK, CreateFamily
<1>5. \A t \in Tokens : Issued(t)' <=> Issued(t) \/ t = n
  BY <1>3, <1>4 DEF Issued, Exists
<1>6. ~Issued(n) /\ \A t \in Tokens : Issued(t) => login[t] # c
  BY <1>2, <1>3 DEF IInv, Spent, CreateFamily, Issued, Exists
<1>7. Live(c) = {} /\ Used(c) = {} /\ Live(c)' = {n} /\ Used(c)' = {}
  BY <1>3, <1>5, <1>6 DEF Live, Used
<1>8. \A d \in Codes \ {c} : Live(d)' = Live(d) /\ Used(d)' = Used(d)
  BY <1>3, <1>5, <1>6 DEF Live, Used
<1>9. Chained!Unknown(n)
  BY <1>6 DEF Chained!Unknown, Live, Used
<1>10. ASSUME NEW q \in Requests
       PROVE  Phase(q)' = Phase(q) /\ Asked(q)' = Asked(q) /\ Found(q)' = Found(q)
  <2>1. CASE q = r
    <3>1. pc[r] = "create" /\ pc'[r] = "cache"
      BY DEF CreateFamily, Goto, IInv, TypeOK
    <3>2. snap[r] = {} /\ snap'[r] = {}
      BY <3>1 DEF RInv, Snapped
    <3> QED BY <2>1, <3>1, <3>2 DEF Phase, Asked, Found
  <2>2. CASE q # r
    <3>1. Untouched(q)
      BY <2>2 DEF CreateFamily, Goto, Untouched, IInv, TypeOK
    <3>2. \A t \in snap[q] : status'[t] = status[t]
      BY <1>3 DEF RInv, Snapped, IInv, TypeOK
    <3> QED BY <3>1, <3>2, OtherKept DEF Found
  <2> QED BY <2>1, <2>2
<1>11. Chained!Begin(c, n)
  BY <1>7, <1>8, <1>9, <1>10 DEF Chained!Begin, Chained!revocations
<1> QED BY <1>11 DEF CStep, Chained!Next

\* The compare-and-swap succeeds on the live token, and what loses it is no part of
\* any chain.
LEMMA SwapChains ==
  ASSUME IInv, RInv, RInv', RowsStay, NEW r \in Requests, Swap(r)
  PROVE  CStep
<1>1. PICK t \in Tokens, n \in Tokens : t = tok[r] /\ n = next[r]
  BY DEF Swap, IInv, Working, TypeOK
<1>2. Issued(t) /\ Exists(t) /\ ~Exists(n) /\ ~Issued(n) /\ n # t
  BY <1>1 DEF Swap, IInv, Working, TypeOK, Issued, Exists
<1>3. PICK c \in Codes : c = login[t]
  BY <1>2 DEF IInv, Spent
<1>4. /\ \A u \in Tokens \ {n} : family'[u] = family[u] /\ login'[u] = login[u]
      /\ family'[n] = family[t] /\ login'[n] = c
  <2>1. CommitRow(n, family[t], gen[t] + 1, login[t])
    BY <1>1 DEF Swap
  <2> QED BY <1>3, <2>1 DEF IInv, TypeOK, CommitRow
<1>5. /\ \A u \in Tokens \ {n, t} : status'[u] = status[u]
      /\ status'[n] = "active"
  BY <1>1, <1>2 DEF Swap, IInv, TypeOK
<1>6. ASSUME NEW s \in Tokens PROVE replaced[s] # n
  <2>1. replaced[s] # None => status[replaced[s]] # "none"
    BY DEF IInv, Linked, Exists
  <2>2. n # None /\ status[n] = "none"
    BY <1>2 DEF Exists
  <2> QED BY <2>1, <2>2
<1>7. family[t] # n
  BY <1>2 DEF IInv, Rooted
<1>8. ASSUME NEW q \in Requests
       PROVE  /\ Phase(q)' = Phase(q) /\ Asked(q)' = Asked(q)
              /\ Found(q)' = {u \in snap[q] : Issued(u) /\ status'[u] = "active"}
  <2>1. CASE q = r
    <3>1. pc[r] = "swap" /\ pc'[r] \in {"won", "lost"}
      BY DEF Swap, Goto, IInv, TypeOK
    <3>2. snap[r] = {} /\ snap'[r] = {}
      BY <3>1 DEF RInv, Snapped
    <3> QED BY <2>1, <3>1, <3>2 DEF Phase, Asked, Found
  <2>2. CASE q # r
    <3>1. Untouched(q)
      BY <2>2 DEF Swap, Goto, Untouched, IInv, TypeOK
    <3> QED BY <3>1, OtherKept
  <2> QED BY <2>1, <2>2
<1>9. \A q \in Requests : n \notin snap[q] /\ snap[q] \subseteq Tokens
  BY <1>2 DEF RInv, Snapped, IInv, TypeOK
<1>10. CASE MayReplace(t)
  <2>1. /\ status[t] = "active" /\ status'[t] = "rotated"
        /\ replaced' = [replaced EXCEPT ![t] = n] /\ replaced[t] = None
    BY <1>1, <1>2, <1>10 DEF MayReplace, Swap, IInv, TypeOK, Linked
  <2>2. \A u \in Tokens : Issued(u)' <=> Issued(u) \/ u = n
    <3>1. \A u \in Tokens \ {n} : Issued(u)' <=> Issued(u)
      BY <1>2, <1>4, <1>5, <2>1 DEF Issued, Exists, IInv, TypeOK
    <3>2. Issued(n)'
      BY <1>5, <2>1 DEF Issued, IInv, TypeOK
    <3> QED BY <3>1, <3>2
  <2>3. Live(c) = {t}
    <3>1. t \in Live(c)
      BY <1>2, <1>3, <2>1 DEF Live
    <3> QED BY <3>1, LiveIsOne
  <2>4. Live(c)' = {n}
    <3>1. \A u \in Tokens \ {n} : u \notin Live(c)'
      BY <1>4, <1>5, <2>1, <2>2, <2>3 DEF Live
    <3>2. n \in Live(c)'
      BY <1>4, <1>5, <2>2 DEF Live
    <3> QED BY <3>1, <3>2 DEF Live
  <2>5. Used(c)' = Used(c) \cup {t}
    <3>1. n \notin Used(c)' /\ n \notin Used(c)
      BY <1>2, <1>5 DEF Used
    <3>2. t \in Used(c)'
      BY <1>2, <1>3, <1>4, <2>1, <2>2 DEF Used
    <3>3. \A u \in Tokens \ {n, t} : u \in Used(c)' <=> u \in Used(c)
      BY <1>4, <1>5, <2>2 DEF Used
    <3> QED BY <3>1, <3>2, <3>3 DEF Used
  <2>6. \A d \in Codes \ {c} : Live(d)' = Live(d) /\ Used(d)' = Used(d)
    BY <1>2, <1>3, <1>4, <1>5, <2>2 DEF Live, Used
  <2>7. Chained!Unknown(n)
    BY <1>2 DEF Chained!Unknown, Live, Used
  <2>8. \A q \in Requests : Found(q)' = Found(q) \ {t}
    BY <1>5, <1>8, <1>9, <2>1 DEF Found
  <2>9. Chained!Rotate(c, t, n)
    BY <1>8, <2>3, <2>4, <2>5, <2>6, <2>7, <2>8 DEF Chained!Rotate
  <2> QED BY <2>9 DEF CStep, Chained!Next
<1>11. CASE ~MayReplace(t)
  <2>1. status'[t] = status[t] /\ replaced' = replaced
    BY <1>1, <1>2, <1>11 DEF Swap, IInv, TypeOK
  <2>2. \A u \in Tokens : Issued(u)' <=> Issued(u)
    <3>1. \A u \in Tokens \ {n} : Issued(u)' <=> Issued(u)
      BY <1>4, <1>5, <2>1 DEF Issued
    <3>2. ~Issued(n)'
      BY <1>4, <1>6, <1>7, <2>1 DEF Issued
    <3> QED BY <1>2, <3>1, <3>2
  <2>3. \A d : Live(d)' = Live(d) /\ Used(d)' = Used(d)
    BY <1>2, <1>4, <1>5, <2>1, <2>2 DEF Live, Used
  <2>4. \A q \in Requests : Found(q)' = Found(q)
    BY <1>5, <1>8, <1>9, <2>1 DEF Found
  <2> QED BY <1>8, <2>3, <2>4 DEF CStep, Chained!vars
<1> QED BY <1>10, <1>11

\* A revocation ends the chains whose live token it has found.
LEMMA RevokeRowsChains ==
  ASSUME IInv, RInv, RInv', RowsStay, NEW r \in Requests, RevokeRows(r)
  PROVE  CStep
<1>1. /\ UNCHANGED <<family, login, replaced>>
      /\ pc[r] = "update" /\ pc'[r] = "purge"
      /\ \A q \in Requests \ {r} : Untouched(q)
  BY DEF RevokeRows, Goto, Untouched, IInv, TypeOK
<1>2. \A t \in Tokens :
        \/ status'[t] = status[t]
        \/ status[t] \in {"active", "rotated"} /\ status'[t] = "revoked"
  BY DEF RevokeRows, Revocable, Status
<1>3. \A t \in Tokens : Issued(t)' <=> Issued(t)
  BY <1>1, <1>2 DEF Issued
<1>4. ASSUME NEW t \in Tokens, Issued(t), status[t] = "active"
      PROVE  status'[t] = "active" <=> t \notin Found(r)
  BY <1>4 DEF RevokeRows, Revocable, Status, Found
<1>5. ASSUME NEW t \in Tokens, status[t] # "active" PROVE status'[t] # "active"
  BY <1>2, <1>5
<1>6. ASSUME NEW c \in Codes
      PROVE  /\ Live(c)' = Live(c) \ Found(r)
             /\ Used(c)' = Used(c) \cup (Live(c) \cap Found(r))
  <2>1. \A t \in Tokens : t \in Live(c)' <=> t \in Live(c) \ Found(r)
    BY <1>1, <1>3, <1>4, <1>5 DEF Live
  <2>2. \A t \in Tokens : t \in Used(c)' <=> t \in Used(c) \cup (Live(c) \cap Found(r))
    BY <1>1, <1>3, <1>4, <1>5 DEF Live, Used
  <2> QED BY <2>1, <2>2 DEF Live, Used
<1>7. snap'[r] = {}
  BY <1>1 DEF RInv, Snapped
<1>8. /\ Phase(r) = "found" /\ Phase(r)' = "done"
      /\ Asked(r) = {} /\ Asked(r)' = {} /\ Found(r)' = {}
  BY <1>1, <1>7 DEF Phase, Asked, Found
<1>9. ASSUME NEW q \in Requests \ {r}
      PROVE  Phase(q)' = Phase(q) /\ Asked(q)' = Asked(q) /\ Found(q)' = Found(q) \ Found(r)
  <2>1. Found(q)' = {t \in snap[q] : Issued(t) /\ status'[t] = "active"}
    BY <1>1, OtherKept
  <2>2. snap[q] \subseteq Tokens
    BY DEF IInv, TypeOK
  <2>3. \A t \in snap[q] : t \in Found(q)' <=> t \in Found(q) \ Found(r)
    BY <1>4, <1>5, <2>1, <2>2 DEF Found
  <2>4. Found(q)' = Found(q) \ Found(r)
    BY <2>1, <2>3 DEF Found
  <2> QED BY <1>1, <2>4, OtherKept
<1>10. Chained!End(r)
  <2>1. Found(r)' = Found(r) \ Found(r)
    BY <1>8
  <2> QED BY <1>6, <1>8, <1>9, <2>1 DEF Chained!End
<1> QED BY <1>10 DEF CStep, Chained!Next

LEMMA NextChains == IInv /\ RInv /\ [Next]_vars => CStep
<1> SUFFICES ASSUME IInv, RInv, [Next]_vars PROVE CStep
  OBVIOUS
<1>0. RInv' /\ RowsStay
  BY StepRevocations, RowsStayStep
<1>1. ASSUME NEW c \in Codes, Authorize(c) PROVE CStep
  BY <1>0, <1>1, ChainStays DEF Authorize, locals, Untouched
<1>2. ASSUME NEW t \in Tokens, Evict(t) PROVE CStep
  BY <1>0, <1>2, ChainStays DEF Evict, locals, Untouched
<1>3. ASSUME NEW r \in Requests, NEW c \in Codes, Consume(r, c) PROVE CStep
  <2>1. \A q \in Requests : Untouched(q) \/ (pc[q] \in AtRest /\ pc'[q] \in AtRest)
    BY <1>3 DEF Consume, Goto, Untouched, AtRest, Steps, IInv, TypeOK
  <2> QED BY <1>0, <1>3, <2>1, ChainStays DEF Consume
<1>4. ASSUME NEW r \in Requests, Cache(r) \/ InsertNext(r) PROVE CStep
  <2>1. \A q \in Requests : Untouched(q) \/ (pc[q] \in AtRest /\ pc'[q] \in AtRest)
    BY <1>4 DEF Cache, InsertNext, Goto, Untouched, AtRest, Steps, IInv, TypeOK
  <2> QED BY <1>0, <1>4, <2>1, ChainStays DEF Cache, InsertNext
<1>5. ASSUME NEW r \in Requests, UNCHANGED rows, Finish(r) PROVE CStep
  <2>1. pc'[r] = "idle" /\ \A q \in Requests \ {r} : Untouched(q)
    BY <1>5 DEF Finish, Goto, Untouched, IInv, TypeOK
  <2>2. CASE pc[r] \in AtRest
    <3>1. "idle" \in AtRest
      BY DEF AtRest, Steps
    <3> QED BY <1>0, <1>5, <2>1, <2>2, <3>1, ChainStays
  <2>3. CASE pc[r] \notin AtRest
    <3>1. pc[r] \in {"revoke", "update", "purge"}
      BY <2>3 DEF AtRest, IInv, TypeOK
    <3> QED BY <1>0, <1>5, <2>1, <3>1, QuitChains
  <2> QED BY <2>2, <2>3
<1>6. ASSUME NEW r \in Requests, Answer(r) \/ Die(r) PROVE CStep
  BY <1>5, <1>6 DEF Answer, Die
<1>7. ASSUME NEW r \in Requests, Purge(r) PROVE CStep
  <2>1. CASE Finish(r)
    BY <1>5, <1>7, <2>1 DEF Purge
  <2>2. CASE UNCHANGED <<pc, tok, arg, next, snap>>
    <3>1. \A q \in Requests : Untouched(q)
      BY <2>2 DEF Untouched
    <3> QED BY <1>0, <1>7, <3>1, ChainStays DEF Purge
  <2> QED BY <1>7, <2>1, <2>2 DEF Purge
<1>8. ASSUME NEW r \in Requests, DropPresented(r) PROVE CStep
  <2>1. UNCHANGED rows /\ pc[r] \in AtRest /\ \A q \in Requests \ {r} : Untouched(q)
    BY <1>8 DEF DropPresented, Goto, Untouched, AtRest, Steps, IInv, TypeOK
  <2>2. pc'[r] = "revoke" \/ pc'[r] \in AtRest
    BY <1>8 DEF DropPresented, Goto, AtRest, Steps, IInv, TypeOK
  <2> QED BY <1>0, <2>1, <2>2, ChainStays, AskChains
<1>9. ASSUME NEW r \in Requests, NEW t \in Tokens, Rotate(r, t) \/ RevokeByRawToken(r, t)
      PROVE  CStep
  <2>1. UNCHANGED rows /\ pc[r] \in AtRest /\ \A q \in Requests \ {r} : Untouched(q)
    BY <1>9 DEF Rotate, RevokeByRawToken, Goto, Untouched, AtRest, Steps, IInv, TypeOK
  <2>2. pc'[r] = "revoke" \/ pc'[r] \in AtRest
    BY <1>9 DEF Rotate, RevokeByRawToken, Goto, AtRest, Steps, IInv, TypeOK
  <2> QED BY <1>0, <2>1, <2>2, ChainStays, AskChains
<1>10. ASSUME NEW r \in Requests, NEW u \in Users, RevokeAllSessionsForUser(r, u) PROVE CStep
  <2>1. /\ UNCHANGED rows /\ pc[r] \in AtRest /\ pc'[r] = "revoke"
        /\ \A q \in Requests \ {r} : Untouched(q)
    BY <1>10 DEF RevokeAllSessionsForUser, Goto, Untouched, AtRest, Steps, IInv, TypeOK
  <2> QED BY <1>0, <2>1, AskChains
<1>11. CASE UNCHANGED vars
  BY <1>0, <1>11, ChainStays DEF vars, rows, Untouched
<1>12. ASSUME NEW r \in Requests,
              CreateFamily(r) \/ Swap(r) \/ StartUpdate(r) \/ RevokeRows(r)
       PROVE  CStep
  BY <1>0, <1>12, CreateFamilyChains, SwapChains, LookChains, RevokeRowsChains
<1> QED
  BY <1>1, <1>2, <1>3, <1>4, <1>6, <1>7, <1>8, <1>9, <1>10, <1>11, <1>12 DEF Next

\* The code exchange, the rotation and the revocations implement one chain of tokens
\* per login, although lookups believe a stale cache, a revocation works on a
\* snapshot, and the loser of a rotation commits an active row.  A revocation that is
\* carried out ends every login it is about, but for those whose token a rotation
\* replaces between its snapshot and its write
\* (RefreshTokenService.rotate, RefreshTokensRepository.rotate, revokeFamily).
THEOREM LoginsAreChains == Spec => SessionsAreChains
<1>1. Init => Chained!Init /\ IInv /\ RInv
  BY InitChains, InitInv, InitRevocations
<1>2. IInv /\ RInv /\ [Next]_vars => IInv' /\ RInv' /\ [Chained!Next]_(Chained!vars)
  BY StepInv, StepRevocations, NextChains DEF CStep
<1> QED BY <1>1, <1>2, PTL DEF Spec, SessionsAreChains, Chained!Spec

================================================================================
