---------------------------- MODULE ScopesProofs ----------------------------
(***************************************************************************)
(* Proofs about Scopes, for every set of contexts, tasks, set_ calls,      *)
(* environments and argument lists, and for blocks nested to any depth.    *)
(*                                                                         *)
(* ScopesUnwind is not inductive: what __exit__ restores is in the token   *)
(* of the block, and nothing in ScopesUnwind speaks of tokens.  The        *)
(* invariant says of every open block what ScopesUnwind says of the        *)
(* context: a token holds what the blocks below it say, unless a refused   *)
(* scoped() had left its setting overridden when the block was entered.    *)
(***************************************************************************)
EXTENDS Scopes, TLAPS

(* Value v applies to setting s within the first i blocks of b, over what    *)
(* the context inherited, r: the last of them to name s says v, or none      *)
(* names it and v was inherited.                                             *)
Names(b, i, s) == s \in DOMAIN b[i].over

Says(b, r, i, s, v) ==
  \/ v = r[s] /\ \A j \in 1..i : ~Names(b, j, s)
  \/ \E j \in 1..i : /\ Names(b, j, s) /\ v = b[j].over[s]
                     /\ \A k \in 1..i : Names(b, k, s) => k <= j

Partial == UNION {[S -> Limit] : S \in SUBSET Settings}
Block == [over : Partial, tokens : Partial, lost : SUBSET Settings]

(* A call of a wrapper, as the task it submits remembers it.                 *)
Way == [kind : {"new", "done", "python", "isolated", "dylib", "wasm"},
        target : {"function", "functional", "wrapper", None},
        resolves : {"function", "wrapper", "nothing", None}]

ContextType ==
  /\ born \subseteq Contexts
  /\ ctx \in [Contexts -> [Settings -> Limit]] /\ base \in [Contexts -> [Settings -> Limit]]
  /\ lost \in [Contexts -> SUBSET Settings] /\ blocks \in [Contexts -> Seq(Block)]
  /\ \A c \in Contexts \ born : blocks[c] = <<>>

(* The variables and the tokens of a context.                                *)
VariableInv(c) ==
  \A s \in Settings \ lost[c] : Says(blocks[c], base[c], Len(blocks[c]), s, ctx[c][s])

TokenInv(c, i) ==
  LET b == blocks[c][i] IN
  /\ DOMAIN b.tokens = DOMAIN b.over
  /\ \A s \in DOMAIN b.over : s \notin b.lost => Says(blocks[c], base[c], i - 1, s, b.tokens[s])

ContextInv ==
  /\ ContextType
  /\ \A c \in Contexts : VariableInv(c)
  /\ \A c \in Contexts : \A i \in 1..Len(blocks[c]) : TokenInv(c, i)

(* A value some set_ call has finished storing is what the getters return,   *)
(* unless another call has stored a new one and not yet finished.            *)
GlobalInv ==
  /\ DOMAIN glob = Settings /\ DOMAIN gset = Settings /\ DOMAIN chosen = Settings
  /\ DOMAIN setting = SetCalls /\ DOMAIN spc = SetCalls
  /\ \A s \in Settings : chosen[s] # None =>
       /\ gset[s] = TRUE
       /\ glob[s] = chosen[s] \/ \E u \in SetCalls : spc[u] = "flag" /\ NextOf(u) = s

(* What a submitted task carries of the block it was submitted in.           *)
CarriesInv(t) ==
  Pending(t) =>
    /\ scope[t]["queue_timeout"] # None => waited[t] = scope[t]["queue_timeout"]
    /\ via[t].kind = "wasm" => \A s \in Settings : opts[t][s] = scope[t][s]

(* What it will come back with.                                              *)
ReturnsInv(t) ==
  /\ via[t].kind = "isolated" => /\ via[t].resolves # None
                                 /\ via[t].target = Target(TRUE, via[t].resolves)
  /\ via[t].kind = "done" /\ via[t].resolves # "nothing" => outcome[t] = "value"

TaskInv ==
  /\ via \in [Tasks -> Way]
  /\ DOMAIN opts = Tasks /\ DOMAIN waited = Tasks /\ DOMAIN scope = Tasks
  /\ DOMAIN outcome = Tasks
  /\ \A t \in Tasks : CarriesInv(t) /\ ReturnsInv(t)

SInv == ContextInv /\ GlobalInv /\ TaskInv
-----------------------------------------------------------------------------
(* What applies within the first i blocks depends on those blocks only.      *)
LEMMA SaysPrefix ==
  ASSUME NEW b, NEW d, NEW r, NEW i \in Nat, NEW s, NEW v,
         \A j \in 1..i : d[j] = b[j], Says(b, r, i, s, v)
  PROVE  Says(d, r, i, s, v)
<1>1. \A j \in 1..i : Names(d, j, s) <=> Names(b, j, s)
  BY SMT, Z3 DEF Names
<1> QED BY SMT, Z3, <1>1 DEF Says

(* InScope is the value that applies within all open blocks: __exit__ and    *)
(* the submissions find it in the context variable.                          *)
LEMMA SaysInScope ==
  ASSUME NEW c \in Contexts, NEW s \in Settings, NEW v, NEW S, blocks[c] \in Seq(S),
         Says(blocks[c], base[c], Len(blocks[c]), s, v)
  PROVE  v = InScope(c, s)
<1> DEFINE named == {i \in DOMAIN blocks[c] : s \in DOMAIN blocks[c][i].over}
<1>0. DOMAIN blocks[c] = 1..Len(blocks[c]) /\ Len(blocks[c]) \in Nat
  BY SMT, Z3
<1>1. \A i : i \in named <=> i \in 1..Len(blocks[c]) /\ Names(blocks[c], i, s)
  BY SMT, Z3, <1>0 DEF Names
<1>2. CASE named = {}
  <2>1. v = base[c][s]
    BY SMT, Z3, <1>1, <1>2 DEF Says
  <2> QED BY SMT, Z3, <1>2, <2>1 DEF InScope
<1>3. CASE named # {}
  <2>1. PICK j \in named : v = blocks[c][j].over[s] /\ \A k \in named : k <= j
    BY SMT, Z3, <1>1, <1>3 DEF Says
  <2> DEFINE m == CHOOSE i \in named : \A k \in named : k <= i
  <2>2. m \in named /\ \A k \in named : k <= m
    BY SMTT(30), Z3T(30), <2>1
  <2>3. m = j
    BY SMT, Z3, <1>1, <2>1, <2>2
  <2>4. InScope(c, s) = blocks[c][m].over[s]
    BY SMT, Z3, <1>3 DEF InScope
  <2> QED BY SMT, Z3, <2>1, <2>3, <2>4
<1> QED BY SMT, Z3, <1>2, <1>3

(* The context variables that no refused scoped() left overridden are what   *)
(* the open blocks say.                                                      *)
LEMMA ScopesHold == ContextInv => ScopesUnwind
<1> SUFFICES ASSUME ContextInv, NEW c \in born, NEW s \in Settings, s \notin lost[c]
             PROVE  ctx[c][s] = InScope(c, s)
  BY SMT, Z3 DEF ScopesUnwind
<1>1. c \in Contexts /\ blocks[c] \in Seq(Block)
  BY SMT, Z3 DEF ContextInv, ContextType
<1>2. Says(blocks[c], base[c], Len(blocks[c]), s, ctx[c][s])
  BY SMT, Z3, <1>1 DEF ContextInv, VariableInv
<1> QED BY ZenonT(40), <1>1, <1>2, SaysInScope
-----------------------------------------------------------------------------
(* A context whose blocks, variables and history stay keeps its part of the  *)
(* invariant.                                                                *)
LEMMA ContextFrame ==
  ASSUME NEW c \in Contexts, VariableInv(c), \A i \in 1..Len(blocks[c]) : TokenInv(c, i),
         ctx'[c] = ctx[c], lost'[c] = lost[c], blocks'[c] = blocks[c], base'[c] = base[c]
  PROVE  VariableInv(c)' /\ \A i \in 1..Len(blocks'[c]) : TokenInv(c, i)'
BY Zenon DEF VariableInv, TokenInv

(* An asyncio task or a thread starts in a context of its own: a copy, or an *)
(* empty one.                                                                *)
LEMMA NewContextKeeps ==
  ASSUME ContextInv, NEW c \in Contexts, NEW d \in Contexts, NEW copied \in BOOLEAN,
         NewContext(c, d, copied)
  PROVE  ContextInv'
<1>0. /\ ContextType /\ \A x \in Contexts : VariableInv(x)
      /\ \A x \in Contexts : \A i \in 1..Len(blocks[x]) : TokenInv(x, i)
  BY Zenon DEF ContextInv
<1>1. PICK v : v = IF copied THEN ctx[c] ELSE NoLimits
  BY Zenon
<1>2. v \in [Settings -> Limit]
  BY SMT, Z3, <1>0, <1>1 DEF ContextType, NoLimits, Limit
<1>3. /\ ctx' = [ctx EXCEPT ![d] = v] /\ base' = [base EXCEPT ![d] = v]
      /\ d \notin born /\ born' = born \cup {d} /\ blocks' = blocks
      /\ lost' = [lost EXCEPT ![d] = IF copied THEN lost[c] ELSE {}]
  BY SMT, Z3, <1>1 DEF NewContext
<1>4. ContextType'
  BY SMT, Z3, <1>0, <1>2, <1>3 DEF ContextType
<1>5. ASSUME NEW x \in Contexts, x # d
      PROVE  VariableInv(x)' /\ \A i \in 1..Len(blocks'[x]) : TokenInv(x, i)'
  <2>1. /\ ctx'[x] = ctx[x] /\ lost'[x] = lost[x] /\ blocks'[x] = blocks[x]
        /\ base'[x] = base[x]
    BY SMT, Z3, <1>0, <1>3, <1>5 DEF ContextType
  <2> QED BY Zenon, <1>0, <1>5, <2>1, ContextFrame
<1>6. VariableInv(d)' /\ \A i \in 1..Len(blocks'[d]) : TokenInv(d, i)'
  <2>1. blocks'[d] = <<>> /\ ctx'[d] = v /\ base'[d] = v
    BY SMT, Z3, <1>0, <1>3 DEF ContextType
  <2>2. Len(blocks'[d]) = 0
    BY SMT, Z3, <2>1
  <2>3. VariableInv(d)'
    BY SMT, Z3, <2>1, <2>2 DEF VariableInv, Says
  <2> QED BY SMT, Z3, <2>2, <2>3
<1> QED BY Zenon, <1>4, <1>5, <1>6 DEF ContextInv

(* scoped() is entered: a block on top of the others whose tokens hold what  *)
(* they say, or, when an argument is refused, settings left behind.          *)
LEMMA EnterKeeps ==
  ASSUME ContextInv, NEW c \in Contexts, NEW a \in Overrides, EnterScoped(c, a)
  PROVE  ContextInv'
<1>0. /\ ContextType /\ \A x \in Contexts : VariableInv(x)
      /\ \A x \in Contexts : \A i \in 1..Len(blocks[x]) : TokenInv(x, i)
      /\ a \in [Settings -> Limit] /\ c \in born
  BY Zenon, LimitsAssumption DEF ContextInv, EnterScoped
<1>1. PICK A, G : A = Accepted(a) /\ G = Given(a)
  BY Zenon
<1>2. A \subseteq G /\ G \subseteq Settings
  BY SMT, Z3, <1>1 DEF Accepted, Given
<1>3. PICK v : v = [s \in Settings |-> IF s \in A THEN a[s] ELSE ctx[c][s]]
  BY Zenon
<1>4. /\ v \in [Settings -> Limit]
      /\ \A s \in A : v[s] = a[s]
      /\ \A s \in Settings \ A : v[s] = ctx[c][s]
  BY SMT, Z3, <1>0, <1>2, <1>3 DEF ContextType
<1>5. ctx' = [ctx EXCEPT ![c] = v] /\ base' = base /\ born' = born
  BY SMT, Z3, <1>1, <1>3 DEF EnterScoped
<1>6. ctx'[c] = v /\ base'[c] = base[c] /\ lost'[c] \in SUBSET Settings
  BY SMT, Z3, <1>0, <1>1, <1>2, <1>5 DEF EnterScoped, ContextType
<1>7. ASSUME NEW x \in Contexts, x # c
      PROVE  /\ VariableInv(x)' /\ (\A i \in 1..Len(blocks'[x]) : TokenInv(x, i)')
             /\ blocks'[x] = blocks[x]
  <2>1. /\ ctx'[x] = ctx[x] /\ lost'[x] = lost[x] /\ blocks'[x] = blocks[x]
        /\ base'[x] = base[x]
    BY SMT, Z3, <1>0, <1>5, <1>7 DEF EnterScoped, ContextType
  <2> QED BY Zenon, <1>0, <1>7, <2>1, ContextFrame
<1>8. ASSUME lost' \in [Contexts -> SUBSET Settings], blocks' \in [Contexts -> Seq(Block)]
      PROVE  ContextType'
  <2>1. ctx' \in [Contexts -> [Settings -> Limit]] /\ base' \in [Contexts -> [Settings -> Limit]]
    BY SMT, Z3, <1>0, <1>4, <1>5 DEF ContextType
  <2>3. \A x \in Contexts \ born' : blocks'[x] = <<>>
    BY Zenon, <1>0, <1>5, <1>7 DEF ContextType
  <2> QED BY Zenon, <1>0, <1>5, <1>8, <2>1, <2>3 DEF ContextType
<1>9. CASE A = G
  <2>1. PICK o, k : o = [s \in G |-> a[s]] /\ k = [s \in G |-> ctx[c][s]]
    BY Zenon
  <2>2. /\ o \in Partial /\ DOMAIN o = G /\ (\A s \in G : o[s] = a[s])
        /\ k \in Partial /\ DOMAIN k = G /\ (\A s \in G : k[s] = ctx[c][s])
    BY SMT, Z3, <1>0, <1>2, <2>1 DEF ContextType, Partial
  <2>3. PICK b : b = [over |-> o, tokens |-> k, lost |-> lost[c] \cap G]
    BY Zenon
  <2>4. b \in Block /\ b.over = o /\ b.tokens = k /\ b.lost = lost[c] \cap G
    BY SMT, Z3, <1>0, <2>2, <2>3 DEF ContextType, Block
  <2>5. /\ blocks' = [blocks EXCEPT ![c] = Append(@, b)]
        /\ lost' = [lost EXCEPT ![c] = @ \ G]
    BY SMT, Z3, <1>1, <1>9, <2>1, <2>3 DEF EnterScoped
  <2>6. PICK q : q = blocks[c]
    BY Zenon
  <2>7. q \in Seq(Block) /\ Len(q) \in Nat /\ blocks'[c] = Append(q, b) /\ lost'[c] = lost[c] \ G
    BY SMT, Z3, <1>0, <2>5, <2>6 DEF ContextType
  <2>8. /\ Append(q, b) \in Seq(Block) /\ Len(Append(q, b)) = Len(q) + 1
        /\ Append(q, b)[Len(q) + 1] = b /\ \A j \in 1..Len(q) : Append(q, b)[j] = q[j]
    BY SMT, Z3, <2>4, <2>7
  <2>9. ASSUME NEW s, NEW w, NEW i \in 0..Len(q), Says(q, base[c], i, s, w)
        PROVE  Says(blocks'[c], base'[c], i, s, w)
    <3>1. i \in Nat /\ \A j \in 1..i : blocks'[c][j] = q[j]
      BY SMT, Z3, <2>7, <2>8
    <3> QED BY Zenon, <1>6, <2>9, <3>1, SaysPrefix
  <2>10. VariableInv(c)'
    <3> SUFFICES ASSUME NEW s \in Settings, s \notin lost'[c]
                 PROVE  Says(blocks'[c], base'[c], Len(q) + 1, s, v[s])
      BY Zenon, <1>6, <2>7, <2>8 DEF VariableInv
    <3>1. CASE s \in G
      <4>1. Names(blocks'[c], Len(q) + 1, s) /\ v[s] = blocks'[c][Len(q) + 1].over[s]
        BY SMT, Z3, <1>4, <1>9, <2>2, <2>4, <2>7, <2>8, <3>1 DEF Names
      <4> QED BY SMT, Z3, <2>7, <4>1 DEF Says
    <3>2. CASE s \notin G
      <4>1. Says(q, base[c], Len(q), s, ctx[c][s]) /\ v[s] = ctx[c][s]
        BY SMT, Z3, <1>0, <1>4, <1>9, <2>6, <2>7, <3>2 DEF VariableInv
      <4>2. Len(q) \in 0..Len(q)
        BY SMT, Z3, <2>7
      <4>3. Says(blocks'[c], base'[c], Len(q), s, v[s])
        BY Zenon, <2>9, <4>1, <4>2
      <4>4. ~Names(blocks'[c], Len(q) + 1, s)
        BY SMT, Z3, <2>2, <2>4, <2>7, <2>8, <3>2 DEF Names
      <4> QED BY SMT, Z3, <2>7, <4>3, <4>4 DEF Says
    <3> QED BY Zenon, <3>1, <3>2
  <2>11. ASSUME NEW i \in 1..Len(blocks'[c]) PROVE TokenInv(c, i)'
    <3>1. CASE i = Len(q) + 1
      <4>1. blocks'[c][i] = b /\ i - 1 = Len(q) /\ Len(q) \in 0..Len(q)
        BY SMT, Z3, <2>7, <2>8, <3>1
      <4>2. ASSUME NEW s \in G, s \notin b.lost PROVE Says(blocks'[c], base'[c], i - 1, s, b.tokens[s])
        <5>1. Says(q, base[c], Len(q), s, ctx[c][s]) /\ b.tokens[s] = ctx[c][s]
          BY SMT, Z3, <1>0, <1>2, <2>2, <2>4, <2>6, <4>2 DEF VariableInv
        <5> QED BY Zenon, <2>9, <4>1, <5>1
      <4> QED BY Zenon, <2>2, <2>4, <4>1, <4>2 DEF TokenInv
    <3>2. CASE i # Len(q) + 1
      <4>1. i \in 1..Len(q) /\ i - 1 \in 0..Len(q) /\ blocks'[c][i] = q[i]
        BY SMT, Z3, <2>7, <2>8, <2>11, <3>2
      <4>2. TokenInv(c, i)
        BY Zenon, <1>0, <2>6, <4>1
      <4>3. ASSUME NEW s \in DOMAIN q[i].over, s \notin q[i].lost
            PROVE  Says(blocks'[c], base'[c], i - 1, s, q[i].tokens[s])
        <5>1. Says(q, base[c], i - 1, s, q[i].tokens[s])
          BY Zenon, <2>6, <4>2, <4>3 DEF TokenInv
        <5> QED BY Zenon, <2>9, <4>1, <5>1
      <4> QED BY Zenon, <2>6, <4>1, <4>2, <4>3 DEF TokenInv
    <3> QED BY Zenon, <3>1, <3>2
  <2>12. ContextType'
    <3>1. lost' \in [Contexts -> SUBSET Settings] /\ blocks' \in [Contexts -> Seq(Block)]
      BY SMT, Z3, <1>0, <2>5, <2>6, <2>8 DEF ContextType
    <3> QED BY Zenon, <1>8, <3>1
  <2>13. \A x \in Contexts : VariableInv(x)'
    BY Zenon, <1>7, <2>10
  <2>14. \A x \in Contexts : \A i \in 1..Len(blocks'[x]) : TokenInv(x, i)'
    BY Zenon, <1>7, <2>11
  <2> QED BY Zenon, <2>12, <2>13, <2>14 DEF ContextInv
<1>10. CASE A # G
  <2>1. blocks' = blocks /\ lost' = [lost EXCEPT ![c] = @ \cup A]
    BY SMT, Z3, <1>1, <1>10 DEF EnterScoped
  <2>2. blocks'[c] = blocks[c] /\ lost'[c] = lost[c] \cup A /\ blocks[c] \in Seq(Block)
    BY SMT, Z3, <1>0, <2>1 DEF ContextType
  <2>3. VariableInv(c)'
    <3> SUFFICES ASSUME NEW s \in Settings, s \notin lost[c], s \notin A
                 PROVE  Says(blocks[c], base[c], Len(blocks[c]), s, v[s])
      BY Zenon, <1>6, <2>2 DEF VariableInv
    <3> QED BY Zenon, <1>0, <1>4 DEF VariableInv
  <2>4. \A i \in 1..Len(blocks'[c]) : TokenInv(c, i)'
    BY Zenon, <1>0, <1>6, <2>2 DEF TokenInv
  <2>5. \A x \in Contexts : VariableInv(x)' /\ \A i \in 1..Len(blocks'[x]) : TokenInv(x, i)'
    BY Zenon, <1>7, <2>3, <2>4
  <2>6. lost' \in [Contexts -> SUBSET Settings] /\ blocks' \in [Contexts -> Seq(Block)]
    BY SMT, Z3, <1>0, <1>2, <2>1 DEF ContextType
  <2> QED BY Zenon, <1>8, <2>5, <2>6 DEF ContextInv
<1> QED BY Zenon, <1>9, <1>10

(* The innermost block is left: its tokens put back what the blocks below    *)
(* say, and mark again what was left overridden when it was entered.         *)
LEMMA ExitKeeps ==
  ASSUME ContextInv, NEW c \in Contexts, ExitScoped(c)
  PROVE  ContextInv'
<1>0. /\ ContextType /\ \A x \in Contexts : VariableInv(x)
      /\ \A x \in Contexts : \A i \in 1..Len(blocks[x]) : TokenInv(x, i)
  BY Zenon DEF ContextInv
<1>1. PICK q : q = blocks[c]
  BY Zenon
<1>2. /\ q \in Seq(Block) /\ q # <<>> /\ Len(q) \in Nat /\ Len(q) # 0 /\ c \in born
      /\ ctx[c] \in [Settings -> Limit] /\ lost[c] \in SUBSET Settings
  BY SMTT(30), Z3T(30), <1>0, <1>1 DEF ExitScoped, ContextType
<1>3. PICK n \in Nat : n + 1 = Len(q)
  <2>1. Len(q) - 1 \in Nat /\ (Len(q) - 1) + 1 = Len(q)
    BY SMT, Z3, <1>2
  <2> QED BY ZenonT(40), <2>1
<1>4. PICK b : b = q[Len(q)]
  BY Zenon
<1>5. /\ b \in Block /\ b = q[n + 1] /\ b = Innermost(c) /\ TokenInv(c, n + 1)
      /\ n + 1 \in 1..Len(q)
  BY SMT, Z3, <1>0, <1>1, <1>2, <1>3, <1>4 DEF Innermost
<1>6. PICK G : G = DOMAIN b.tokens
  BY Zenon
<1>7. /\ G = DOMAIN b.over /\ G \subseteq Settings /\ b.lost \in SUBSET Settings
      /\ b.tokens \in Partial
      /\ \A s \in G : b.tokens[s] \in Limit
  BY SMT, Z3, <1>1, <1>5, <1>6 DEF TokenInv, Block, Partial
<1>8. PICK v : v = [s \in Settings |-> IF s \in G THEN b.tokens[s] ELSE ctx[c][s]]
  BY Zenon
<1>9. /\ v \in [Settings -> Limit]
      /\ \A s \in G : v[s] = b.tokens[s]
      /\ \A s \in Settings \ G : v[s] = ctx[c][s]
  BY SMT, Z3, <1>2, <1>7, <1>8
<1>10. PICK d : d = SubSeq(q, 1, n)
  BY Zenon
<1>11. d \in Seq(Block) /\ Len(d) = n /\ \A j \in 1..n : d[j] = q[j]
  BY SMT, Z3, <1>2, <1>3, <1>10
<1>12. /\ ctx' = [ctx EXCEPT ![c] = v] /\ blocks' = [blocks EXCEPT ![c] = d]
       /\ lost' = [lost EXCEPT ![c] = (@ \ G) \cup b.lost] /\ base' = base /\ born' = born
  <2>1. Len(q) - 1 = n
    BY SMT, Z3, <1>2, <1>3
  <2>2. blocks' = [blocks EXCEPT ![c] = SubSeq(@, 1, Len(@) - 1)]
    BY Zenon DEF ExitScoped
  <2>3. blocks' = [blocks EXCEPT ![c] = d]
    BY Zenon, <1>1, <1>10, <2>1, <2>2
  <2> QED BY ZenonT(40), <1>5, <1>6, <1>8, <2>3 DEF ExitScoped
<1>13. /\ ctx'[c] = v /\ blocks'[c] = d /\ lost'[c] = (lost[c] \ G) \cup b.lost
       /\ base'[c] = base[c]
  BY SMT, Z3, <1>0, <1>12 DEF ContextType
<1>14. ContextType'
  <2>1. /\ ctx' \in [Contexts -> [Settings -> Limit]] /\ base' \in [Contexts -> [Settings -> Limit]]
        /\ born' \subseteq Contexts
    BY SMT, Z3, <1>0, <1>9, <1>12 DEF ContextType
  <2>2. lost' \in [Contexts -> SUBSET Settings] /\ blocks' \in [Contexts -> Seq(Block)]
    BY SMT, Z3, <1>0, <1>7, <1>11, <1>12 DEF ContextType
  <2>3. \A x \in Contexts \ born' : blocks'[x] = <<>>
    BY SMT, Z3, <1>0, <1>2, <1>12 DEF ContextType
  <2> QED BY Zenon, <2>1, <2>2, <2>3 DEF ContextType
<1>15. ASSUME NEW x \in Contexts, x # c
       PROVE  VariableInv(x)' /\ \A i \in 1..Len(blocks'[x]) : TokenInv(x, i)'
  <2>1. /\ ctx'[x] = ctx[x] /\ lost'[x] = lost[x] /\ blocks'[x] = blocks[x]
        /\ base'[x] = base[x]
    BY SMT, Z3, <1>0, <1>12, <1>15 DEF ContextType
  <2> QED BY Zenon, <1>0, <1>15, <2>1, ContextFrame
<1>16. ASSUME NEW s, NEW w, NEW i \in 0..n, Says(q, base[c], i, s, w)
       PROVE  Says(d, base[c], i, s, w)
  <2>1. i \in Nat /\ \A j \in 1..i : d[j] = q[j]
    BY SMT, Z3, <1>11
  <2> QED BY Zenon, <1>16, <2>1, SaysPrefix
<1>17. VariableInv(c)'
  <2> SUFFICES ASSUME NEW s \in Settings, s \notin lost'[c]
               PROVE  Says(d, base[c], n, s, v[s])
    BY Zenon, <1>11, <1>13 DEF VariableInv
  <2>1. CASE s \in G
    <3>1. s \notin b.lost /\ (n + 1) - 1 = n /\ n \in 0..n
      BY SMT, Z3, <1>13
    <3>2. Says(q, base[c], n, s, b.tokens[s])
      BY Zenon, <1>1, <1>5, <1>7, <2>1, <3>1 DEF TokenInv
    <3> QED BY Zenon, <1>9, <1>16, <2>1, <3>1, <3>2
  <2>2. CASE s \notin G
    <3>1. s \notin lost[c] /\ n \in 0..n /\ ~Names(q, n + 1, s)
      BY SMT, Z3, <1>5, <1>7, <1>13, <2>2 DEF Names
    <3>2. Says(q, base[c], n + 1, s, ctx[c][s])
      BY Zenon, <1>0, <1>1, <1>3, <3>1 DEF VariableInv
    <3>3. Says(q, base[c], n, s, ctx[c][s])
      BY SMT, Z3, <3>1, <3>2 DEF Says
    <3> QED BY Zenon, <1>9, <1>16, <2>2, <3>1, <3>3
  <2> QED BY Zenon, <2>1, <2>2
<1>18. ASSUME NEW i \in 1..Len(blocks'[c]) PROVE TokenInv(c, i)'
  <2>1. i \in 1..Len(q) /\ i - 1 \in 0..n /\ d[i] = q[i]
    BY SMT, Z3, <1>3, <1>11, <1>13
  <2>2. TokenInv(c, i)
    BY Zenon, <1>0, <1>1, <2>1
  <2>3. ASSUME NEW s \in DOMAIN q[i].over, s \notin q[i].lost
        PROVE  Says(d, base[c], i - 1, s, q[i].tokens[s])
    <3>1. Says(q, base[c], i - 1, s, q[i].tokens[s])
      BY Zenon, <1>1, <2>2, <2>3 DEF TokenInv
    <3> QED BY Zenon, <1>16, <2>1, <3>1
  <2> QED BY Zenon, <1>1, <1>13, <2>1, <2>2, <2>3 DEF TokenInv
<1>19. \A x \in Contexts : VariableInv(x)' /\ \A i \in 1..Len(blocks'[x]) : TokenInv(x, i)'
  BY Zenon, <1>15, <1>17, <1>18
<1> QED BY Zenon, <1>14, <1>19 DEF ContextInv
-----------------------------------------------------------------------------
(* A set_ call stores a value; from then on its flag is due.                 *)
LEMMA SetValueKeeps ==
  ASSUME GlobalInv, NEW u \in SetCalls, SetValue(u)
  PROVE  GlobalInv'
<1>1. /\ spc[u] = "value" /\ UNCHANGED <<gset, setting, chosen>>
      /\ \/ glob' = glob /\ \E x : x # "flag" /\ spc' = [spc EXCEPT ![u] = x]
         \/ /\ \E x : glob' = [glob EXCEPT ![NextOf(u)] = x]
            /\ spc' = [spc EXCEPT ![u] = "flag"]
  BY SMT, Z3 DEF SetValue
<1>2. \A x \in SetCalls : NextOf(x)' = NextOf(x)
  BY Zenon, <1>1 DEF NextOf
<1>3. /\ DOMAIN glob' = Settings /\ DOMAIN spc' = SetCalls
      /\ \A x \in SetCalls : spc[x] = "flag" => spc'[x] = "flag"
      /\ \A s \in Settings : glob'[s] = glob[s] \/ (spc'[u] = "flag" /\ NextOf(u) = s)
  BY SMT, Z3, <1>1 DEF GlobalInv
<1>4. ASSUME NEW s \in Settings, chosen[s] # None
      PROVE  /\ gset[s] = TRUE
             /\ glob'[s] = chosen[s] \/ \E x \in SetCalls : spc'[x] = "flag" /\ NextOf(x)' = s
  BY Zenon, <1>2, <1>3, <1>4 DEF GlobalInv
<1> QED BY Zenon, <1>1, <1>3, <1>4 DEF GlobalInv

(* It marks the setting as set: the getters return what is stored.           *)
LEMMA SetFlagKeeps ==
  ASSUME GlobalInv, NEW u \in SetCalls, SetFlag(u)
  PROVE  GlobalInv'
<1>1. PICK n : n = NextOf(u)
  BY Zenon
<1>2. /\ glob' = glob /\ gset' = [gset EXCEPT ![n] = TRUE]
      /\ chosen' = [chosen EXCEPT ![n] = glob[n]]
      /\ setting' = [setting EXCEPT ![u][n] = None] /\ spc' = [spc EXCEPT ![u] = "value"]
  BY Zenon, <1>1 DEF SetFlag
<1>3. /\ DOMAIN gset' = Settings /\ DOMAIN chosen' = Settings /\ DOMAIN spc' = SetCalls
      /\ DOMAIN setting' = SetCalls /\ DOMAIN glob' = Settings
      /\ \A x \in SetCalls : x # u => spc'[x] = spc[x] /\ setting'[x] = setting[x]
      /\ \A s \in Settings : s # n => gset'[s] = gset[s] /\ chosen'[s] = chosen[s]
      /\ n \in Settings => gset'[n] = TRUE /\ chosen'[n] = glob[n]
  BY SMT, Z3, <1>2 DEF GlobalInv
<1>4. \A x \in SetCalls : x # u => NextOf(x)' = NextOf(x)
  BY Zenon, <1>3 DEF NextOf
<1>5. ASSUME NEW s \in Settings, chosen'[s] # None
      PROVE  /\ gset'[s] = TRUE
             /\ glob'[s] = chosen'[s] \/ \E x \in SetCalls : spc'[x] = "flag" /\ NextOf(x)' = s
  <2>1. CASE s = n
    BY Zenon, <1>2, <1>3, <2>1
  <2>2. CASE s # n
    <3>1. /\ chosen[s] # None /\ gset[s] = TRUE
          /\ glob[s] = chosen[s] \/ \E x \in SetCalls : spc[x] = "flag" /\ NextOf(x) = s
      BY Zenon, <1>3, <1>5, <2>2 DEF GlobalInv
    <3>2. \A x \in SetCalls : NextOf(x) = s => x # u
      BY Zenon, <1>1, <2>2
    <3>3. \A x \in SetCalls : spc[x] = "flag" /\ NextOf(x) = s => spc'[x] = "flag" /\ NextOf(x)' = s
      BY Zenon, <1>3, <1>4, <3>2
    <3>4. gset'[s] = TRUE /\ chosen'[s] = chosen[s] /\ glob'[s] = glob[s]
      BY Zenon, <1>2, <1>3, <2>2, <3>1
    <3> QED BY Zenon, <3>1, <3>3, <3>4
  <2> QED BY Zenon, <2>1, <2>2
<1> QED BY Zenon, <1>3, <1>5 DEF GlobalInv

(* A set_ call begins.                                                       *)
LEMMA SetBeginKeeps ==
  ASSUME GlobalInv, NEW u \in SetCalls, SetBegin(u)
  PROVE  GlobalInv'
<1>1. /\ spc[u] = "idle" /\ spc' = [spc EXCEPT ![u] = "value"]
      /\ (\E a : setting' = [setting EXCEPT ![u] = a]) /\ UNCHANGED <<glob, gset, chosen>>
  BY Zenon DEF SetBegin
<1>2. /\ DOMAIN spc' = SetCalls /\ DOMAIN setting' = SetCalls
      /\ \A x \in SetCalls : x # u => spc'[x] = spc[x] /\ setting'[x] = setting[x]
  BY SMT, Z3, <1>1 DEF GlobalInv
<1>3. \A x \in SetCalls : spc[x] = "flag" => spc'[x] = "flag" /\ NextOf(x)' = NextOf(x)
  <2> SUFFICES ASSUME NEW x \in SetCalls, spc[x] = "flag"
               PROVE  spc'[x] = "flag" /\ NextOf(x)' = NextOf(x)
    BY Zenon
  <2>1. x # u
    BY SMT, Z3, <1>1
  <2> QED BY Zenon, <1>2, <2>1 DEF NextOf
<1>4. ASSUME NEW s \in Settings, chosen[s] # None
      PROVE  /\ gset[s] = TRUE
             /\ glob[s] = chosen[s] \/ \E x \in SetCalls : spc'[x] = "flag" /\ NextOf(x)' = s
  <2>1. /\ gset[s] = TRUE
        /\ glob[s] = chosen[s] \/ \E x \in SetCalls : spc[x] = "flag" /\ NextOf(x) = s
    BY Zenon, <1>4 DEF GlobalInv
  <2> QED BY Zenon, <1>3, <2>1
<1> QED BY Zenon, <1>1, <1>2, <1>4 DEF GlobalInv
-----------------------------------------------------------------------------
(* A submission: the task carries what the context variables of its block    *)
(* hold, all of the limits when it is a WebAssembly task.                    *)
LEMMA SubmitKeeps ==
  ASSUME SInv, NEW c \in Contexts, NEW T \in SUBSET Tasks, NEW how \in Way,
         NEW S \in SUBSET Settings, "queue_timeout" \in S,
         Submit(c, T, how, Read(c, S)),
         how.kind = "wasm" => S = Settings, how.kind # "done",
         how.kind = "isolated" => /\ how.resolves # None
                                  /\ how.target = Target(TRUE, how.resolves)
  PROVE  TaskInv'
<1>0. ContextInv /\ TaskInv
  BY Zenon DEF SInv
<1>1. PICK o : o = Read(c, S)
  BY Zenon
<1>2. \A s \in Settings : o[s] = IF s \in S THEN ctx[c][s] ELSE None
  BY SMT, Z3, <1>1 DEF Read
<1>3. /\ via' = [t \in Tasks |-> IF t \in T THEN how ELSE via[t]]
      /\ opts' = [t \in Tasks |-> IF t \in T THEN o ELSE opts[t]]
      /\ waited' = [t \in Tasks |-> IF t \notin T THEN waited[t]
                                   ELSE IF o["queue_timeout"] # None
                                   THEN o["queue_timeout"] ELSE Get("queue_timeout")]
      /\ scope' = [t \in Tasks |-> IF t \notin T THEN scope[t]
                    ELSE [s \in Settings |-> IF s \in lost[c] THEN ctx[c][s] ELSE InScope(c, s)]]
      /\ outcome' = outcome /\ c \in born
  BY Zenon, <1>1 DEF Submit
<1>4. PICK g : g = [s \in Settings |-> IF s \in lost[c] THEN ctx[c][s] ELSE InScope(c, s)]
  BY Zenon
<1>5. \A s \in Settings : g[s] = ctx[c][s]
  <2>1. \A s \in Settings : s \notin lost[c] => ctx[c][s] = InScope(c, s)
    BY Zenon, <1>0, <1>3, ScopesHold DEF ScopesUnwind
  <2> QED BY SMT, Z3, <1>4, <2>1
<1>6. /\ DOMAIN opts' = Tasks /\ DOMAIN waited' = Tasks /\ DOMAIN scope' = Tasks
      /\ DOMAIN outcome' = Tasks /\ via' \in [Tasks -> Way]
  BY SMT, Z3, <1>0, <1>3 DEF TaskInv
<1>7. ASSUME NEW t \in T
      PROVE  /\ via'[t] = how /\ opts'[t] = o /\ scope'[t] = g
             /\ waited'[t] = IF o["queue_timeout"] # None THEN o["queue_timeout"]
                                                          ELSE Get("queue_timeout")
  BY Zenon, <1>3, <1>4, <1>7
<1>8. ASSUME NEW t \in Tasks, t \notin T
      PROVE  /\ via'[t] = via[t] /\ opts'[t] = opts[t] /\ scope'[t] = scope[t]
             /\ waited'[t] = waited[t]
  BY SMT, Z3, <1>3, <1>8
<1>9. ASSUME NEW t \in Tasks PROVE CarriesInv(t)' /\ ReturnsInv(t)'
  <2>1. CASE t \in T
    <3>1. "queue_timeout" \in Settings /\ via'[t] = how
      BY SMT, Z3, <1>7, <2>1 DEF Settings
    <3>2. scope'[t]["queue_timeout"] # None => waited'[t] = scope'[t]["queue_timeout"]
      BY SMT, Z3, <1>2, <1>5, <1>7, <2>1, <3>1
    <3>3. how.kind = "wasm" => \A s \in Settings : opts'[t][s] = scope'[t][s]
      BY SMT, Z3, <1>2, <1>5, <1>7, <2>1
    <3> QED BY Zenon, <3>1, <3>2, <3>3 DEF CarriesInv, ReturnsInv
  <2>2. CASE t \notin T
    BY ZenonT(40), <1>0, <1>3, <1>8, <2>2 DEF TaskInv, CarriesInv, ReturnsInv, Pending
  <2> QED BY Zenon, <2>1, <2>2
<1> QED BY Zenon, <1>6, <1>9 DEF TaskInv

(* A task runs: an isolated one is pickled under the target task() chose,    *)
(* which leads back to its function whenever its name leads anywhere.        *)
LEMMA RunKeeps ==
  ASSUME TaskInv, NEW t \in Tasks, Run(t)
  PROVE  TaskInv'
<1>1. PICK w : w = via[t]
  BY Zenon
<1>2. w \in Way /\ Pending(t) /\ ReturnsInv(t)
  BY Zenon, <1>1 DEF TaskInv, Run
<1>3. /\ via' = [via EXCEPT ![t].kind = "done", ![t].target = None]
      /\ opts' = [opts EXCEPT ![t] = NoLimits] /\ waited' = [waited EXCEPT ![t] = None]
      /\ scope' = [scope EXCEPT ![t] = NoLimits]
      /\ outcome' = [outcome EXCEPT ![t] =
           IF w.kind # "isolated" THEN "value"
           ELSE IF Picklable(w) THEN CalledInWorker(w.target) ELSE "unpicklable"]
  BY SMT, Z3, <1>1 DEF Run
<1>4. /\ via'[t].kind = "done" /\ via'[t].resolves = w.resolves /\ via' \in [Tasks -> Way]
      /\ \A x \in Tasks : x # t => via'[x] = via[x]
  BY ZenonT(40), <1>1, <1>2, <1>3 DEF TaskInv, Way
<1>5. /\ DOMAIN opts' = Tasks /\ DOMAIN waited' = Tasks /\ DOMAIN scope' = Tasks
      /\ DOMAIN outcome' = Tasks
      /\ \A x \in Tasks : x # t => /\ opts'[x] = opts[x] /\ waited'[x] = waited[x]
                                   /\ scope'[x] = scope[x] /\ outcome'[x] = outcome[x]
  BY SMT, Z3, <1>3 DEF TaskInv
<1>6. w.resolves # "nothing" => outcome'[t] = "value"
  <2>1. w.kind = "isolated" /\ w.resolves # "nothing" => Picklable(w)
    BY SMT, Z3, <1>1, <1>2 DEF ReturnsInv, Picklable, Target, Way
  <2> QED BY SMT, Z3, <1>3, <2>1 DEF TaskInv, CalledInWorker, PyroxideWorker
<1>7. CarriesInv(t)' /\ ReturnsInv(t)'
  BY SMT, Z3, <1>4, <1>6 DEF CarriesInv, ReturnsInv, Pending
<1>8. ASSUME NEW x \in Tasks, x # t PROVE CarriesInv(x)' /\ ReturnsInv(x)'
  <2>1. /\ via'[x] = via[x] /\ opts'[x] = opts[x] /\ waited'[x] = waited[x]
        /\ scope'[x] = scope[x] /\ outcome'[x] = outcome[x]
    BY Zenon, <1>4, <1>5, <1>8
  <2>2. CarriesInv(x) /\ ReturnsInv(x)
    BY Zenon DEF TaskInv
  <2> QED BY Zenon, <2>1, <2>2 DEF CarriesInv, ReturnsInv, Pending
<1> QED BY Zenon, <1>4, <1>5, <1>7, <1>8 DEF TaskInv
-----------------------------------------------------------------------------
(* Every wrapper and proxy submits with the variables of the calling         *)
(* context: all of the limits for WebAssembly, the queue timeout for the     *)
(* others.                                                                   *)
LEMMA CallKeeps ==
  ASSUME SInv, NEW c \in Contexts, NEW T \in SUBSET Tasks, Call(c, T)
  PROVE  TaskInv'
<1>1. /\ Kind("dylib") \in Way /\ Kind("wasm") \in Way
      /\ Kind("dylib").kind = "dylib" /\ Kind("wasm").kind = "wasm"
  BY SMT, Z3 DEF Kind, Way
<1>2. ASSUME NEW i \in BOOLEAN, NEW r \in {"function", "wrapper", "nothing"}
      PROVE  /\ PythonCall(i, r) \in Way /\ PythonCall(i, r).kind \in {"isolated", "python"}
             /\ PythonCall(i, r).kind = "isolated" =>
                  /\ PythonCall(i, r).resolves # None
                  /\ PythonCall(i, r).target = Target(TRUE, PythonCall(i, r).resolves)
  BY SMT, Z3, LimitsAssumption DEF PythonCall, Way, Target
<1>3. /\ QueueOnly \in SUBSET Settings /\ "queue_timeout" \in QueueOnly
      /\ Settings \in SUBSET Settings /\ "queue_timeout" \in Settings
  BY SMT, Z3 DEF QueueOnly, Settings
<1>4. \A t \in T : {t} \in SUBSET Tasks
  BY Zenon
<1>5. ASSUME NEW U \in SUBSET Tasks, NEW i \in BOOLEAN,
             NEW r \in {"function", "wrapper", "nothing"},
             Submit(c, U, PythonCall(i, r), Read(c, QueueOnly))
      PROVE  TaskInv'
  <2>1. PythonCall(i, r).kind # "wasm" /\ PythonCall(i, r).kind # "done"
    BY ZenonT(40), <1>2
  <2> QED BY Zenon, <1>2, <1>3, <1>5, <2>1, SubmitKeeps
<1>6. ASSUME NEW U \in SUBSET Tasks, Submit(c, U, Kind("dylib"), Read(c, QueueOnly))
      PROVE  TaskInv'
  <2>1. /\ Kind("dylib").kind # "wasm" /\ Kind("dylib").kind # "done"
        /\ Kind("dylib").kind # "isolated"
    BY SMT, Z3, <1>1
  <2> QED BY Zenon, <1>1, <1>3, <1>6, <2>1, SubmitKeeps
<1>7. ASSUME NEW U \in SUBSET Tasks, Submit(c, U, Kind("wasm"), Read(c, Settings))
      PROVE  TaskInv'
  <2>1. Kind("wasm").kind # "done" /\ Kind("wasm").kind # "isolated"
    BY SMT, Z3, <1>1
  <2> QED BY Zenon, <1>1, <1>3, <1>7, <2>1, SubmitKeeps
<1>8. ASSUME NEW i \in BOOLEAN, NEW r \in {"function", "wrapper", "nothing"},
             (\E t \in T : TaskWrapper(c, t, i, r)) \/ TaskBatch(c, T, i, r)
      PROVE  TaskInv'
  BY Zenon, <1>4, <1>5, <1>8 DEF TaskWrapper, TaskBatch
<1>9. ASSUME NEW t \in T, DylibWrapper(c, t) \/ DylibMethod(c, t) \/ WasmWrapper(c, t)
                          \/ WasmMethod(c, t)
                          \/ \E sig \in Signatures, a \in ArgLists : FfiMethod(c, t, sig, a)
      PROVE  TaskInv'
  BY Zenon, <1>4, <1>6, <1>7, <1>9
     DEF DylibWrapper, DylibMethod, WasmWrapper, WasmMethod, FfiMethod
<1>10. ASSUME DylibBatch(c, T) \/ DylibMethodBatch(c, T) \/ WasmBatch(c, T)
              \/ \E sig \in Signatures, a \in [T -> ArgLists] : FfiBatch(c, T, sig, a)
       PROVE  TaskInv'
  BY Zenon, <1>6, <1>7, <1>10 DEF DylibBatch, DylibMethodBatch, WasmBatch, FfiBatch
<1> QED BY Zenon, <1>8, <1>9, <1>10 DEF Call

(* A step that leaves the contexts, the globals or the tasks alone keeps     *)
(* their part of the invariant.                                              *)
LEMMA PartsKept ==
  /\ ContextInv /\ UNCHANGED scopes => ContextInv'
  /\ GlobalInv /\ UNCHANGED globals => GlobalInv'
  /\ TaskInv /\ UNCHANGED tasks => TaskInv'
<1>1. ASSUME ContextInv, UNCHANGED scopes PROVE ContextInv'
  BY Zenon, <1>1 DEF scopes, ContextInv, ContextType, VariableInv, TokenInv
<1>2. ASSUME GlobalInv, UNCHANGED globals PROVE GlobalInv'
  BY Zenon, <1>2 DEF globals, GlobalInv, NextOf
<1>3. ASSUME TaskInv, UNCHANGED tasks PROVE TaskInv'
  BY Zenon, <1>3 DEF tasks, TaskInv, CarriesInv, ReturnsInv, Pending
<1> QED BY Zenon, <1>1, <1>2, <1>3

(* The invariant holds when the process starts.                              *)
LEMMA InitSInv == Init => SInv
<1> SUFFICES ASSUME Init PROVE SInv
  BY SMT, Z3
<1>1. /\ NoLimits \in [Settings -> Limit] /\ DOMAIN NoLimits = Settings
      /\ \A s \in Settings : NoLimits[s] = None
  BY SMT, Z3 DEF NoLimits, Limit
<1>2. ContextType
  BY SMT, Z3, <1>1, LimitsAssumption DEF Init, ContextType
<1>3. ASSUME NEW c \in Contexts
      PROVE  Len(blocks[c]) = 0 /\ ctx[c] = NoLimits /\ base[c] = NoLimits
  BY SMT, Z3 DEF Init
<1>4. \A c \in Contexts : VariableInv(c) /\ \A i \in 1..Len(blocks[c]) : TokenInv(c, i)
  BY SMT, Z3, <1>3 DEF VariableInv, Says
<1>5. GlobalInv
  BY SMT, Z3, <1>1, LimitsAssumption DEF Init, GlobalInv
<1>6. TaskInv
  <2>1. via \in [Tasks -> Way] /\ \A t \in Tasks : via[t].kind = "new"
    BY SMT, Z3 DEF Init, Kind, Way
  <2>2. DOMAIN opts = Tasks /\ DOMAIN waited = Tasks /\ DOMAIN scope = Tasks /\ DOMAIN outcome = Tasks
    BY SMT, Z3 DEF Init
  <2> QED BY ZenonT(40), <2>1, <2>2 DEF TaskInv, CarriesInv, ReturnsInv, Pending
<1> QED BY Zenon, <1>2, <1>4, <1>5, <1>6 DEF SInv, ContextInv

(* Every step keeps it.                                                      *)
LEMMA NextSInv == SInv /\ [Next]_vars => SInv'
<1> SUFFICES ASSUME SInv, [Next]_vars PROVE SInv'
  BY SMT, Z3
<1>0. ContextInv /\ GlobalInv /\ TaskInv
  BY Zenon DEF SInv
<1>1. CASE Import
  BY Zenon, <1>0, <1>1, PartsKept DEF Import, SInv
<1>2. ASSUME NEW u \in SetCalls, SetBegin(u) \/ SetValue(u) \/ SetFlag(u) PROVE SInv'
  <2>1. UNCHANGED scopes /\ UNCHANGED tasks
    BY Zenon, <1>2 DEF SetBegin, SetValue, SetFlag
  <2> QED BY Zenon, <1>0, <1>2, <2>1, PartsKept, SetBeginKeeps, SetValueKeeps, SetFlagKeeps DEF SInv
<1>3. ASSUME NEW c \in Contexts, NEW d \in Contexts, NEW copied \in BOOLEAN,
             NewContext(c, d, copied)
      PROVE  SInv'
  BY Zenon, <1>0, <1>3, PartsKept, NewContextKeeps DEF NewContext, SInv
<1>4. ASSUME NEW c \in Contexts, NEW a \in Overrides, EnterScoped(c, a) PROVE SInv'
  BY Zenon, <1>0, <1>4, PartsKept, EnterKeeps DEF EnterScoped, SInv
<1>5. ASSUME NEW c \in Contexts, ExitScoped(c) PROVE SInv'
  BY Zenon, <1>0, <1>5, PartsKept, ExitKeeps DEF ExitScoped, SInv
<1>6. ASSUME NEW c \in Contexts, NEW T \in SUBSET Tasks, Call(c, T) PROVE SInv'
  <2>1. UNCHANGED scopes /\ UNCHANGED globals
    BY Zenon, <1>6 DEF Call, TaskWrapper, TaskBatch, DylibWrapper, DylibMethod, WasmWrapper,
       WasmMethod, FfiMethod, DylibBatch, DylibMethodBatch, WasmBatch, FfiBatch, Submit
  <2> QED BY Zenon, <1>0, <1>6, <2>1, PartsKept, CallKeeps DEF SInv
<1>7. ASSUME NEW t \in Tasks, Run(t) PROVE SInv'
  BY Zenon, <1>0, <1>7, PartsKept, RunKeeps DEF Run, SInv
<1>8. CASE UNCHANGED vars
  <2>1. UNCHANGED scopes /\ UNCHANGED globals /\ UNCHANGED tasks
    BY Zenon, <1>8 DEF vars, scopes, globals, tasks
  <2> QED BY Zenon, <1>0, <2>1, PartsKept DEF SInv
<1> QED BY Zenon, <1>1, <1>2, <1>3, <1>4, <1>5, <1>6, <1>7, <1>8 DEF Next
-----------------------------------------------------------------------------
(* The inductive invariant of config.py and of the wrappers.                 *)
THEOREM ScopesInvariant == Spec => []SInv
BY InitSInv, NextSInv, PTL DEF Spec

(* Blocks of scoped() nest and unwind in every context, at any depth and     *)
(* whatever other contexts do.                                               *)
THEOREM ScopesNest == Spec => []ScopesUnwind
<1>1. SInv => ScopesUnwind
  BY Zenon, ScopesHold DEF SInv
<1> QED BY ScopesInvariant, <1>1, PTL

(* A task runs under the limits of the block it was submitted in, and a      *)
(* limit no block names is the one the last set_ call stored.                *)
THEOREM LimitsArrive == Spec => []LimitsReachTheTask
<1>1. SInv => LimitsReachTheTask
  <2> SUFFICES ASSUME SInv, NEW t \in Tasks, Pending(t)
               PROVE  /\ scope[t]["queue_timeout"] # None => waited[t] = scope[t]["queue_timeout"]
                      /\ via[t].kind = "wasm" => \A s \in {"wasm_timeout", "wasm_memory"} :
                           /\ scope[t][s] # None => RunsWith(t, s) = scope[t][s]
                           /\ scope[t][s] = None /\ chosen[s] # None
                              /\ (\A u \in SetCalls : spc[u] # "flag") => RunsWith(t, s) = chosen[s]
    BY Zenon DEF LimitsReachTheTask
  <2>1. CarriesInv(t) /\ GlobalInv
    BY Zenon DEF SInv, TaskInv
  <2>2. ASSUME via[t].kind = "wasm", NEW s \in Settings, scope[t][s] # None
        PROVE  RunsWith(t, s) = scope[t][s]
    BY Zenon, <2>1, <2>2 DEF CarriesInv, RunsWith
  <2>3. ASSUME via[t].kind = "wasm", NEW s \in Settings, scope[t][s] = None, chosen[s] # None,
               \A u \in SetCalls : spc[u] # "flag"
        PROVE  RunsWith(t, s) = chosen[s]
    <3>1. opts[t][s] = None /\ gset[s] = TRUE /\ glob[s] = chosen[s]
      BY Zenon, <2>1, <2>3 DEF CarriesInv, GlobalInv
    <3> QED BY SMT, Z3, <3>1 DEF RunsWith, Get
  <2>4. {"wasm_timeout", "wasm_memory"} \subseteq Settings
    BY SMT, Z3 DEF Settings
  <2>5. scope[t]["queue_timeout"] # None => waited[t] = scope[t]["queue_timeout"]
    BY Zenon, <2>1 DEF CarriesInv
  <2> QED BY Zenon, <2>2, <2>3, <2>4, <2>5
<1> QED BY ScopesInvariant, <1>1, PTL

(* An isolated call whose function can be found by name comes back with the  *)
(* function's value.                                                         *)
THEOREM IsolatedReturns == Spec => []IsolatedCallReturns
<1>1. SInv => IsolatedCallReturns
  BY Zenon DEF SInv, TaskInv, ReturnsInv, IsolatedCallReturns
<1> QED BY ScopesInvariant, <1>1, PTL
=============================================================================
