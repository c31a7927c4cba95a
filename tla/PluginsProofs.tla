---------------------------- MODULE PluginsProofs ----------------------------
(***************************************************************************)
(* The invariants of Plugins, for any number of names, builds, users,      *)
(* coordinators, worker processes and tasks.                               *)
(***************************************************************************)
EXTENDS Plugins, TLAPS

Working  == {"spawn", "copy", "sync", "register", "send", "read"}
Unasked  == {"copy", "sync", "register", "send", "release"}
Leaving  == {"drop", "kill"}
Accepted == {"queued", "running"}
Maybe(S) == S \cup {None}

(* The two tables.  A call in progress for a name nobody else calls about    *)
(* has done its part of what `last` says.                                    *)
TableType ==
  /\ plugins \in [Names -> Maybe(Builds)] /\ last \in [Names -> Maybe(Builds)]
  /\ paths \in [Names -> Maybe(RegistryEntry)] /\ generation \in Nat \ {0}
  /\ raced \subseteq Names
UserType ==
  ucall \in [Users -> [at : {"idle", "path", "plugin", "load"},
                       name : Maybe(Names), build : Maybe(Builds)]]
UserInv(u) ==
  /\ ucall[u].at = "idle" => ucall[u] = Idle
  /\ ucall[u].at # "idle" => ucall[u].name \in Names
  /\ ucall[u].at \in {"path", "load"} => ucall[u].build \in Builds
GenInv(n) == paths[n] # None => paths[n].gen > 0 /\ paths[n].gen < generation

CallInv(u) ==
  LET n == ucall[u].name
      b == ucall[u].build IN
  /\ ucall[u].at = "path" => plugins[n] = b /\ last[n] = b
  /\ ucall[u].at = "load" => last[n] = b
  /\ ucall[u].at = "plugin" => paths[n] = None /\ last[n] = None
Agree(n) ==
  /\ plugins[n] = last[n]
  /\ paths[n] = None <=> last[n] = None
  /\ paths[n] # None => paths[n].build = last[n]
NameInv(n) ==
  /\ \A u, w \in Users : ucall[u].name = n /\ ucall[w].name = n => u = w
  /\ \A u \in Users : ucall[u].name = n => CallInv(u)
  /\ (\A u \in Users : ucall[u].name # n) => Agree(n)

TableInv ==
  /\ TableType /\ UserType
  /\ \A u \in Users : UserInv(u)
  /\ \A n \in Names : GenInv(n)
  /\ \A n \in Names \ raced : NameInv(n)

(* Tasks in the engine, and the registrations they may see.                  *)
TaskInv ==
  /\ tpc \in [Tasks -> {"new", "queued", "running", "done"}]
  /\ seen \in [Tasks -> SUBSET Maybe(RegistryEntry)]
  /\ \A t \in Tasks : tpc[t] \in Accepted => paths[Target[t]] \in seen[t]

(* A copy of a registration: older than the next generation, and the one in  *)
(* force if it has its generation.                                           *)
Copy(n, r) ==
  r # None => /\ r.gen < generation
              /\ paths[n] # None /\ paths[n].gen = r.gen => paths[n] = r

(* What worker processes hold is what the engine believes, unless they have  *)
(* died.                                                                     *)
ProcType ==
  /\ child \in [Procs -> {"unborn", "alive", "dead"}]
  /\ has \in [Procs -> [Names -> Maybe(RegistryEntry)]]
  /\ known \in [Procs -> [Names -> Nat]]
  /\ inn \in [Procs -> Seq(Tasks \cup {"ack"})]
  /\ out \in [Procs -> Maybe(Response)]
  /\ shm \subseteq Procs
HoldInv(p, n) ==
  /\ Copy(n, has[p][n])
  /\ has[p][n] # None => known[p][n] = has[p][n].gen

(* The stream of a process: nothing to be answered, a task not answered yet, *)
(* or its answer.                                                            *)
Quiet(p)    == inn[p] \in {<<>>, <<"ack">>} /\ out[p] = None
Asked(p, t) == inn[p] \in {<<t>>, <<"ack", t>>} /\ out[p] = None
Told(p, t)  ==
  inn[p] = <<>> /\ out[p] # None /\ out[p].task = t /\ out[p].ran \in Maybe(seen[t])

(* A coordinator: its task, its process, and what passes between them.       *)
CoordType ==
  /\ vpc \in [Coordinators -> {"idle"} \cup Working \cup {"release"} \cup Leaving]
  /\ vtask \in [Coordinators -> Maybe(Tasks)]
  /\ own \in [Coordinators -> Maybe(Procs)]
  /\ reg \in [Coordinators -> Maybe(RegistryEntry)]
CoordInv(v) ==
  LET t == vtask[v]
      p == own[v] IN
  /\ p = None <=> vpc[v] \in {"idle", "spawn"}
  /\ vpc[v] \in Working => t \in Tasks /\ tpc[t] = "running"
  /\ vpc[v] \in Unasked => Quiet(p)
  /\ vpc[v] \in Leaving => Quiet(p) \/ child[p] = "dead" \/ p \in abandoned
  /\ vpc[v] = "read" => Asked(p, t) \/ Told(p, t) \/ (Quiet(p) /\ child[p] = "dead")
  /\ vpc[v] = "kill" => p \notin shm \/ p \in abandoned
  /\ vpc[v] = "register" => reg[v] # None /\ reg[v] \in seen[t] /\ Copy(Target[t], reg[v])
  /\ vpc[v] \in {"send", "read"} => has[p][Target[t]] \in Maybe(seen[t])
Apart ==
  \A v, w \in Coordinators : v # w =>
    /\ vpc[v] \in Working /\ vpc[w] \in Working => vtask[v] # vtask[w]
    /\ own[v] = own[w] => own[v] = None

(* The owners of worker processes.                                           *)
Waits(p) == \E i \in 1..Len(pool) : pool[i] = p
PoolInv ==
  /\ pool \in Seq(Procs) /\ victims \subseteq Procs /\ shutdown \in BOOLEAN
  /\ \A i, j \in 1..Len(pool) : pool[i] = pool[j] => i = j
  /\ \A i \in 1..Len(pool) : /\ pool[i] \notin victims /\ Quiet(pool[i])
                             /\ \A v \in Coordinators : own[v] # pool[i]
  /\ \A p \in victims : Quiet(p) /\ \A v \in Coordinators : own[v] # p
OwnerInv(p) ==
  /\ child[p] = "unborn" =>
       /\ Quiet(p) /\ p \notin shm /\ ~Waits(p) /\ p \notin victims
       /\ \A v \in Coordinators : own[v] # p
  /\ child[p] = "alive" \/ p \in shm \ abandoned =>
       (\E v \in Coordinators : own[v] = p) \/ Waits(p) \/ p \in victims
DownInv ==
  shutdown => /\ pool = <<>>
              /\ \A v \in Coordinators : vpc[v] = "idle"
              /\ \A t \in Tasks : tpc[t] # "queued"

Copies == \A p \in Procs, n \in Names : HoldInv(p, n)
Coords == \A v \in Coordinators : CoordInv(v)
Owned  == \A p \in Procs : OwnerInv(p)

PInv ==
  /\ TableInv /\ TaskInv /\ ProcType /\ CoordType
  /\ Copies /\ Coords /\ Owned /\ Apart /\ PoolInv /\ DownInv
-----------------------------------------------------------------------------
(* Streams of at most two messages.                                          *)
LEMMA StreamFacts ==
  ASSUME NEW S, NEW x \in S, NEW y \in S
  PROVE  /\ Append(<<>>, x) = <<x>> /\ Append(<<x>>, y) = <<x, y>>
         /\ Tail(<<x>>) = <<>> /\ Tail(<<x, y>>) = <<y>>
         /\ Head(<<x>>) = x /\ Head(<<x, y>>) = x
         /\ <<x>> # <<>> /\ <<x, y>> # <<>>
<1>0. Append(<<>>, x) = <<x>>
  BY SMT, Z3
<1>1. Append(<<x>>, y) = <<x, y>>
  <2>1. <<x>> \in Seq(S) /\ Len(<<x>>) = 1 /\ <<x, y>> \in Seq(S)
    BY SMT, Z3
  <2>2. /\ Append(<<x>>, y) \in Seq(S) /\ Len(Append(<<x>>, y)) = 2
        /\ Append(<<x>>, y)[1] = x /\ Append(<<x>>, y)[2] = y
    BY SMT, Z3, <2>1
  <2>3. \A s \in Seq(S) : Len(s) = 2 => s = [i \in 1..2 |-> s[i]]
    BY SMT, Z3
  <2>4. /\ Append(<<x>>, y) = [i \in 1..2 |-> Append(<<x>>, y)[i]]
        /\ <<x, y>> = [i \in 1..2 |-> <<x, y>>[i]]
    BY Zenon, <2>1, <2>2, <2>3
  <2>5. \A i \in 1..2 : Append(<<x>>, y)[i] = <<x, y>>[i]
    BY SMT, Z3, <2>2
  <2> QED BY Zenon, <2>4, <2>5
<1>2. Tail(<<x>>) = <<>> /\ Tail(<<x, y>>) = <<y>>
  BY SMT, Z3
<1>3. Head(<<x>>) = x /\ Head(<<x, y>>) = x
  BY SMT, Z3
<1>4. <<x>> # <<>> /\ <<x, y>> # <<>>
  BY Zenon
<1> QED BY Zenon, <1>0, <1>1, <1>2, <1>3, <1>4

(* The first state.                                                          *)
LEMMA InitPInv == Init => PInv
<1> SUFFICES ASSUME Init PROVE PInv
  BY Zenon
<1> USE DEF Init, Maybe
<1>1. TableInv
  BY SMT, Z3, PluginsAssumption DEF TableInv, TableType, UserType, UserInv, GenInv, NameInv,
     CallInv, Agree, Idle
<1>2. TaskInv
  BY Zenon DEF TaskInv, Accepted
<1>3. ProcType
  BY SMT, Z3 DEF ProcType
<1>4. CoordType
  BY Zenon DEF CoordType
<1>5. Copies
  BY Zenon DEF Copies, HoldInv, Copy
<1>6. Coords
  BY Zenon DEF Coords, CoordInv, Working, Unasked, Leaving
<1>7. Owned
  BY SMT, Z3, PluginsAssumption DEF Owned, OwnerInv, Quiet, Waits
<1>8. Apart
  BY Zenon DEF Apart, Working
<1>9. PoolInv
  <2>1. 1..Len(pool) = {} /\ pool \in Seq(Procs)
    BY SMT, Z3
  <2> QED BY Zenon, <2>1 DEF PoolInv
<1>10. DownInv
  BY Zenon DEF DownInv
<1> QED BY Zenon, <1>1, <1>2, <1>3, <1>4, <1>5, <1>6, <1>7, <1>8, <1>9, <1>10 DEF PInv
-----------------------------------------------------------------------------
(* What a step leaves alone, part by part of the invariant.                  *)

(* The tables.                                                               *)
LEMMA TableFrame ==
  ASSUME TableInv, UNCHANGED tables
  PROVE  TableInv'
BY SMT, Z3 DEF tables, TableInv, TableType, UserType, UserInv, GenInv, NameInv, CallInv, Agree

(* The copies that processes hold.                                           *)
LEMMA CopiesFrame ==
  ASSUME Copies, UNCHANGED <<has, known, paths, generation>>
  PROVE  Copies'
BY SMT, Z3 DEF Copies, HoldInv, Copy

(* The coordinators' fields.                                                 *)
LEMMA FieldsFrame ==
  ASSUME CoordType, Apart, UNCHANGED <<vpc, vtask, own, reg>>
  PROVE  CoordType' /\ Apart'
BY SMT, Z3 DEF CoordType, Apart

(* The tasks.                                                                *)
LEMMA TaskFrame ==
  ASSUME TaskInv, UNCHANGED <<tpc, seen, paths>>
  PROVE  TaskInv'
BY SMT, Z3 DEF TaskInv

(* The owners.                                                               *)
LEMMA OwnersFrame ==
  ASSUME Owned, PoolInv, UNCHANGED <<own, abandoned, child, inn, out, shm, pool, victims, shutdown>>
  PROVE  Owned' /\ PoolInv'
<1>1. Owned'
  BY SMT, Z3 DEF Owned, OwnerInv, Quiet, Waits
<1>2. PoolInv'
  BY SMT, Z3 DEF PoolInv, Quiet
<1> QED BY Zenon, <1>1, <1>2

(* The workers of the pool and the reaper's victims.                         *)
LEMMA PoolFacts ==
  ASSUME PoolInv
  PROVE  /\ pool \in Seq(Procs) /\ Len(pool) \in Nat /\ DOMAIN pool = 1..Len(pool)
         /\ \A j, k \in 1..Len(pool) : pool[j] = pool[k] => j = k
         /\ \A j \in 1..Len(pool) : /\ pool[j] \in Procs /\ pool[j] \notin victims
                                    /\ Quiet(pool[j]) /\ \A w \in Coordinators : own[w] # pool[j]
         /\ \A q \in victims : q \in Procs /\ Quiet(q) /\ \A w \in Coordinators : own[w] # q
         /\ victims \subseteq Procs /\ shutdown \in BOOLEAN
<1>1. /\ pool \in Seq(Procs) /\ Len(pool) \in Nat /\ DOMAIN pool = 1..Len(pool)
      /\ \A j \in 1..Len(pool) : pool[j] \in Procs
  BY SMT, Z3 DEF PoolInv
<1> QED BY Zenon, <1>1 DEF PoolInv

(* The pool and the victims stay what they are when they stay quiet and no   *)
(* coordinator takes one.                                                    *)
LEMMA PoolFrame ==
  ASSUME PoolInv, UNCHANGED <<pool, victims, shutdown>>,
         \A q \in Procs : /\ Waits(q) \/ q \in victims
                          /\ Quiet(q) /\ \A w \in Coordinators : own[w] # q
                          => Quiet(q)' /\ \A w \in Coordinators : own'[w] # q
  PROVE  PoolInv'
<1>1. ASSUME NEW q \in Procs, Waits(q) \/ q \in victims
      PROVE  Quiet(q)' /\ \A w \in Coordinators : own'[w] # q
  <2>1. Quiet(q) /\ \A w \in Coordinators : own[w] # q
    BY Zenon, <1>1, PoolFacts DEF Waits
  <2> QED BY Zenon, <1>1, <2>1
<1>2. ASSUME NEW j \in 1..Len(pool)
      PROVE  /\ pool[j] \notin victims
             /\ Quiet(pool[j])' /\ \A w \in Coordinators : own'[w] # pool[j]
  <2>1. pool[j] \in Procs /\ Waits(pool[j]) /\ pool[j] \notin victims
    BY Zenon, PoolFacts DEF Waits
  <2>2. PICK q \in Procs : q = pool[j]
    BY Zenon, <2>1
  <2>3. Quiet(q)' /\ \A w \in Coordinators : own'[w] # q
    BY Zenon, <1>1, <2>1, <2>2
  <2> QED BY Zenon, <2>1, <2>2, <2>3 DEF Quiet
<1>3. \A q \in victims : Quiet(q)' /\ \A w \in Coordinators : own'[w] # q
  BY Zenon, <1>1, PoolFacts
<1>4. /\ pool' \in Seq(Procs) /\ victims' \subseteq Procs /\ shutdown' \in BOOLEAN
      /\ \A i, j \in 1..Len(pool') : pool'[i] = pool'[j] => i = j
  BY Zenon DEF PoolInv
<1>5. \A j \in 1..Len(pool') : /\ pool'[j] \notin victims' /\ Quiet(pool[j])'
                               /\ \A w \in Coordinators : own'[w] # pool'[j]
  BY Zenon, <1>2
<1>6. \A q \in victims' : Quiet(q)' /\ \A w \in Coordinators : own'[w] # q
  BY Zenon, <1>3
<1> QED BY Zenon, <1>4, <1>5, <1>6 DEF PoolInv
-----------------------------------------------------------------------------
(* A registration call changes a path only to None or to a new generation,   *)
(* and tasks in the engine see more: nothing else of the invariant depends   *)
(* on the tables.                                                            *)
PathsMove ==
  /\ generation' >= generation
  /\ \A n \in Names : paths'[n] \in {paths[n], None} \/ paths'[n].gen = generation
SeenGrows == \A t \in Tasks : seen[t] \subseteq seen'[t]

(* The copies in worker processes stay copies.                               *)
LEMMA CopyKept ==
  ASSUME TableType, PathsMove, NEW n \in Names, NEW r \in Maybe(RegistryEntry),
         Copy(n, r), generation' \in Nat
  PROVE  Copy(n, r)'
BY SMT, Z3 DEF Copy, PathsMove, Maybe, RegistryEntry, TableType

(* A step of a user leaves coordinators, processes and the pool alone.       *)
LEMMA UserKeeps ==
  ASSUME PInv, TableInv', TaskInv', PathsMove, SeenGrows,
         UNCHANGED <<coords, procs, idlers, tpc>>
  PROVE  PInv'
<1> USE DEF coords, procs, idlers
<1>0. /\ TableType /\ ProcType /\ CoordType /\ Coords /\ TaskInv /\ Copies
      /\ generation' \in Nat
  BY Zenon DEF PInv, TableInv, TableType
<1>1. \A n \in Names, r \in Maybe(RegistryEntry) : Copy(n, r) => Copy(n, r)'
  BY Zenon, <1>0, CopyKept
<1>2. Copies'
  <2> SUFFICES ASSUME NEW p \in Procs, NEW n \in Names PROVE HoldInv(p, n)'
    BY Zenon DEF Copies
  <2>1. HoldInv(p, n) /\ has[p][n] \in Maybe(RegistryEntry)
    BY Zenon, <1>0 DEF Copies, ProcType
  <2> QED BY Zenon, <1>1, <2>1 DEF HoldInv
<1>3. Coords'
  <2> SUFFICES ASSUME NEW v \in Coordinators PROVE CoordInv(v)'
    BY Zenon DEF Coords
  <2>1. CoordInv(v) /\ reg[v] \in Maybe(RegistryEntry)
    BY Zenon, <1>0 DEF Coords, CoordType
  <2>2. vpc[v] \in Working => vtask[v] \in Tasks /\ seen[vtask[v]] \subseteq seen'[vtask[v]]
    BY Zenon, <2>1 DEF CoordInv, SeenGrows
  <2>3. /\ (own[v] = None <=> vpc[v] \in {"idle", "spawn"})'
        /\ (vpc[v] \in Working => vtask[v] \in Tasks /\ tpc[vtask[v]] = "running")'
        /\ (vpc[v] \in Unasked => Quiet(own[v]))'
        /\ (vpc[v] \in Leaving => Quiet(own[v]) \/ child[own[v]] = "dead" \/ own[v] \in abandoned)'
        /\ (vpc[v] = "kill" => own[v] \notin shm \/ own[v] \in abandoned)'
    BY Zenon, <2>1 DEF CoordInv, Quiet
  <2>4. (vpc[v] = "read" => \/ Asked(own[v], vtask[v]) \/ Told(own[v], vtask[v])
                            \/ Quiet(own[v]) /\ child[own[v]] = "dead")'
    BY Zenon, <2>1, <2>2 DEF CoordInv, Quiet, Asked, Told, Working, Maybe
  <2>5. (vpc[v] = "register" => /\ reg[v] # None /\ reg[v] \in seen[vtask[v]]
                                /\ Copy(Target[vtask[v]], reg[v]))'
    <3> SUFFICES ASSUME vpc[v] = "register"
                 PROVE  reg[v] # None /\ reg[v] \in seen'[vtask[v]]
                        /\ Copy(Target[vtask[v]], reg[v])'
      BY Zenon
    <3>1. /\ reg[v] # None /\ reg[v] \in seen[vtask[v]] /\ vtask[v] \in Tasks
          /\ Copy(Target[vtask[v]], reg[v])
      BY Zenon, <2>1 DEF CoordInv, Working
    <3>2. Target[vtask[v]] \in Names
      BY Zenon, <3>1, PluginsAssumption
    <3> QED BY Zenon, <1>1, <2>1, <2>2, <3>1, <3>2 DEF Working
  <2>6. (vpc[v] \in {"send", "read"} => has[own[v]][Target[vtask[v]]] \in Maybe(seen[vtask[v]]))'
    BY Zenon, <2>1, <2>2 DEF CoordInv, Maybe, Working
  <2> QED BY Zenon, <2>3, <2>4, <2>5, <2>6 DEF CoordInv
<1>4. Owned'
  BY Zenon DEF PInv, Owned, OwnerInv, Quiet, Waits
<1>5. Apart' /\ DownInv' /\ ProcType' /\ CoordType'
  BY Zenon DEF PInv, Apart, DownInv, ProcType, CoordType
<1>6. PoolInv'
  BY ZenonT(40) DEF PInv, PoolInv, Quiet
<1> QED BY Zenon, <1>2, <1>3, <1>4, <1>5, <1>6 DEF PInv

(* Nothing changes about a name that no call starts, continues or ends for.  *)
LEMMA NameFrame ==
  ASSUME NEW m \in Names, NameInv(m),
         plugins'[m] = plugins[m], paths'[m] = paths[m], last'[m] = last[m],
         \A w \in Users : ucall'[w] = ucall[w] \/ (ucall'[w].name # m /\ ucall[w].name # m)
  PROVE  NameInv(m)'
<1>1. \A w \in Users : (ucall'[w].name = m) => ucall'[w] = ucall[w]
  BY Zenon
<1>2. \A w \in Users : ucall'[w].name = m => CallInv(w)'
  BY SMT, Z3, <1>1 DEF NameInv, CallInv
<1>3. (\A w \in Users : ucall'[w].name # m) => Agree(m)'
  BY Zenon DEF NameInv, Agree
<1> QED BY Zenon, <1>1, <1>2, <1>3 DEF NameInv

(* The path table changes: tasks in the engine see the new entry.            *)
LEMMA SetPathFacts ==
  ASSUME TableType, TaskInv, NEW n \in Names, NEW r \in Maybe(RegistryEntry),
         SetPath(n, r), UNCHANGED tpc
  PROVE  TaskInv' /\ SeenGrows /\ paths' \in [Names -> Maybe(RegistryEntry)]
<1>1. paths' = [paths EXCEPT ![n] = r] /\ paths' \in [Names -> Maybe(RegistryEntry)]
  BY Zenon DEF SetPath, TableType
<1>2. seen' \in [Tasks -> SUBSET Maybe(RegistryEntry)]
  BY Zenon DEF SetPath, TaskInv
<1>3. \A t \in Tasks : tpc[t] \in Accepted => paths'[Target[t]] \in seen'[t]
  <2> SUFFICES ASSUME NEW t \in Tasks, tpc[t] \in Accepted
               PROVE  paths'[Target[t]] \in seen'[t]
    BY Zenon
  <2>1. Target[t] \in Names /\ paths[Target[t]] \in seen[t]
    BY Zenon, PluginsAssumption DEF TaskInv
  <2>2. CASE Target[t] = n
    BY Zenon, <1>1, <2>2 DEF SetPath, Accepted, TableType
  <2>3. CASE Target[t] # n
    BY Zenon, <1>1, <2>1, <2>3 DEF SetPath, Accepted, TableType
  <2> QED BY Zenon, <2>2, <2>3
<1>4. SeenGrows
  BY Zenon DEF SeenGrows, SetPath
<1> QED BY Zenon, <1>1, <1>2, <1>3, <1>4 DEF TaskInv

(* A call begins: it overlaps no other, or its name counts as raced.         *)
LEMMA BeginKeeps ==
  ASSUME TableInv, NEW u \in Users, NEW n \in Names, NEW at \in {"path", "plugin", "load"},
         NEW b \in Maybe(Builds), NEW asked \in Maybe(Builds),
         at \in {"path", "load"} => b \in Builds,
         ucall[u] = Idle, Begin(u, at, n, b, asked),
         plugins' \in [Names -> Maybe(Builds)], paths' \in [Names -> Maybe(RegistryEntry)],
         generation' \in Nat \ {0}, \A m \in Names : GenInv(m)',
         \A m \in Names \ {n} : plugins'[m] = plugins[m] /\ paths'[m] = paths[m],
         (/\ Agree(n) /\ last'[n] = asked
          /\ ucall'[u] = [at |-> at, name |-> n, build |-> b]) => CallInv(u)'
  PROVE  TableInv'
<1>1. /\ UserType /\ TableType /\ \A w \in Users : UserInv(w)
      /\ \A m \in Names \ raced : NameInv(m)
  BY Zenon DEF TableInv
<1>2. ucall' = [ucall EXCEPT ![u] = [at |-> at, name |-> n, build |-> b]]
  BY Zenon DEF Begin
<1>3. UserType'
  BY Zenon, <1>1, <1>2 DEF UserType, Maybe
<1>4. /\ ucall'[u] = [at |-> at, name |-> n, build |-> b]
      /\ \A w \in Users : w # u => ucall'[w] = ucall[w]
  BY Zenon, <1>1, <1>2 DEF UserType
<1>5. \A w \in Users : UserInv(w)'
  BY SMT, Z3, <1>1, <1>4 DEF UserInv
<1>6. /\ last' \in [Names -> Maybe(Builds)] /\ raced' \subseteq Names
      /\ raced \subseteq raced' /\ \A m \in Names : m # n => last'[m] = last[m]
  BY Zenon, <1>1 DEF Begin, TableType, Maybe
<1>7. ucall[u].name = None
  BY SMT, Z3 DEF Idle
<1>8. ASSUME NEW m \in Names \ raced', m # n PROVE NameInv(m)'
  <2>1. NameInv(m) /\ m \in Names
    BY Zenon, <1>1, <1>6
  <2>2. \A w \in Users : ucall'[w] = ucall[w] \/ (ucall'[w].name # m /\ ucall[w].name # m)
    BY SMT, Z3, <1>4, <1>7, <1>8, PluginsAssumption
  <2>3. plugins'[m] = plugins[m] /\ paths'[m] = paths[m] /\ last'[m] = last[m]
    BY Zenon, <1>6, <1>8
  <2> QED BY <2>1, <2>2, <2>3, NameFrame, Zenon
<1>9. ASSUME n \notin raced' PROVE NameInv(n)'
  <2>1. Calling(n) = {} /\ last'[n] = asked /\ n \notin raced
    BY Zenon, <1>1, <1>9 DEF Begin, TableType
  <2>2. \A w \in Users : ucall[w].name # n /\ (w # u => ucall'[w].name # n)
    BY Zenon, <2>1, <1>4 DEF Calling
  <2>3. Agree(n)
    BY Zenon, <1>1, <2>1, <2>2 DEF NameInv
  <2>4. CallInv(u)' /\ ucall'[u].name = n
    BY SMT, Z3, <1>4, <2>1, <2>3
  <2> QED BY Zenon, <2>2, <2>4 DEF NameInv
<1> QED BY Zenon, <1>3, <1>5, <1>6, <1>8, <1>9 DEF TableInv, TableType

(* register_dylib or register_wasm enters the plugin.                        *)
LEMMA RegisterPluginKeeps ==
  ASSUME PInv, NEW u \in Users, NEW n \in Names, NEW b \in Builds, RegisterPlugin(u, n, b)
  PROVE  PInv'
<1>1. TableInv /\ TableType /\ TaskInv /\ ucall[u] = Idle /\ Begin(u, "path", n, b, b)
  BY Zenon DEF PInv, TableInv, RegisterPlugin
<1>2. /\ plugins' = [plugins EXCEPT ![n] = b]
      /\ UNCHANGED <<paths, generation, tpc, seen, coords, procs, idlers>>
  BY Zenon DEF RegisterPlugin, tasks
<1>3. TaskInv' /\ SeenGrows /\ PathsMove
  BY SMT, Z3, <1>1, <1>2 DEF TaskInv, SeenGrows, PathsMove, TableType
<1>4. \A m \in Names : GenInv(m)'
  BY Zenon, <1>1, <1>2 DEF TableInv, GenInv
<1>5. /\ plugins' \in [Names -> Maybe(Builds)] /\ plugins'[n] = b
      /\ \A m \in Names \ {n} : plugins'[m] = plugins[m] /\ paths'[m] = paths[m]
  BY Zenon, <1>1, <1>2 DEF TableType, Maybe
<1>6. ucall'[u] = [at |-> "path", name |-> n, build |-> b] /\ last'[n] = b => CallInv(u)'
  BY SMT, Z3, <1>5 DEF CallInv
<1>7. /\ b \in Maybe(Builds) /\ "path" \in {"path", "plugin", "load"}
      /\ generation' \in Nat \ {0} /\ paths' \in [Names -> Maybe(RegistryEntry)]
  BY Zenon, <1>1, <1>2 DEF Maybe, TableType
<1>8. TableInv'
  BY <1>1, <1>4, <1>5, <1>6, <1>7, BeginKeeps, Zenon
<1> QED BY Zenon, <1>2, <1>3, <1>8, UserKeeps

(* unregister_dylib removes the path.                                        *)
LEMMA UnregisterPathKeeps ==
  ASSUME PInv, NEW u \in Users, NEW n \in Names, UnregisterPath(u, n)
  PROVE  PInv'
<1>1. /\ TableInv /\ TableType /\ TaskInv /\ ucall[u] = Idle
      /\ Begin(u, "plugin", n, None, None)
  BY Zenon DEF PInv, TableInv, UnregisterPath
<1>2. SetPath(n, None) /\ UNCHANGED <<plugins, generation, tpc, coords, procs, idlers>>
  BY Zenon DEF UnregisterPath
<1>3. TaskInv' /\ SeenGrows /\ paths' \in [Names -> Maybe(RegistryEntry)]
  BY Zenon, <1>1, <1>2, SetPathFacts DEF Maybe
<1>4. /\ paths'[n] = None
      /\ \A m \in Names \ {n} : plugins'[m] = plugins[m] /\ paths'[m] = paths[m]
  BY Zenon, <1>1, <1>2 DEF TableType, SetPath
<1>5. PathsMove /\ \A m \in Names : GenInv(m)'
  BY SMT, Z3, <1>1, <1>2, <1>4 DEF PathsMove, TableInv, TableType, GenInv
<1>6. ucall'[u] = [at |-> "plugin", name |-> n, build |-> None] /\ last'[n] = None
        => CallInv(u)'
  BY SMT, Z3, <1>4 DEF CallInv
<1>7. /\ None \in Maybe(Builds) /\ "plugin" \in {"path", "plugin", "load"}
      /\ "plugin" \notin {"path", "load"}
      /\ generation' \in Nat \ {0} /\ plugins' \in [Names -> Maybe(Builds)]
  BY Zenon, <1>1, <1>2 DEF Maybe, TableType
<1>8. TableInv'
  BY <1>1, <1>3, <1>4, <1>5, <1>6, <1>7, BeginKeeps, Zenon
<1> QED BY Zenon, <1>2, <1>3, <1>5, <1>8, UserKeeps

(* load_dylib looks the path up.                                             *)
LEMMA LoadDylibKeeps ==
  ASSUME PInv, NEW u \in Users, NEW n \in Names, LoadDylib(u, n)
  PROVE  PInv'
<1>1. TableInv /\ TableType /\ TaskInv /\ ucall[u] = Idle
  BY Zenon DEF PInv, TableInv, LoadDylib
<1>2. UNCHANGED <<plugins, paths, generation, tpc, seen, coords, procs, idlers>>
  BY Zenon DEF LoadDylib, tasks
<1>3. TaskInv' /\ SeenGrows /\ PathsMove
  BY SMT, Z3, <1>1, <1>2 DEF TaskInv, SeenGrows, PathsMove, TableType
<1>4. PICK b \in Builds, a \in Maybe(Builds) :
        /\ Begin(u, "load", n, b, a)
        /\ (paths[n] # None /\ b = paths[n].build /\ a = last[n]) \/ a = b
  <2>1. CASE paths[n] # None /\ Begin(u, "load", n, paths[n].build, last[n])
    <3>1. paths[n].build \in Builds /\ last[n] \in Maybe(Builds)
      BY Zenon, <1>1, <2>1 DEF TableType, Maybe, RegistryEntry
    <3> QED BY Zenon, <2>1, <3>1
  <2>2. CASE \E b \in Builds : Begin(u, "load", n, b, b)
    BY Zenon, <2>2 DEF Maybe
  <2> QED BY Zenon, <2>1, <2>2 DEF LoadDylib
<1>5. \A m \in Names : GenInv(m)'
  BY Zenon, <1>1, <1>2 DEF TableInv, GenInv
<1>6. Agree(n) /\ last'[n] = a /\ ucall'[u] = [at |-> "load", name |-> n, build |-> b]
        => CallInv(u)'
  BY SMT, Z3, <1>4 DEF CallInv, Agree
<1>7. /\ b \in Maybe(Builds) /\ "load" \in {"path", "plugin", "load"}
      /\ generation' \in Nat \ {0} /\ plugins' \in [Names -> Maybe(Builds)]
      /\ paths' \in [Names -> Maybe(RegistryEntry)]
      /\ \A m \in Names \ {n} : plugins'[m] = plugins[m] /\ paths'[m] = paths[m]
  BY Zenon, <1>1, <1>2 DEF Maybe, TableType
<1>8. TableInv'
  BY <1>1, <1>4, <1>5, <1>6, <1>7, BeginKeeps, Zenon
<1> QED BY Zenon, <1>2, <1>3, <1>8, UserKeeps

(* A call goes on or ends.                                                   *)
LEMMA CallMoves ==
  ASSUME TableInv, NEW u \in Users, NEW n \in Names, ucall[u].name = n,
         NEW c, ucall' = [ucall EXCEPT ![u] = c], UserType', UserInv(u)',
         c = Idle \/ c.name = n, UNCHANGED <<last, raced>>,
         plugins' \in [Names -> Maybe(Builds)], paths' \in [Names -> Maybe(RegistryEntry)],
         generation' \in Nat \ {0}, \A m \in Names : GenInv(m)',
         \A m \in Names \ {n} : plugins'[m] = plugins[m] /\ paths'[m] = paths[m],
         CallInv(u) /\ c = Idle => Agree(n)',
         CallInv(u) /\ c # Idle => CallInv(u)'
  PROVE  TableInv'
<1>1. /\ UserType /\ TableType /\ \A w \in Users : UserInv(w)
      /\ \A m \in Names \ raced : NameInv(m)
  BY Zenon DEF TableInv
<1>2. ucall'[u] = c /\ \A w \in Users : w # u => ucall'[w] = ucall[w]
  BY Zenon, <1>1 DEF UserType
<1>3. \A w \in Users : UserInv(w)'
  BY ZenonT(40), <1>1, <1>2 DEF UserInv
<1>4. TableType'
  BY Zenon, <1>1 DEF TableType
<1>5. (c.name = n \/ c.name = None) /\ None \notin Names
  BY SMT, Z3, PluginsAssumption DEF Idle
<1>6. ASSUME NEW m \in Names \ raced, m # n PROVE NameInv(m)'
  <2>1. NameInv(m) /\ m \in Names
    BY Zenon, <1>1
  <2>2. \A w \in Users : ucall'[w] = ucall[w] \/ (ucall'[w].name # m /\ ucall[w].name # m)
    BY Zenon, <1>2, <1>5, <1>6
  <2>3. plugins'[m] = plugins[m] /\ paths'[m] = paths[m] /\ last'[m] = last[m]
    BY Zenon, <1>6
  <2> QED BY Zenon, <2>1, <2>2, <2>3, NameFrame
<1>7. ASSUME n \notin raced PROVE NameInv(n)'
  <2>1. /\ CallInv(u) /\ \A w \in Users : w # u => ucall[w].name # n /\ ucall'[w].name # n
    BY Zenon, <1>1, <1>2, <1>7 DEF NameInv
  <2>2. CASE c = Idle
    <3>1. \A w \in Users : ucall'[w].name # n
      BY SMT, Z3, <1>2, <2>1, <2>2, PluginsAssumption DEF Idle
    <3>2. Agree(n)'
      BY Zenon, <2>1, <2>2
    <3> QED BY Zenon, <3>1, <3>2 DEF NameInv
  <2>3. CASE c # Idle
    <3>1. CallInv(u)' /\ ucall'[u].name = n
      BY Zenon, <1>2, <2>1, <2>3
    <3> QED BY Zenon, <2>1, <3>1 DEF NameInv
  <2> QED BY Zenon, <2>2, <2>3
<1> QED BY Zenon, <1>3, <1>4, <1>6, <1>7 DEF TableInv

(* What every call in progress is about.                                     *)
LEMMA InProgress ==
  ASSUME PInv, NEW u \in Users, ucall[u].at # "idle"
  PROVE  /\ ucall[u].name \in Names /\ TableInv /\ TableType /\ UserType /\ TaskInv
         /\ ucall[u].at \in {"path", "load"} => ucall[u].build \in Builds
BY Zenon DEF PInv, TableInv, UserInv

(* A call has ended.                                                         *)
LEMMA EndFacts ==
  ASSUME UserType, NEW u \in Users, ucall' = [ucall EXCEPT ![u] = Idle]
  PROVE  UserType' /\ UserInv(u)'
<1>1. UserType'
  BY Zenon DEF UserType, Idle, Maybe
<1>2. ucall'[u] = Idle
  BY Zenon DEF UserType
<1> QED BY SMT, Z3, <1>1, <1>2 DEF UserInv, Idle

(* register_dylib or register_wasm enters the path, under a new generation.  *)
LEMMA RegisterPathKeeps ==
  ASSUME PInv, NEW u \in Users, RegisterPath(u)
  PROVE  PInv'
<1> DEFINE r == [build |-> ucall[u].build, gen |-> generation]
<1>0. PICK n : n = ucall[u].name
  BY Zenon
<1>1. /\ ucall[u].at = "path" /\ SetPath(n, r) /\ generation' = generation + 1
      /\ ucall' = [ucall EXCEPT ![u] = Idle]
      /\ UNCHANGED <<coords, procs, idlers, plugins, last, raced, tpc>>
  BY Zenon, <1>0 DEF RegisterPath
<1>2. /\ n \in Names /\ TableInv /\ TableType /\ UserType /\ TaskInv
      /\ ucall[u].build \in Builds
  BY Zenon, <1>0, <1>1, InProgress
<1>3. r \in Maybe(RegistryEntry) /\ generation' \in Nat \ {0} /\ r.gen = generation
  BY SMT, Z3, <1>1, <1>2 DEF TableType, Maybe, RegistryEntry
<1>4. TaskInv' /\ SeenGrows /\ paths' \in [Names -> Maybe(RegistryEntry)]
  BY Zenon, <1>1, <1>2, <1>3, SetPathFacts
<1>5. /\ paths'[n] = r
      /\ \A m \in Names \ {n} : plugins'[m] = plugins[m] /\ paths'[m] = paths[m]
  BY Zenon, <1>1, <1>2 DEF TableType, SetPath
<1> HIDE DEF r
<1>6. PathsMove
  BY SMT, Z3, <1>1, <1>2, <1>3, <1>5 DEF PathsMove, TableType
<1>7. \A m \in Names : GenInv(m)'
  <2>1. GenInv(n)'
    BY SMT, Z3, <1>1, <1>2, <1>3, <1>5 DEF GenInv, TableType
  <2>2. \A m \in Names \ {n} : GenInv(m)'
    BY SMT, Z3, <1>1, <1>2, <1>5 DEF GenInv, TableInv, TableType, Maybe, RegistryEntry
  <2> QED BY Zenon, <2>1, <2>2
<1>8. UserType' /\ UserInv(u)'
  BY Zenon, <1>1, <1>2, EndFacts
<1>9. CallInv(u) => Agree(n)'
  <2> SUFFICES ASSUME CallInv(u) PROVE Agree(n)'
    BY Zenon
  <2>1. plugins[n] = ucall[u].build /\ last[n] = ucall[u].build
    BY Zenon, <1>0, <1>1 DEF CallInv
  <2>2. r # None /\ ucall[u].build # None /\ r.build = ucall[u].build
    BY SMT, Z3, <1>2, <1>3, PluginsAssumption DEF r, RegistryEntry, TableType
  <2> QED BY Zenon, <1>1, <1>5, <2>1, <2>2 DEF Agree
<1>10. TableInv'
  <2>1. plugins' \in [Names -> Maybe(Builds)]
    BY Zenon, <1>1, <1>2 DEF TableType
  <2> QED BY Zenon, <1>0, <1>1, <1>2, <1>3, <1>4, <1>5, <1>7, <1>8, <1>9, <2>1, CallMoves
<1> QED BY Zenon, <1>1, <1>4, <1>6, <1>10, UserKeeps

(* unregister_dylib removes the plugin.                                      *)
LEMMA UnregisterPluginKeeps ==
  ASSUME PInv, NEW u \in Users, UnregisterPlugin(u)
  PROVE  PInv'
<1>0. PICK n : n = ucall[u].name
  BY Zenon
<1>1. /\ ucall[u].at = "plugin" /\ plugins' = [plugins EXCEPT ![n] = None]
      /\ ucall' = [ucall EXCEPT ![u] = Idle]
      /\ UNCHANGED <<tpc, seen, coords, procs, idlers, paths, generation, last, raced>>
  BY Zenon, <1>0 DEF UnregisterPlugin, tasks
<1>2. n \in Names /\ TableInv /\ TableType /\ UserType /\ TaskInv
  BY Zenon, <1>0, <1>1, InProgress
<1>3. TaskInv' /\ SeenGrows /\ PathsMove
  BY SMT, Z3, <1>1, <1>2 DEF TaskInv, SeenGrows, PathsMove, TableType
<1>4. \A m \in Names : GenInv(m)'
  BY Zenon, <1>1, <1>2 DEF TableInv, GenInv
<1>5. /\ plugins' \in [Names -> Maybe(Builds)] /\ plugins'[n] = None
      /\ paths' \in [Names -> Maybe(RegistryEntry)] /\ generation' \in Nat \ {0}
      /\ \A m \in Names \ {n} : plugins'[m] = plugins[m] /\ paths'[m] = paths[m]
  BY Zenon, <1>1, <1>2 DEF TableType, Maybe
<1>6. UserType' /\ UserInv(u)'
  BY Zenon, <1>1, <1>2, EndFacts
<1>7. CallInv(u) => Agree(n)'
  BY Zenon, <1>0, <1>1, <1>5 DEF CallInv, Agree
<1>8. TableInv'
  BY Zenon, <1>0, <1>1, <1>2, <1>4, <1>5, <1>6, <1>7, CallMoves
<1> QED BY Zenon, <1>1, <1>3, <1>8, UserKeeps

(* load_dylib registers what it found again.                                 *)
LEMMA LoadRegisterKeeps ==
  ASSUME PInv, NEW u \in Users, LoadRegister(u)
  PROVE  PInv'
<1>0. PICK n, b, c : n = ucall[u].name /\ b = ucall[u].build /\ c = [ucall[u] EXCEPT !.at = "path"]
  BY Zenon
<1>1. /\ ucall[u].at = "load" /\ plugins' = [plugins EXCEPT ![n] = b]
      /\ ucall' = [ucall EXCEPT ![u] = c]
      /\ UNCHANGED <<tpc, seen, coords, procs, idlers, paths, generation, last, raced>>
  BY Zenon, <1>0 DEF LoadRegister, tasks
<1>2. n \in Names /\ b \in Builds /\ TableInv /\ TableType /\ UserType /\ TaskInv
  BY Zenon, <1>0, <1>1, InProgress
<1>3. TaskInv' /\ SeenGrows /\ PathsMove
  BY SMT, Z3, <1>1, <1>2 DEF TaskInv, SeenGrows, PathsMove, TableType
<1>4. \A m \in Names : GenInv(m)'
  BY Zenon, <1>1, <1>2 DEF TableInv, GenInv
<1>5. /\ plugins' \in [Names -> Maybe(Builds)] /\ plugins'[n] = b
      /\ paths' \in [Names -> Maybe(RegistryEntry)] /\ generation' \in Nat \ {0}
      /\ \A m \in Names \ {n} : plugins'[m] = plugins[m] /\ paths'[m] = paths[m]
  BY Zenon, <1>1, <1>2 DEF TableType, Maybe
<1>6. c.at = "path" /\ c.name = n /\ c.build = b /\ UserType' /\ ucall'[u] = c
  BY Zenon, <1>0, <1>1, <1>2 DEF UserType
<1>7. UserInv(u)' /\ c # Idle
  BY SMT, Z3, <1>2, <1>6 DEF UserInv, Idle
<1>8. CallInv(u) => CallInv(u)'
  BY ZenonT(40), <1>0, <1>1, <1>5, <1>6 DEF CallInv
<1>9. TableInv'
  BY Zenon, <1>0, <1>1, <1>2, <1>4, <1>5, <1>6, <1>7, <1>8, CallMoves
<1> QED BY Zenon, <1>1, <1>3, <1>9, UserKeeps

(* Registration, loading and unregistration keep the invariant.              *)
LEMMA UserStepKeeps ==
  ASSUME PInv, NEW u \in Users, UserStep(u)
  PROVE  PInv'
BY Zenon, RegisterPluginKeeps, UnregisterPathKeeps, LoadDylibKeeps, RegisterPathKeeps,
   UnregisterPluginKeeps, LoadRegisterKeeps DEF UserStep
-----------------------------------------------------------------------------
(* What a coordinator relies on is left alone.                               *)
CoordSame(w) ==
  /\ vpc'[w] = vpc[w] /\ vtask'[w] = vtask[w] /\ own'[w] = own[w] /\ reg'[w] = reg[w]
  /\ own[w] # None => /\ inn'[own[w]] = inn[own[w]] /\ out'[own[w]] = out[own[w]]
                      /\ has'[own[w]] = has[own[w]] /\ child'[own[w]] = child[own[w]]
                      /\ own[w] \in shm' => own[w] \in shm
  /\ vpc[w] \in Working => /\ tpc'[vtask[w]] = tpc[vtask[w]]
                           /\ seen'[vtask[w]] = seen[vtask[w]]
  /\ abandoned \subseteq abandoned' /\ UNCHANGED <<paths, generation>>

(* Then its part of the invariant stays.                                     *)
LEMMA CoordFrame ==
  ASSUME NEW w, CoordInv(w), CoordSame(w), vpc[w] \in {"idle", "release"} \cup Working \cup Leaving
  PROVE  CoordInv(w)'
<1>1. CASE vpc[w] \in {"idle", "spawn"}
  BY Zenon, <1>1 DEF CoordInv, CoordSame, Working, Unasked, Leaving
<1>2. CASE vpc[w] \notin {"idle", "spawn"}
  <2>1. own[w] # None
    BY Zenon, <1>2 DEF CoordInv
  <2>2. CASE vpc[w] \in Unasked \ {"send", "register"}
    BY Zenon, <2>1, <2>2 DEF CoordInv, CoordSame, Quiet, Working, Unasked, Leaving
  <2>3. CASE vpc[w] \in Leaving
    BY Zenon, <2>1, <2>3 DEF CoordInv, CoordSame, Quiet, Working, Unasked, Leaving
  <2>4. CASE vpc[w] = "register"
    BY Zenon, <2>1, <2>4 DEF CoordInv, CoordSame, Quiet, Copy, Working, Unasked, Leaving
  <2>5. CASE vpc[w] = "send"
    BY Zenon, <2>1, <2>5 DEF CoordInv, CoordSame, Quiet, Maybe, Working, Unasked, Leaving
  <2>6. CASE vpc[w] = "read"
    <3>1. vpc[w] \in Working
      BY Zenon, <2>6 DEF Working
    <3>2. Asked(own[w], vtask[w]) => Asked(own[w], vtask[w])'
      BY Zenon, <2>1 DEF CoordSame, Asked
    <3>3. Told(own[w], vtask[w]) => Told(own[w], vtask[w])'
      BY Zenon, <2>1, <3>1 DEF CoordSame, Told, Maybe
    <3>4. Quiet(own[w]) => Quiet(own[w])'
      BY Zenon, <2>1 DEF CoordSame, Quiet
    <3> QED BY Zenon, <2>1, <2>6, <3>1, <3>2, <3>3, <3>4
         DEF CoordInv, CoordSame, Maybe, Unasked, Leaving
  <2> QED BY Zenon, <1>2, <2>2, <2>3, <2>4, <2>5, <2>6 DEF Working, Unasked, Leaving
<1> QED BY Zenon, <1>1, <1>2

(* Nothing a coordinator relies on changes.                                  *)
LEMMA CoordsFrame ==
  ASSUME Coords, CoordType, Apart,
         UNCHANGED <<vpc, vtask, own, reg, abandoned, tpc, seen, paths, generation, child, has, inn,
                     out, shm>>
  PROVE  Coords' /\ CoordType' /\ Apart'
<1>1. ASSUME NEW w \in Coordinators PROVE CoordInv(w)'
  <2>1. CoordInv(w) /\ vpc[w] \in {"idle", "release"} \cup Working \cup Leaving
    BY Zenon DEF Coords, CoordType
  <2>2. CoordSame(w)
    BY Zenon DEF CoordSame
  <2> QED BY Zenon, <2>1, <2>2, CoordFrame
<1> QED BY Zenon, <1>1, FieldsFrame DEF Coords

(* A step of a coordinator with the process it owns.                         *)
MovesAlone(v) ==
  /\ UNCHANGED <<tables, idlers>> /\ abandoned \subseteq abandoned'
  /\ \A w \in Coordinators \ {v} : /\ vpc'[w] = vpc[w] /\ vtask'[w] = vtask[w]
                                   /\ own'[w] = own[w] /\ reg'[w] = reg[w]
  /\ \A p \in Procs \ {own[v]} :
       /\ child'[p] = child[p] /\ has'[p] = has[p] /\ known'[p] = known[p]
       /\ inn'[p] = inn[p] /\ out'[p] = out[p] /\ (p \in shm') = (p \in shm)
  /\ own'[v] = own[v]
TaskMoves(v) ==
  \/ UNCHANGED <<tpc, seen>>
  \/ /\ vpc[v] \in Working
     /\ \A t \in Tasks \ {vtask[v]} : tpc'[t] = tpc[t] /\ seen'[t] = seen[t]

(* Such a step keeps the invariant if it keeps the coordinator's part of it. *)
LEMMA AloneKeeps ==
  ASSUME PInv, NEW v \in Coordinators, MovesAlone(v), TaskMoves(v),
         vpc[v] \notin {"idle", "spawn"}, child'[own[v]] # "unborn",
         vpc'[v] \in Working => vpc[v] \in Working /\ vtask'[v] = vtask[v],
         CoordType', ProcType', TaskInv',
         \A n \in Names : HoldInv(own[v], n)', CoordInv(v)'
  PROVE  PInv'
<1>1. /\ TableInv /\ TaskInv /\ ProcType /\ CoordType /\ Copies /\ Coords /\ Owned
      /\ Apart /\ PoolInv /\ DownInv
  BY ZenonT(40) DEF PInv
<1>2. own[v] # None /\ own[v] \in Procs
  BY SMT, Z3, <1>1 DEF Coords, CoordInv, CoordType, Maybe
<1>3. TableInv'
  BY Zenon, <1>1, TableFrame DEF MovesAlone
<1>4. Copies'
  <2>0. own'[v] = own[v]
    BY Zenon DEF MovesAlone
  <2> SUFFICES ASSUME NEW p \in Procs, p # own[v], NEW n \in Names PROVE HoldInv(p, n)'
    BY ZenonT(40), <2>0 DEF Copies
  <2>1. HoldInv(p, n) /\ has'[p] = has[p] /\ known'[p] = known[p] /\ UNCHANGED <<paths, generation>>
    BY Zenon, <1>1 DEF Copies, MovesAlone, tables
  <2> QED BY Zenon, <2>1 DEF HoldInv, Copy
<1>5. Coords'
  <2> SUFFICES ASSUME NEW w \in Coordinators, w # v PROVE CoordInv(w)'
    BY Zenon DEF Coords
  <2>1. CoordInv(w) /\ vpc[w] \in {"idle", "release"} \cup Working \cup Leaving
    BY Zenon, <1>1 DEF Coords, CoordType
  <2>2. own[w] # own[v] /\ (own[w] # None => own[w] \in Procs \ {own[v]})
    BY Zenon, <1>1, <1>2 DEF Apart, CoordType, Maybe
  <2>3. vpc[w] \in Working => /\ vtask[w] \in Tasks
                              /\ vpc[v] \in Working => vtask[w] # vtask[v]
    BY Zenon, <1>1, <2>1 DEF Apart, CoordInv
  <2>4. vpc[w] \in Working => /\ tpc'[vtask[w]] = tpc[vtask[w]]
                              /\ seen'[vtask[w]] = seen[vtask[w]]
    BY Zenon, <2>3 DEF TaskMoves
  <2>5. CoordSame(w)
    BY Zenon, <2>2, <2>4 DEF CoordSame, MovesAlone, tables
  <2> QED BY Zenon, <2>1, <2>5, CoordFrame
<1>6. \A w \in Coordinators : own'[w] = own[w]
  BY Zenon DEF MovesAlone
<1>7. Owned'
  <2> SUFFICES ASSUME NEW p \in Procs PROVE OwnerInv(p)'
    BY Zenon DEF Owned
  <2>1. CASE p = own[v]
    BY Zenon, <1>6, <2>1 DEF OwnerInv
  <2>2. CASE p # own[v]
    <3>1. OwnerInv(p)
      BY Zenon, <1>1 DEF Owned
    <3>2. /\ child'[p] = child[p] /\ inn'[p] = inn[p] /\ out'[p] = out[p]
          /\ (p \in shm') = (p \in shm) /\ pool' = pool /\ victims' = victims
          /\ p \in abandoned => p \in abandoned'
      BY Zenon, <2>2 DEF MovesAlone, idlers
    <3> QED BY Zenon, <1>6, <3>1, <3>2 DEF OwnerInv, Quiet, Waits
  <2> QED BY Zenon, <2>1, <2>2
<1>8. Apart'
  BY SMT, Z3, <1>1, <1>6 DEF Apart, MovesAlone
<1>9. PoolInv'
  <2>1. pool' = pool /\ victims' = victims /\ shutdown' = shutdown
    BY Zenon DEF MovesAlone, idlers
  <2>2. \A p \in Procs : p # own[v] /\ Quiet(p) => Quiet(p)'
    BY Zenon DEF MovesAlone, Quiet
  <2> QED BY Zenon, <1>1, <1>6, <2>1, <2>2, PoolFrame
<1>10. DownInv'
  BY Zenon, <1>1 DEF DownInv, MovesAlone, idlers
<1> QED BY Zenon, <1>3, <1>4, <1>5, <1>7, <1>8, <1>9, <1>10 DEF PInv

(* The task a coordinator works on ends.                                     *)
LEMMA DoneFacts ==
  ASSUME TaskInv, NEW t \in Tasks, Done(t), UNCHANGED paths
  PROVE  TaskInv' /\ \A s \in Tasks \ {t} : tpc'[s] = tpc[s] /\ seen'[s] = seen[s]
BY Zenon DEF TaskInv, Done, Accepted, Maybe

(* What holds of a coordinator that has a process.                           *)
LEMMA Busy ==
  ASSUME PInv, NEW v \in Coordinators, vpc[v] \notin {"idle", "spawn"}
  PROVE  /\ own[v] \in Procs /\ own[v] # None /\ CoordInv(v) /\ CoordType /\ ProcType
         /\ TaskInv /\ child[own[v]] # "unborn" /\ \A n \in Names : HoldInv(own[v], n)
         /\ \A n \in Names : paths[n] \in Maybe(RegistryEntry) /\ GenInv(n)
         /\ generation \in Nat
         /\ vpc[v] \in Working => /\ vtask[v] \in Tasks /\ tpc[vtask[v]] = "running"
                                  /\ Target[vtask[v]] \in Names
                                  /\ paths[Target[vtask[v]]] \in seen[vtask[v]]
<1>1. CoordInv(v) /\ CoordType /\ ProcType /\ TaskInv /\ Copies /\ Owned /\ TableInv
  BY Zenon DEF PInv, Coords
<1>2. own[v] \in Procs /\ own[v] # None
  BY Zenon, <1>1 DEF CoordInv, CoordType, Maybe
<1>3. child[own[v]] # "unborn" /\ \A n \in Names : HoldInv(own[v], n)
  BY Zenon, <1>1, <1>2 DEF Owned, OwnerInv, Copies
<1>4. vpc[v] \in Working => /\ vtask[v] \in Tasks /\ tpc[vtask[v]] = "running"
                            /\ Target[vtask[v]] \in Names
                            /\ paths[Target[vtask[v]]] \in seen[vtask[v]]
  BY Zenon, <1>1, PluginsAssumption DEF CoordInv, TaskInv, Accepted
<1> QED BY Zenon, <1>1, <1>2, <1>3, <1>4 DEF TableInv, TableType

(* An error on the stream: the task ends, the process is to be dropped.      *)
LEMMA FailKeeps ==
  ASSUME PInv, NEW v \in Coordinators, vpc[v] \in Working \ {"spawn"}, Fail(v),
         UNCHANGED <<tables, idlers, has, known, inn, out>>,
         child' = child \/ child' = [child EXCEPT ![own[v]] = "dead"],
         shm' = shm \/ shm' = shm \ {own[v]},
         Quiet(own[v]) \/ child'[own[v]] = "dead" \/ own[v] \in abandoned',
         abandoned \subseteq abandoned'
  PROVE  PInv'
<1>1. /\ own[v] \in Procs /\ own[v] # None /\ CoordInv(v) /\ CoordType /\ ProcType
      /\ TaskInv /\ child[own[v]] # "unborn" /\ vtask[v] \in Tasks
      /\ \A n \in Names : HoldInv(own[v], n)
  BY Zenon, Busy DEF Working
<1>2. /\ Done(vtask[v]) /\ UNCHANGED <<paths, own>>
      /\ vtask' = [vtask EXCEPT ![v] = None] /\ reg' = [reg EXCEPT ![v] = None]
      /\ vpc' = [vpc EXCEPT ![v] = "drop"]
  BY Zenon DEF Fail, Goto, tables
<1>3. TaskInv' /\ TaskMoves(v)
  BY Zenon, <1>1, <1>2, DoneFacts DEF TaskMoves
<1>4. CoordType' /\ vpc'[v] = "drop"
  BY Zenon, <1>1, <1>2 DEF CoordType, Maybe, Leaving
<1>5. ProcType' /\ child'[own[v]] # "unborn"
  BY Zenon, <1>1 DEF ProcType
<1>6. MovesAlone(v)
  BY SMT, Z3, <1>1, <1>2 DEF MovesAlone, CoordType, ProcType
<1>7. CoordInv(v)'
  BY Zenon, <1>1, <1>2, <1>4 DEF CoordInv, Working, Unasked, Leaving, Quiet
<1>8. \A n \in Names : HoldInv(own[v], n)'
  BY Zenon, <1>1, <1>2 DEF HoldInv, Copy, tables
<1> QED BY Zenon, <1>3, <1>4, <1>5, <1>6, <1>7, <1>8, AloneKeeps DEF Working

(* The registrations of S are copied to a process.                           *)
LEMMA CopiedFacts ==
  ASSUME PInv, NEW p \in Procs, NEW S, Copied(p, S), UNCHANGED <<paths, generation>>
  PROVE  /\ has' \in [Procs -> [Names -> Maybe(RegistryEntry)]]
         /\ known' \in [Procs -> [Names -> Nat]]
         /\ \A q \in Procs \ {p} : has'[q] = has[q] /\ known'[q] = known[q]
         /\ \A n \in Names : HoldInv(p, n)'
<1>1. /\ ProcType /\ \A n \in Names : HoldInv(p, n)
      /\ \A n \in Names : paths[n] \in Maybe(RegistryEntry) /\ GenInv(n)
  BY Zenon DEF PInv, TableInv, TableType, Copies
<1>2. /\ has' = [has EXCEPT ![p] = [n \in Names |-> IF n \in S THEN paths[n] ELSE has[p][n]]]
      /\ known' = [known EXCEPT ![p] =
           [n \in Names |-> IF n \in S /\ paths[n] # None THEN paths[n].gen ELSE known[p][n]]]
  BY Zenon DEF Copied
<1>3. \A n \in Names : paths[n] # None => paths[n].gen \in Nat
  BY Zenon, <1>1 DEF Maybe, RegistryEntry
<1>4. /\ has' \in [Procs -> [Names -> Maybe(RegistryEntry)]]
      /\ \A q \in Procs \ {p} : has'[q] = has[q]
      /\ \A n \in Names : has'[p][n] = IF n \in S THEN paths[n] ELSE has[p][n]
  BY Zenon, <1>1, <1>2 DEF ProcType
<1>5. /\ known' \in [Procs -> [Names -> Nat]]
      /\ \A q \in Procs \ {p} : known'[q] = known[q]
      /\ \A n \in Names : known'[p][n] = IF n \in S /\ paths[n] # None THEN paths[n].gen
                                         ELSE known[p][n]
  BY Zenon, <1>1, <1>2, <1>3 DEF ProcType
<1>6. ASSUME NEW n \in Names PROVE HoldInv(p, n)'
  BY Zenon, <1>1, <1>4, <1>5 DEF HoldInv, Copy, GenInv
<1> QED BY Zenon, <1>4, <1>5, <1>6

(* The second half of sync_registries for a new process.                     *)
LEMMA SpawnCopyKeeps ==
  ASSUME PInv, NEW v \in Coordinators, SpawnCopy(v)
  PROVE  PInv'
<1>0. /\ vpc[v] = "copy" /\ UNCHANGED <<tables, idlers, abandoned, child, inn, out, shm>>
      /\ UNCHANGED <<paths, generation>>
  BY Zenon DEF SpawnCopy, tables
<1>1. /\ own[v] \in Procs /\ own[v] # None /\ CoordInv(v) /\ CoordType /\ ProcType
      /\ TaskInv /\ child[own[v]] # "unborn" /\ vtask[v] \in Tasks
      /\ Quiet(own[v]) /\ tpc[vtask[v]] = "running"
  BY Zenon, <1>0, Busy DEF Working, CoordInv, Unasked
<1>2. CASE /\ child[own[v]] = "alive" /\ Copied(own[v], Names \ Wasms)
           /\ Goto(v, "sync") /\ UNCHANGED <<tasks, vtask, own, reg>>
  <2>1. /\ Copied(own[v], Names \ Wasms) /\ vpc' = [vpc EXCEPT ![v] = "sync"]
        /\ UNCHANGED <<tpc, seen, vtask, own, reg>>
    BY Zenon, <1>2 DEF Goto, tasks
  <2>2. /\ has' \in [Procs -> [Names -> Maybe(RegistryEntry)]]
        /\ known' \in [Procs -> [Names -> Nat]]
        /\ \A q \in Procs \ {own[v]} : has'[q] = has[q] /\ known'[q] = known[q]
        /\ \A n \in Names : HoldInv(own[v], n)'
    <3>1. PICK p \in Procs : p = own[v]
      BY Zenon, <1>1
    <3>2. /\ has' \in [Procs -> [Names -> Maybe(RegistryEntry)]]
          /\ known' \in [Procs -> [Names -> Nat]]
          /\ \A q \in Procs \ {p} : has'[q] = has[q] /\ known'[q] = known[q]
          /\ \A n \in Names : HoldInv(p, n)'
      BY Zenon, <1>0, <2>1, <3>1, CopiedFacts
    <3> QED BY Zenon, <2>1, <3>1, <3>2
  <2>3. TaskInv' /\ TaskMoves(v)
    BY Zenon, <1>0, <1>1, <2>1 DEF TaskInv, TaskMoves
  <2>4. CoordType' /\ vpc'[v] = "sync"
    BY Zenon, <1>1, <2>1 DEF CoordType, Working
  <2>5. ProcType'
    BY Zenon, <1>0, <1>1, <2>2 DEF ProcType
  <2>6. MovesAlone(v)
    BY Zenon, <1>0, <1>1, <2>1, <2>2 DEF MovesAlone, CoordType
  <2>7. CoordInv(v)'
    BY Zenon, <1>0, <1>1, <2>1, <2>4 DEF CoordInv, Working, Unasked, Leaving, Quiet
  <2> QED BY Zenon, <1>0, <1>1, <2>1, <2>2, <2>3, <2>4, <2>5, <2>6, <2>7, AloneKeeps DEF Working
<1>3. CASE Fail(v) /\ UNCHANGED <<has, known>>
  BY Zenon, <1>0, <1>1, <1>3, FailKeeps DEF Working
<1> QED BY Zenon, <1>2, <1>3 DEF SpawnCopy

(* registry_sync compares the process's generation with the one in force:    *)
(* if they agree, what the process holds is what the task may run.           *)
LEMMA SyncKeeps ==
  ASSUME PInv, NEW v \in Coordinators, Sync(v)
  PROVE  PInv'
<1>0. /\ vpc[v] = "sync" /\ UNCHANGED <<tables, procs, idlers, own, abandoned>>
      /\ UNCHANGED <<paths, generation>>
  BY Zenon DEF Sync, tables
<1>1. /\ own[v] \in Procs /\ own[v] # None /\ CoordInv(v) /\ CoordType /\ ProcType
      /\ TaskInv /\ child[own[v]] # "unborn" /\ vtask[v] \in Tasks
      /\ Quiet(own[v]) /\ tpc[vtask[v]] = "running"
      /\ Target[vtask[v]] \in Names /\ paths[Target[vtask[v]]] \in seen[vtask[v]]
      /\ \A n \in Names : HoldInv(own[v], n)
      /\ \A n \in Names : paths[n] \in Maybe(RegistryEntry) /\ GenInv(n)
  BY Zenon, <1>0, Busy DEF Working, CoordInv, Unasked
<1>2. /\ ProcType' /\ \A n \in Names : HoldInv(own[v], n)'
  BY Zenon, <1>0, <1>1 DEF ProcType, HoldInv, Copy, procs
<1>3. CASE paths[Target[vtask[v]]] = None
  <2>1. /\ Done(vtask[v]) /\ vtask' = [vtask EXCEPT ![v] = None]
        /\ vpc' = [vpc EXCEPT ![v] = "release"] /\ UNCHANGED reg
    BY Zenon, <1>3 DEF Sync, Goto
  <2>2. TaskInv' /\ TaskMoves(v)
    BY Zenon, <1>0, <1>1, <2>1, DoneFacts DEF TaskMoves, Working
  <2>3. CoordType' /\ vpc'[v] = "release"
    BY Zenon, <1>0, <1>1, <2>1 DEF CoordType, Maybe
  <2>4. MovesAlone(v)
    BY Zenon, <1>0, <1>1, <2>1 DEF MovesAlone, CoordType, procs
  <2>5. CoordInv(v)'
    BY Zenon, <1>0, <1>1, <2>3 DEF CoordInv, Working, Unasked, Leaving, Quiet, procs
  <2> QED BY Zenon, <1>0, <1>1, <1>2, <2>2, <2>3, <2>4, <2>5, AloneKeeps DEF Working, procs
<1>4. CASE paths[Target[vtask[v]]] # None
  <2> DEFINE n == Target[vtask[v]]
  <2>1. /\ UNCHANGED <<tpc, seen, vtask>>
        /\ \/ /\ known[own[v]][n] = paths[n].gen /\ vpc' = [vpc EXCEPT ![v] = "send"]
              /\ UNCHANGED reg
           \/ /\ vpc' = [vpc EXCEPT ![v] = "register"]
              /\ reg' = [reg EXCEPT ![v] = paths[n]]
    BY Zenon, <1>4 DEF Sync, Goto, tasks
  <2>2. TaskInv' /\ TaskMoves(v)
    BY Zenon, <1>0, <1>1, <2>1 DEF TaskInv, TaskMoves
  <2>3. CoordType' /\ vpc'[v] \in {"send", "register"}
    BY ZenonT(40), <1>0, <1>1, <2>1 DEF CoordType, Working
  <2>4. MovesAlone(v)
    BY Zenon, <1>0, <1>1, <2>1 DEF MovesAlone, CoordType, procs
  <2>5. CoordInv(v)'
    <3>1. CASE vpc'[v] = "send"
      <4>1. known[own[v]][n] = paths[n].gen
        BY Zenon, <1>1, <2>1, <3>1 DEF CoordType
      <4>2. has[own[v]][n] = None \/ has[own[v]][n] = paths[n]
        BY Zenon, <1>1, <1>4, <4>1 DEF HoldInv, Copy
      <4>3. has[own[v]][n] \in Maybe(seen[vtask[v]])
        BY Zenon, <1>1, <4>2 DEF Maybe
      <4> QED BY Zenon, <1>0, <1>1, <2>1, <3>1, <4>3
            DEF CoordInv, Working, Unasked, Leaving, Quiet, procs
    <3>2. CASE vpc'[v] = "register"
      <4>1. reg'[v] = paths[n]
        BY Zenon, <1>1, <2>1, <3>2 DEF CoordType
      <4>2. Copy(n, paths[n])
        BY Zenon, <1>1 DEF Copy, GenInv
      <4>3. reg'[v] # None /\ reg'[v] \in seen[vtask[v]] /\ Copy(n, reg[v])'
        BY Zenon, <1>0, <1>1, <1>4, <2>1, <4>1, <4>2 DEF Copy
      <4> QED BY Zenon, <1>0, <1>1, <2>1, <3>2, <4>3
            DEF CoordInv, Working, Unasked, Leaving, Quiet, procs
    <3> QED BY Zenon, <2>3, <3>1, <3>2
  <2> QED BY Zenon, <1>0, <1>1, <1>2, <2>1, <2>2, <2>3, <2>4, <2>5, AloneKeeps DEF Working, procs
<1> QED BY Zenon, <1>3, <1>4

(* The process takes a changed registration, or does not.                    *)
LEMMA SyncRegisterKeeps ==
  ASSUME PInv, NEW v \in Coordinators, NEW ok \in BOOLEAN, SyncRegister(v, ok)
  PROVE  PInv'
<1>0. /\ vpc[v] = "register" /\ UNCHANGED <<tables, idlers, abandoned, child, inn, out, shm>>
      /\ UNCHANGED <<paths, generation>>
  BY Zenon DEF SyncRegister, tables
<1>1. /\ own[v] \in Procs /\ own[v] # None /\ CoordInv(v) /\ CoordType /\ ProcType
      /\ TaskInv /\ child[own[v]] # "unborn" /\ vtask[v] \in Tasks
      /\ Quiet(own[v]) /\ tpc[vtask[v]] = "running" /\ Target[vtask[v]] \in Names
      /\ reg[v] # None /\ reg[v] \in seen[vtask[v]] /\ Copy(Target[vtask[v]], reg[v])
      /\ \A n \in Names : HoldInv(own[v], n)
  BY Zenon, <1>0, Busy DEF Working, CoordInv, Unasked
<1>2. CASE ok /\ child[own[v]] = "alive"
  <2> DEFINE n == Target[vtask[v]]
  <2>1. /\ has' = [has EXCEPT ![own[v]] = [has[own[v]] EXCEPT ![n] = reg[v]]]
        /\ known' = [known EXCEPT ![own[v]] = [known[own[v]] EXCEPT ![n] = reg[v].gen]]
        /\ vpc' = [vpc EXCEPT ![v] = "send"] /\ reg' = [reg EXCEPT ![v] = None]
        /\ UNCHANGED <<tpc, seen, vtask, own>>
    BY Zenon, <1>2 DEF SyncRegister, Goto, tasks
  <2>2. reg[v] \in RegistryEntry /\ reg[v].gen \in Nat
    BY Zenon, <1>1 DEF CoordType, Maybe, RegistryEntry
  <2>3. /\ has' \in [Procs -> [Names -> Maybe(RegistryEntry)]]
        /\ \A q \in Procs \ {own[v]} : has'[q] = has[q]
        /\ has'[own[v]][n] = reg[v]
        /\ \A m \in Names \ {n} : has'[own[v]][m] = has[own[v]][m]
    BY Zenon, <1>1, <2>1, <2>2 DEF ProcType, Maybe
  <2>4. /\ known' \in [Procs -> [Names -> Nat]]
        /\ \A q \in Procs \ {own[v]} : known'[q] = known[q]
        /\ known'[own[v]][n] = reg[v].gen
        /\ \A m \in Names \ {n} : known'[own[v]][m] = known[own[v]][m]
    BY Zenon, <1>1, <2>1, <2>2 DEF ProcType
  <2>5. \A m \in Names : HoldInv(own[v], m)'
    <3>1. ASSUME NEW m \in Names, m # n PROVE HoldInv(own[v], m)'
      <4>1. /\ HoldInv(own[v], m) /\ own'[v] = own[v] /\ paths' = paths /\ generation' = generation
            /\ has'[own[v]][m] = has[own[v]][m] /\ known'[own[v]][m] = known[own[v]][m]
        BY Zenon, <1>0, <1>1, <2>1, <2>3, <2>4, <3>1
      <4> QED BY Zenon, <4>1 DEF HoldInv, Copy
    <3>2. ASSUME NEW m \in Names, m = n PROVE HoldInv(own[v], m)'
      <4>1. /\ Copy(m, reg[v]) /\ own'[v] = own[v] /\ paths' = paths /\ generation' = generation
            /\ has'[own[v]][m] = reg[v] /\ known'[own[v]][m] = reg[v].gen
        BY Zenon, <1>0, <1>1, <2>1, <2>3, <2>4, <3>2
      <4> QED BY Zenon, <4>1 DEF HoldInv, Copy
    <3> QED BY ZenonT(40), <3>1, <3>2
  <2>6. TaskInv' /\ TaskMoves(v)
    BY Zenon, <1>0, <1>1, <2>1 DEF TaskInv, TaskMoves
  <2>7. CoordType' /\ vpc'[v] = "send"
    BY Zenon, <1>1, <2>1 DEF CoordType, Working, Maybe
  <2>8. ProcType'
    BY Zenon, <1>0, <1>1, <2>3, <2>4 DEF ProcType
  <2>9. MovesAlone(v)
    BY ZenonT(40), <1>0, <1>1, <2>1, <2>3, <2>4 DEF MovesAlone, CoordType
  <2>10. CoordInv(v)'
    BY Zenon, <1>0, <1>1, <2>1, <2>3, <2>7 DEF CoordInv, Working, Unasked, Leaving, Quiet, Maybe
  <2> QED BY Zenon, <1>0, <1>1, <2>1, <2>5, <2>6, <2>7, <2>8, <2>9, <2>10, AloneKeeps DEF Working
<1>3. CASE ~(ok /\ child[own[v]] = "alive")
  <2>1. Fail(v) /\ UNCHANGED <<has, known>>
    BY Zenon, <1>3 DEF SyncRegister
  <2> QED BY Zenon, <1>0, <1>1, <2>1, FailKeeps DEF Working
<1> QED BY Zenon, <1>2, <1>3

(* The task is sent to a process that owes nobody an answer.                 *)
LEMMA SendKeeps ==
  ASSUME PInv, NEW v \in Coordinators, Send(v)
  PROVE  PInv'
<1>0. /\ vpc[v] = "send" /\ UNCHANGED <<tables, idlers, abandoned, child, has, known, out, shm>>
      /\ UNCHANGED <<paths, generation>>
  BY Zenon DEF Send, tables
<1>1. /\ own[v] \in Procs /\ own[v] # None /\ CoordInv(v) /\ CoordType /\ ProcType
      /\ TaskInv /\ child[own[v]] # "unborn" /\ vtask[v] \in Tasks
      /\ Quiet(own[v]) /\ tpc[vtask[v]] = "running"
      /\ has[own[v]][Target[vtask[v]]] \in Maybe(seen[vtask[v]])
      /\ \A n \in Names : HoldInv(own[v], n)
  BY Zenon, <1>0, Busy DEF Working, CoordInv, Unasked
<1>2. CASE /\ inn' = [inn EXCEPT ![own[v]] = Append(@, vtask[v])]
           /\ Goto(v, "read") /\ UNCHANGED <<tasks, vtask, own, reg>>
  <2>1. /\ inn' = [inn EXCEPT ![own[v]] = Append(inn[own[v]], vtask[v])]
        /\ vpc' = [vpc EXCEPT ![v] = "read"] /\ UNCHANGED <<tpc, seen, vtask, own, reg>>
    BY Zenon, <1>2 DEF Goto, tasks
  <2>2. Append(inn[own[v]], vtask[v]) \in {<<vtask[v]>>, <<"ack", vtask[v]>>}
    <3>1. /\ Append(<<>>, vtask[v]) = <<vtask[v]>>
          /\ Append(<<"ack">>, vtask[v]) = <<"ack", vtask[v]>>
      BY ZenonT(40), <1>1, StreamFacts, "ack" \in Tasks \cup {"ack"}, vtask[v] \in Tasks \cup {"ack"}
    <3> QED BY Zenon, <1>1, <3>1 DEF Quiet
  <2>3. Asked(own[v], vtask[v])'
    BY Zenon, <1>0, <1>1, <2>1, <2>2 DEF Asked, Quiet, ProcType
  <2>4. inn' \in [Procs -> Seq(Tasks \cup {"ack"})]
    BY SMT, Z3, <1>1, <2>1 DEF ProcType
  <2>5. TaskInv' /\ TaskMoves(v)
    BY Zenon, <1>0, <1>1, <2>1 DEF TaskInv, TaskMoves
  <2>6. CoordType' /\ vpc'[v] = "read"
    BY Zenon, <1>1, <2>1 DEF CoordType, Working
  <2>7. ProcType' /\ \A n \in Names : HoldInv(own[v], n)'
    BY Zenon, <1>0, <1>1, <2>1, <2>4 DEF ProcType, HoldInv, Copy
  <2>8. MovesAlone(v)
    BY Zenon, <1>0, <1>1, <2>1 DEF MovesAlone, CoordType, ProcType
  <2>9. CoordInv(v)'
    BY Zenon, <1>0, <1>1, <2>1, <2>3, <2>6 DEF CoordInv, Working, Unasked, Leaving
  <2> QED BY Zenon, <1>0, <1>1, <2>1, <2>5, <2>6, <2>7, <2>8, <2>9, AloneKeeps DEF Working
<1>3. CASE Fail(v) /\ UNCHANGED inn
  BY Zenon, <1>0, <1>1, <1>3, FailKeeps DEF Working
<1> QED BY Zenon, <1>2, <1>3 DEF Send

(* A cancellation kills the process.                                         *)
LEMMA CancelKeeps ==
  ASSUME PInv, NEW v \in Coordinators, ReadCancelled(v)
  PROVE  PInv'
<1>1. own[v] \in Procs /\ ProcType /\ vpc[v] = "read"
  BY Zenon, Busy DEF ReadCancelled
<1>2. /\ Fail(v) /\ UNCHANGED <<tables, idlers, abandoned, has, known, inn, out>>
      /\ child' = [child EXCEPT ![own[v]] = "dead"] /\ shm' = shm \ {own[v]}
  BY Zenon DEF ReadCancelled
<1>3. child'[own[v]] = "dead"
  BY Zenon, <1>1, <1>2 DEF ProcType
<1> QED BY Zenon, <1>1, <1>2, <1>3, FailKeeps DEF Working

(* The answer is taken, or an error gives the process up.                    *)
LEMMA ReadKeeps ==
  ASSUME PInv, NEW v \in Coordinators, Read(v)
  PROVE  PInv'
<1>0. /\ vpc[v] = "read" /\ UNCHANGED <<tables, idlers, child, has, known, shm>>
      /\ UNCHANGED <<paths, generation>>
  BY Zenon DEF Read, tables
<1>1. /\ own[v] \in Procs /\ own[v] # None /\ CoordInv(v) /\ CoordType /\ ProcType
      /\ TaskInv /\ child[own[v]] # "unborn" /\ vtask[v] \in Tasks
      /\ \A n \in Names : HoldInv(own[v], n)
      /\ \/ Asked(own[v], vtask[v]) \/ Told(own[v], vtask[v])
         \/ Quiet(own[v]) /\ child[own[v]] = "dead"
  BY Zenon, <1>0, Busy DEF Working, CoordInv
<1>2. CASE /\ out[own[v]] # None /\ Done(vtask[v])
           /\ out' = [out EXCEPT ![own[v]] = None]
           /\ inn' = IF out[own[v]].shm THEN [inn EXCEPT ![own[v]] = Append(@, "ack")] ELSE inn
           /\ vtask' = [vtask EXCEPT ![v] = None] /\ Goto(v, "release")
           /\ UNCHANGED <<own, reg, abandoned>>
  <2>1. /\ Done(vtask[v]) /\ out' = [out EXCEPT ![own[v]] = None]
        /\ \/ inn' = inn \/ inn' = [inn EXCEPT ![own[v]] = Append(inn[own[v]], "ack")]
        /\ vtask' = [vtask EXCEPT ![v] = None] /\ vpc' = [vpc EXCEPT ![v] = "release"]
        /\ UNCHANGED <<own, reg, abandoned>>
    BY Zenon, <1>2 DEF Goto
  <2>2. inn[own[v]] = <<>>
    BY Zenon, <1>1, <1>2 DEF Asked, Told, Quiet
  <2>3. Append(<<>>, "ack") = <<"ack">>
    BY SMT, Z3
  <2>4. /\ Quiet(own[v])' /\ inn' \in [Procs -> Seq(Tasks \cup {"ack"})]
        /\ out' \in [Procs -> Maybe(Response)]
    <3>1. inn'[own[v]] \in {<<>>, <<"ack">>} /\ out'[own[v]] = None /\ own' = own
      BY Zenon, <1>1, <2>1, <2>2, <2>3 DEF ProcType
    <3>2. /\ <<"ack">> \in Seq(Tasks \cup {"ack"}) /\ inn[own[v]] \in Seq(Tasks \cup {"ack"})
          /\ inn' = inn \/ inn' = [inn EXCEPT ![own[v]] = <<"ack">>]
      BY SMT, Z3, <1>1, <2>1, <2>2, <2>3 DEF ProcType
    <3>3. inn' \in [Procs -> Seq(Tasks \cup {"ack"})]
      BY Zenon, <1>1, <3>2 DEF ProcType
    <3>4. out' \in [Procs -> Maybe(Response)]
      BY Zenon, <1>1, <2>1 DEF ProcType, Maybe
    <3> QED BY Zenon, <3>1, <3>3, <3>4 DEF Quiet
  <2>5. TaskInv' /\ TaskMoves(v)
    BY Zenon, <1>0, <1>1, <2>1, DoneFacts DEF TaskMoves, Working
  <2>6. CoordType' /\ vpc'[v] = "release"
    BY Zenon, <1>1, <2>1 DEF CoordType, Maybe
  <2>7. ProcType' /\ \A n \in Names : HoldInv(own[v], n)'
    BY Zenon, <1>0, <1>1, <2>1, <2>4 DEF ProcType, HoldInv, Copy
  <2>8. MovesAlone(v)
    BY Zenon, <1>0, <1>1, <2>1 DEF MovesAlone, CoordType, ProcType
  <2>9. CoordInv(v)'
    BY Zenon, <1>1, <2>1, <2>4, <2>6 DEF CoordInv, Working, Unasked, Leaving
  <2> QED BY Zenon, <1>0, <1>1, <2>1, <2>5, <2>6, <2>7, <2>8, <2>9, AloneKeeps DEF Working
<1>3. CASE /\ Fail(v) /\ UNCHANGED <<inn, out>>
           /\ abandoned' = abandoned \cup {q \in {own[v]} : child[q] = "alive"}
  <2>1. child[own[v]] = "dead" \/ own[v] \in abandoned'
    BY Zenon, <1>1, <1>3 DEF ProcType
  <2>2. abandoned \subseteq abandoned'
    BY Zenon, <1>3
  <2> QED BY Zenon, <1>0, <1>3, <2>1, <2>2, FailKeeps DEF Working
<1> QED BY Zenon, <1>2, <1>3 DEF Read

(* The segments of a process that is dropped are removed first.              *)
LEMMA DropCleanKeeps ==
  ASSUME PInv, NEW v \in Coordinators, DropClean(v)
  PROVE  PInv'
<1>0. /\ vpc[v] = "drop" /\ vpc' = [vpc EXCEPT ![v] = "kill"] /\ shm' = shm \ {own[v]}
      /\ UNCHANGED <<tables, idlers, tpc, seen, vtask, own, reg, abandoned, child, has, known, inn, out>>
      /\ UNCHANGED <<paths, generation>>
  BY Zenon DEF DropClean, Goto, tables, tasks
<1>1. /\ own[v] \in Procs /\ own[v] # None /\ CoordInv(v) /\ CoordType /\ ProcType
      /\ TaskInv /\ child[own[v]] # "unborn" /\ \A n \in Names : HoldInv(own[v], n)
  BY Zenon, <1>0, Busy
<1>2. CoordType' /\ vpc'[v] = "kill" /\ ProcType'
  BY Zenon, <1>0, <1>1 DEF CoordType, ProcType, Leaving
<1>3. TaskInv' /\ TaskMoves(v) /\ \A n \in Names : HoldInv(own[v], n)'
  BY Zenon, <1>0, <1>1 DEF TaskInv, TaskMoves, HoldInv, Copy
<1>4. MovesAlone(v)
  BY SMT, Z3, <1>0, <1>1 DEF MovesAlone, CoordType
<1>5. CoordInv(v)'
  BY Zenon, <1>0, <1>1, <1>2 DEF CoordInv, Working, Unasked, Leaving, Quiet
<1> QED BY Zenon, <1>0, <1>1, <1>2, <1>3, <1>4, <1>5, AloneKeeps DEF Working

(* A worker put back at the end of the pool.                                 *)
LEMMA AppendFacts ==
  ASSUME NEW S, NEW s \in Seq(S), NEW x \in S, NEW r, r = Append(s, x)
  PROVE  /\ r \in Seq(S) /\ Len(r) = Len(s) + 1 /\ Len(s) \in Nat
         /\ r[Len(s) + 1] = x /\ \A j \in 1..Len(s) : r[j] = s[j]
BY SMT, Z3

(* Tables, tasks and what processes hold are left alone.                     *)
LEMMA StillHeld ==
  ASSUME PInv, UNCHANGED <<tables, tpc, seen, child, has, known, inn, out, shm>>
  PROVE  TableInv' /\ TaskInv' /\ ProcType' /\ Copies'
<1>1. UNCHANGED <<paths, generation>> /\ ProcType'
  BY Zenon DEF PInv, ProcType, tables
<1> QED BY Zenon, <1>1, TableFrame, TaskFrame, CopiesFrame DEF PInv

(* A worker goes back to the pool, or is dropped.                            *)
LEMMA ReleaseKeeps ==
  ASSUME PInv, NEW v \in Coordinators, Release(v)
  PROVE  PInv'
<1> DEFINE p == own[v]
<1>0. /\ vpc[v] = "release" /\ UNCHANGED <<tables, tpc, seen, child, has, known, inn, out, shm>>
      /\ UNCHANGED <<vtask, reg, abandoned, victims, shutdown, paths, generation>>
  BY Zenon DEF Release, tables, tasks, procs
<1>1. /\ own[v] \in Procs /\ own[v] # None /\ CoordInv(v) /\ CoordType /\ ProcType
      /\ TaskInv /\ child[own[v]] # "unborn" /\ Quiet(own[v])
      /\ \A n \in Names : HoldInv(own[v], n)
  BY Zenon, <1>0, Busy DEF CoordInv, Unasked
<1>2. CASE UNCHANGED <<pool, own>> /\ vpc' = [vpc EXCEPT ![v] = "drop"]
  <2>1. CoordType' /\ vpc'[v] = "drop"
    BY Zenon, <1>0, <1>1, <1>2 DEF CoordType, Leaving
  <2>2. TaskMoves(v) /\ \A n \in Names : HoldInv(own[v], n)'
    BY Zenon, <1>0, <1>1, <1>2 DEF TaskMoves, HoldInv, Copy
  <2>3. MovesAlone(v)
    BY Zenon, <1>0, <1>1, <1>2 DEF MovesAlone, CoordType, idlers
  <2>4. CoordInv(v)'
    BY Zenon, <1>0, <1>1, <1>2, <2>1 DEF CoordInv, Working, Unasked, Leaving, Quiet
  <2> QED BY Zenon, <1>0, <1>1, <1>2, <2>1, <2>2, <2>3, <2>4, AloneKeeps, StillHeld DEF Working
<1>3. CASE /\ ~shutdown /\ pool' = Append(pool, p) /\ own' = [own EXCEPT ![v] = None]
           /\ vpc' = [vpc EXCEPT ![v] = "idle"]
  <2>1. /\ PoolInv /\ Owned /\ Apart /\ Coords
    BY Zenon DEF PInv
  <2>2. /\ pool' \in Seq(Procs) /\ Len(pool') = Len(pool) + 1 /\ Len(pool) \in Nat
        /\ pool'[Len(pool) + 1] = p /\ \A j \in 1..Len(pool) : pool'[j] = pool[j]
    BY SMT, Z3, <1>1, <1>3, <2>1, AppendFacts DEF PoolInv
  <2>3. /\ CoordType' /\ vpc'[v] = "idle" /\ own'[v] = None
        /\ \A w \in Coordinators \ {v} : vpc'[w] = vpc[w] /\ own'[w] = own[w]
    BY Zenon, <1>0, <1>1, <1>3 DEF CoordType, Maybe
  <2>4. \A w \in Coordinators \ {v} : own[w] # p
    BY Zenon, <1>1, <2>1 DEF Apart
  <2>5. Coords'
    <3> SUFFICES ASSUME NEW w \in Coordinators PROVE CoordInv(w)'
      BY Zenon DEF Coords
    <3>1. CASE w = v
      BY Zenon, <1>0, <2>3, <3>1 DEF CoordInv, Working, Unasked, Leaving
    <3>2. CASE w # v
      <4>1. CoordInv(w) /\ vpc[w] \in {"idle", "release"} \cup Working \cup Leaving
        BY Zenon, <1>1, <2>1 DEF Coords, CoordType
      <4>2. CoordSame(w)
        BY Zenon, <1>0, <2>3, <3>2 DEF CoordSame
      <4> QED BY Zenon, <4>1, <4>2, CoordFrame
    <3> QED BY Zenon, <3>1, <3>2
  <2>6. \A q : Waits(q)' <=> Waits(q) \/ q = p
    BY SMT, Z3, <2>2 DEF Waits
  <2>7. Owned'
    <3> SUFFICES ASSUME NEW q \in Procs PROVE OwnerInv(q)'
      BY Zenon DEF Owned
    <3>1. OwnerInv(q)
      BY Zenon, <2>1 DEF Owned
    <3>2. (\E w \in Coordinators : own[w] = q) => (\E w \in Coordinators : own'[w] = q) \/ q = p
      BY Zenon, <2>3
    <3>3. q \in Procs => \A w \in Coordinators : own[w] # q => own'[w] # q
      BY Zenon, <2>3, PluginsAssumption
    <3> QED BY Zenon, <1>0, <1>1, <2>6, <3>1, <3>2, <3>3 DEF OwnerInv, Quiet
  <2>8. Apart'
    BY ZenonT(40), <1>0, <2>1, <2>3 DEF Apart, Working
  <2>9. p \notin victims /\ \A j \in 1..Len(pool) : pool[j] # p /\ pool[j] \in Procs
    BY SMT, Z3, <2>1 DEF PoolInv
  <2>10. \A i, j \in 1..Len(pool') : pool'[i] = pool'[j] => i = j
    BY SMT, Z3, <2>1, <2>2, <2>9 DEF PoolInv
  <2>11. \A i \in 1..Len(pool') : /\ pool'[i] \notin victims /\ Quiet(pool'[i])
                                  /\ \A w \in Coordinators : own'[w] # pool'[i]
    <3> SUFFICES ASSUME NEW i \in 1..Len(pool')
                 PROVE  /\ pool'[i] \notin victims /\ Quiet(pool'[i])
                        /\ \A w \in Coordinators : own'[w] # pool'[i]
      BY Zenon
    <3>1. CASE i = Len(pool) + 1
      BY SMT, Z3, <1>1, <2>2, <2>3, <2>4, <2>9, <3>1
    <3>2. CASE i \in 1..Len(pool)
      BY SMT, Z3, <2>1, <2>2, <2>3, <2>9, <3>2, PluginsAssumption DEF PoolInv
    <3> QED BY SMT, Z3, <2>2, <3>1, <3>2
  <2>12. PoolInv'
    <3>1. \A q : Quiet(q) => Quiet(q)'
      BY Zenon, <1>0 DEF Quiet
    <3>2. \A q \in victims : Quiet(q) /\ \A w \in Coordinators : own'[w] # q
      BY Zenon, <2>1, <2>3, PluginsAssumption DEF PoolInv
    <3>3. victims \subseteq Procs /\ shutdown \in BOOLEAN
      BY Zenon, <2>1 DEF PoolInv
    <3> QED BY Zenon, <1>0, <2>2, <2>10, <2>11, <3>1, <3>2, <3>3 DEF PoolInv, Quiet
  <2>13. DownInv'
    BY Zenon, <1>0, <1>3 DEF DownInv
  <2> QED BY Zenon, <1>0, <2>3, <2>5, <2>7, <2>8, <2>12, <2>13, StillHeld DEF PInv
<1>4. own' = [own EXCEPT ![v] = own[v]] => own' = own
  BY Zenon, <1>1 DEF CoordType
<1> QED BY Zenon, <1>2, <1>3, <1>4 DEF Release, Goto

(* Processes that are dropped: dead, with nothing on their streams.          *)
LEMMA ForgetFacts ==
  ASSUME PInv, NEW S \in SUBSET Procs, Forget(S), UNCHANGED tables,
         shm' \subseteq shm
  PROVE  /\ TableInv' /\ ProcType' /\ Copies' /\ UNCHANGED <<paths, generation>>
         /\ \A p \in S : child'[p] = "dead" /\ Quiet(p)'
         /\ \A p \in Procs \ S : /\ child'[p] = child[p] /\ has'[p] = has[p]
                                 /\ inn'[p] = inn[p] /\ out'[p] = out[p]
<1>0. UNCHANGED <<paths, generation>>
  BY Zenon DEF tables
<1>1. ProcType /\ Copies /\ TableInv
  BY Zenon DEF PInv
<1>2. TableInv'
  BY Zenon, <1>1, TableFrame
<1>3. /\ child' \in [Procs -> {"unborn", "alive", "dead"}]
      /\ has' \in [Procs -> [Names -> Maybe(RegistryEntry)]]
      /\ known' \in [Procs -> [Names -> Nat]]
  BY Zenon, <1>1 DEF ProcType, Forget, Maybe
<1>4. <<>> \in Seq(Tasks \cup {"ack"})
  BY SMT, Z3
<1>5. inn' \in [Procs -> Seq(Tasks \cup {"ack"})] /\ out' \in [Procs -> Maybe(Response)]
  BY Zenon, <1>1, <1>4 DEF ProcType, Forget, Maybe
<1>6. ProcType'
  BY Zenon, <1>1, <1>3, <1>5 DEF ProcType
<1>7. \A p \in S : child'[p] = "dead" /\ Quiet(p)'
  BY Zenon DEF Forget, Quiet
<1>8. \A p \in Procs \ S : /\ child'[p] = child[p] /\ has'[p] = has[p]
                           /\ inn'[p] = inn[p] /\ out'[p] = out[p]
  BY Zenon DEF Forget
<1>9. Copies'
  <2> SUFFICES ASSUME NEW p \in Procs, NEW n \in Names PROVE HoldInv(p, n)'
    BY Zenon DEF Copies
  <2>1. HoldInv(p, n)
    BY Zenon, <1>1 DEF Copies
  <2>2. CASE p \in S
    <3>1. has'[p][n] = None
      BY Zenon, <2>2 DEF Forget
    <3> QED BY Zenon, <3>1 DEF HoldInv, Copy
  <2>3. CASE p \notin S
    <3>1. has'[p] = has[p] /\ known'[p] = known[p]
      BY Zenon, <2>3 DEF Forget
    <3> QED BY Zenon, <1>0, <2>1, <3>1 DEF HoldInv, Copy
  <2> QED BY Zenon, <2>2, <2>3
<1> QED BY Zenon, <1>0, <1>2, <1>6, <1>7, <1>8, <1>9

(* The process of a coordinator is killed.                                   *)
LEMMA DropKillKeeps ==
  ASSUME PInv, NEW v \in Coordinators, DropKill(v)
  PROVE  PInv'
<1>0. /\ vpc[v] = "kill" /\ Forget({own[v]}) /\ own' = [own EXCEPT ![v] = None]
      /\ vpc' = [vpc EXCEPT ![v] = "idle"] /\ UNCHANGED <<tables, idlers>>
      /\ UNCHANGED <<tpc, seen, vtask, reg, abandoned, shm, pool, victims, shutdown>>
  BY Zenon DEF DropKill, Goto, tasks, idlers
<1>1. /\ own[v] \in Procs /\ own[v] # None /\ CoordInv(v) /\ CoordType /\ ProcType
      /\ TaskInv /\ own[v] \notin shm \ abandoned
  BY Zenon, <1>0, Busy DEF CoordInv
<1>2. PICK p \in Procs : p = own[v]
  BY Zenon, <1>1
<1>3. /\ TableInv' /\ ProcType' /\ Copies' /\ UNCHANGED <<paths, generation>>
      /\ child'[p] = "dead" /\ Quiet(p)'
      /\ \A q \in Procs \ {p} : /\ child'[q] = child[q] /\ has'[q] = has[q]
                                /\ inn'[q] = inn[q] /\ out'[q] = out[q]
  BY Zenon, <1>0, <1>2, ForgetFacts
<1>4. PoolInv /\ Owned /\ Apart /\ Coords
  BY Zenon DEF PInv
<1>5. /\ CoordType' /\ vpc'[v] = "idle" /\ own'[v] = None
      /\ \A w \in Coordinators \ {v} : vpc'[w] = vpc[w] /\ own'[w] = own[w]
  BY Zenon, <1>0, <1>1 DEF CoordType, Maybe
<1>6. \A w \in Coordinators \ {v} : own[w] # p
  BY Zenon, <1>1, <1>2, <1>4 DEF Apart
<1>7. Coords'
  <2> SUFFICES ASSUME NEW w \in Coordinators PROVE CoordInv(w)'
    BY Zenon DEF Coords
  <2>1. CASE w = v
    BY Zenon, <1>0, <1>5, <2>1 DEF CoordInv, Working, Unasked, Leaving
  <2>2. CASE w # v
    <3>1. CoordInv(w) /\ vpc[w] \in {"idle", "release"} \cup Working \cup Leaving
      BY Zenon, <1>1, <1>4 DEF Coords, CoordType
    <3>2. own[w] # None => own[w] \in Procs \ {p}
      BY Zenon, <1>1, <1>6, <2>2 DEF CoordType, Maybe
    <3>3. CoordSame(w)
      BY Zenon, <1>0, <1>3, <1>5, <2>2, <3>2 DEF CoordSame
    <3> QED BY Zenon, <3>1, <3>3, CoordFrame
  <2> QED BY Zenon, <2>1, <2>2
<1>8. Owned'
  <2> SUFFICES ASSUME NEW q \in Procs PROVE OwnerInv(q)'
    BY Zenon DEF Owned
  <2>1. CASE q = p
    BY Zenon, <1>0, <1>1, <1>2, <1>3, <2>1 DEF OwnerInv
  <2>2. CASE q # p
    <3>1. OwnerInv(q)
      BY Zenon, <1>4 DEF Owned
    <3>2. \A w \in Coordinators : own'[w] = q <=> own[w] = q
      BY Zenon, <1>2, <1>5, <2>2, PluginsAssumption
    <3>3. Quiet(q) => Quiet(q)'
      BY Zenon, <1>3, <2>2 DEF Quiet
    <3> QED BY Zenon, <1>0, <1>3, <2>2, <3>1, <3>2, <3>3 DEF OwnerInv, Waits
  <2> QED BY Zenon, <2>1, <2>2
<1>9. Apart'
  BY SMT, Z3, <1>0, <1>4, <1>5 DEF Apart, Working
<1>10. PoolInv'
  <2>1. \A q \in Procs \ {p} : Quiet(q) => Quiet(q)'
    BY Zenon, <1>3 DEF Quiet
  <2>2. /\ \A i \in 1..Len(pool) : pool[i] \in Procs \ {p}
        /\ \A q \in victims : q \in Procs \ {p}
    BY SMT, Z3, <1>2, <1>4 DEF PoolInv
  <2>3. \A q \in Procs, w \in Coordinators : own[w] # q => own'[w] # q
    BY Zenon, <1>5, PluginsAssumption
  <2> QED BY ZenonT(40), <1>0, <1>4, <2>1, <2>2, <2>3 DEF PoolInv
<1>11. DownInv' /\ TaskInv'
  BY Zenon, <1>0, <1>1, <1>3 DEF PInv, DownInv, TaskInv
<1> QED BY Zenon, <1>3, <1>5, <1>7, <1>8, <1>9, <1>10, <1>11 DEF PInv

(* A task that no coordinator has moves.                                     *)
LEMMA TaskKeeps ==
  ASSUME PInv, NEW t \in Tasks, tpc[t] # "running", TaskInv',
         \A s \in Tasks \ {t} : tpc'[s] = tpc[s] /\ seen'[s] = seen[s],
         shutdown => tpc'[t] # "queued",
         UNCHANGED <<tables, coords, procs, idlers>>
  PROVE  PInv'
<1> USE DEF coords, procs, idlers
<1>0. UNCHANGED <<paths, generation>>
  BY Zenon DEF tables
<1>1. TableInv' /\ ProcType' /\ CoordType' /\ Apart' /\ Copies'
  BY Zenon, <1>0, TableFrame, FieldsFrame, CopiesFrame DEF PInv, ProcType
<1>2. Coords'
  <2> SUFFICES ASSUME NEW w \in Coordinators PROVE CoordInv(w)'
    BY Zenon DEF Coords
  <2>1. CoordInv(w) /\ vpc[w] \in {"idle", "release"} \cup Working \cup Leaving
    BY Zenon DEF PInv, Coords, CoordType
  <2>2. vpc[w] \in Working => vtask[w] \in Tasks \ {t}
    BY Zenon, <2>1 DEF CoordInv
  <2>3. CoordSame(w)
    BY Zenon, <1>0, <2>2 DEF CoordSame
  <2> QED BY Zenon, <2>1, <2>3, CoordFrame
<1>3. Owned' /\ PoolInv'
  BY Zenon, OwnersFrame DEF PInv
<1>4. DownInv'
  BY Zenon DEF PInv, DownInv
<1> QED BY Zenon, <1>1, <1>2, <1>3, <1>4 DEF PInv

(* A task is accepted.                                                       *)
LEMMA SubmitKeeps ==
  ASSUME PInv, NEW t \in Tasks, SubmitTask(t)
  PROVE  PInv'
<1>1. TaskInv /\ paths \in [Names -> Maybe(RegistryEntry)] /\ Target[t] \in Names
  BY Zenon, PluginsAssumption DEF PInv, TableInv, TableType
<1>2. TaskInv'
  BY ZenonT(40), <1>1 DEF SubmitTask, tables, TaskInv, Accepted
<1>3. \A s \in Tasks \ {t} : tpc'[s] = tpc[s] /\ seen'[s] = seen[s]
  BY Zenon, <1>1 DEF SubmitTask, TaskInv
<1> QED BY Zenon, <1>2, <1>3, TaskKeeps DEF SubmitTask

(* The process does not start: the task ends.                                *)
LEMMA SpawnFailsKeeps ==
  ASSUME PInv, NEW v \in Coordinators, SpawnFails(v)
  PROVE  PInv'
<1>0. /\ vpc[v] = "spawn" /\ Done(vtask[v]) /\ vtask' = [vtask EXCEPT ![v] = None]
      /\ vpc' = [vpc EXCEPT ![v] = "idle"]
      /\ UNCHANGED <<tables, child, has, known, inn, out, shm, idlers, own, reg, abandoned>>
      /\ UNCHANGED <<paths, generation, pool, victims, shutdown>>
  BY Zenon DEF SpawnFails, Goto, tables, procs, idlers
<1>1. /\ TaskInv /\ CoordType /\ Coords /\ CoordInv(v) /\ Apart
  BY Zenon DEF PInv, Coords
<1>2. vtask[v] \in Tasks /\ own[v] = None
  BY Zenon, <1>0, <1>1 DEF CoordInv, Working
<1>3. TaskInv' /\ \A s \in Tasks \ {vtask[v]} : tpc'[s] = tpc[s] /\ seen'[s] = seen[s]
  BY Zenon, <1>0, <1>1, <1>2, DoneFacts
<1>4. /\ CoordType' /\ vpc'[v] = "idle"
      /\ \A w \in Coordinators \ {v} : vpc'[w] = vpc[w] /\ vtask'[w] = vtask[w]
  BY Zenon, <1>0, <1>1 DEF CoordType, Maybe
<1>5. Coords'
  <2> SUFFICES ASSUME NEW w \in Coordinators PROVE CoordInv(w)'
    BY Zenon DEF Coords
  <2>1. CASE w = v
    BY Zenon, <1>0, <1>2, <1>4, <2>1 DEF CoordInv, Working, Unasked, Leaving
  <2>2. CASE w # v
    <3>1. CoordInv(w) /\ vpc[w] \in {"idle", "release"} \cup Working \cup Leaving
      BY Zenon, <1>1 DEF Coords, CoordType
    <3>2. vpc[w] \in Working => vtask[w] \in Tasks \ {vtask[v]}
      BY Zenon, <1>0, <1>1, <2>2, <3>1 DEF Apart, CoordInv, Working
    <3>3. CoordSame(w)
      BY Zenon, <1>0, <1>3, <1>4, <2>2, <3>2 DEF CoordSame
    <3> QED BY Zenon, <3>1, <3>3, CoordFrame
  <2> QED BY Zenon, <2>1, <2>2
<1>6. Apart'
  BY SMT, Z3, <1>0, <1>1, <1>4 DEF Apart, Working
<1>7. TableInv' /\ Copies' /\ Owned' /\ PoolInv'
  BY Zenon, <1>0, TableFrame, CopiesFrame, OwnersFrame DEF PInv
<1>8. ProcType'
  BY Zenon, <1>0 DEF PInv, ProcType
<1>9. DownInv'
  BY Zenon, <1>0 DEF PInv, DownInv
<1> QED BY Zenon, <1>3, <1>4, <1>5, <1>6, <1>7, <1>8, <1>9 DEF PInv

(* A process that has never run is started.                                  *)
LEMMA SpawnKeeps ==
  ASSUME PInv, NEW v \in Coordinators, NEW p \in Procs, Spawn(v, p)
  PROVE  PInv'
<1>0. /\ vpc[v] = "spawn" /\ child[p] = "unborn" /\ child' = [child EXCEPT ![p] = "alive"]
      /\ own' = [own EXCEPT ![v] = p] /\ Copied(p, Wasms)
      /\ vpc' = [vpc EXCEPT ![v] = "copy"]
      /\ UNCHANGED <<tables, tpc, seen, pool, victims, shutdown, vtask, reg, abandoned, inn, out, shm>>
      /\ UNCHANGED <<paths, generation>>
  BY Zenon DEF Spawn, Goto, tables, tasks, idlers
<1>1. /\ TaskInv /\ CoordType /\ Coords /\ CoordInv(v) /\ Apart /\ ProcType /\ Copies
      /\ Owned /\ OwnerInv(p) /\ PoolInv
  BY Zenon DEF PInv, Coords, Owned
<1>2. /\ Quiet(p) /\ p \notin shm /\ ~Waits(p) /\ p \notin victims
      /\ \A w \in Coordinators : own[w] # p
  BY Zenon, <1>0, <1>1 DEF OwnerInv
<1>3. /\ has' \in [Procs -> [Names -> Maybe(RegistryEntry)]]
      /\ known' \in [Procs -> [Names -> Nat]]
      /\ \A q \in Procs \ {p} : has'[q] = has[q] /\ known'[q] = known[q]
      /\ \A n \in Names : HoldInv(p, n)'
  BY Zenon, <1>0, CopiedFacts
<1>4. /\ child' \in [Procs -> {"unborn", "alive", "dead"}] /\ child'[p] = "alive"
      /\ \A q \in Procs \ {p} : child'[q] = child[q]
  BY Zenon, <1>0, <1>1 DEF ProcType
<1>5. ProcType' /\ TaskInv'
  BY ZenonT(40), <1>0, <1>1, <1>3, <1>4 DEF ProcType, TaskInv
<1>6. Copies'
  <2> SUFFICES ASSUME NEW q \in Procs, q # p, NEW n \in Names PROVE HoldInv(q, n)'
    BY Zenon, <1>3 DEF Copies
  <2> QED BY SMT, Z3, <1>0, <1>1, <1>3 DEF Copies, HoldInv, Copy
<1>7. /\ CoordType' /\ vpc'[v] = "copy" /\ own'[v] = p
      /\ \A w \in Coordinators \ {v} : vpc'[w] = vpc[w] /\ own'[w] = own[w]
  BY Zenon, <1>0, <1>1 DEF CoordType, Maybe, Working
<1>8. \A q : Quiet(q) => Quiet(q)'
  BY Zenon, <1>0 DEF Quiet
<1>9. Coords'
  <2> SUFFICES ASSUME NEW w \in Coordinators PROVE CoordInv(w)'
    BY Zenon DEF Coords
  <2>1. CASE w = v
    <3>1. own'[v] # None /\ vtask[v] \in Tasks /\ tpc[vtask[v]] = "running"
      BY Zenon, <1>0, <1>1, <1>7, PluginsAssumption DEF CoordInv, Working
    <3>2. Quiet(own[v])'
      BY Zenon, <1>0, <1>2, <1>7 DEF Quiet
    <3> QED BY Zenon, <1>0, <1>7, <2>1, <3>1, <3>2 DEF CoordInv, Working, Unasked, Leaving
  <2>2. CASE w # v
    <3>1. CoordInv(w) /\ vpc[w] \in {"idle", "release"} \cup Working \cup Leaving
      BY Zenon, <1>1 DEF Coords, CoordType
    <3>2. own[w] # None => own[w] \in Procs \ {p}
      BY Zenon, <1>1, <1>2 DEF CoordType, Maybe
    <3>3. CoordSame(w)
      BY Zenon, <1>0, <1>3, <1>4, <1>7, <2>2, <3>2 DEF CoordSame
    <3> QED BY Zenon, <3>1, <3>3, CoordFrame
  <2> QED BY Zenon, <2>1, <2>2
<1>10. Owned'
  <2> SUFFICES ASSUME NEW q \in Procs PROVE OwnerInv(q)'
    BY Zenon DEF Owned
  <2>1. CASE q = p
    BY Zenon, <1>4, <1>7, <2>1 DEF OwnerInv
  <2>2. CASE q # p
    <3>1. OwnerInv(q)
      BY Zenon, <1>1 DEF Owned
    <3>2. own[v] = None
      BY Zenon, <1>0, <1>1 DEF CoordInv
    <3>3. \A w \in Coordinators : own'[w] = q <=> own[w] = q
      BY Zenon, <1>7, <2>2, <3>2, PluginsAssumption
    <3> QED BY Zenon, <1>0, <1>4, <1>8, <2>2, <3>1, <3>3 DEF OwnerInv, Waits
  <2> QED BY Zenon, <2>1, <2>2
<1>11. Apart'
  BY SMT, Z3, <1>0, <1>1, <1>2, <1>7 DEF Apart, Working
<1>12. PoolInv'
  <2>1. \A q : Waits(q) \/ q \in victims => q # p
    BY Zenon, <1>2
  <2>2. \A w \in Coordinators : own'[w] = own[w] \/ own'[w] = p
    BY Zenon, <1>7
  <2> QED BY Zenon, <1>0, <1>1, <1>8, <2>1, <2>2, PoolFrame
<1>13. DownInv'
  BY Zenon, <1>0 DEF PInv, DownInv
<1>14. TableInv'
  BY Zenon, <1>0, TableFrame DEF PInv
<1> QED BY Zenon, <1>5, <1>6, <1>7, <1>9, <1>10, <1>11, <1>12, <1>13, <1>14 DEF PInv

(* A coordinator takes a task, and the last idle worker that is alive; the   *)
(* dead ones behind it are dropped.                                          *)
LEMMA TakeWorkerKeeps ==
  ASSUME PInv, NEW v \in Coordinators, NEW t \in Tasks, vpc[v] = "idle", tpc[t] = "queued",
         ~shutdown, tpc' = [tpc EXCEPT ![t] = "running"], vtask' = [vtask EXCEPT ![v] = t],
         NEW i \in 0..Len(pool), LastAlive(i), TakeWorker(v, i),
         UNCHANGED <<tables, seen, reg, abandoned, victims, shutdown>>
  PROVE  PInv'
<1> DEFINE dropped == {pool[j] : j \in (i + 1)..Len(pool)}
<1> DEFINE p == IF i = 0 THEN None ELSE pool[i]
<1>1. /\ TaskInv /\ CoordType /\ Coords /\ CoordInv(v) /\ Apart /\ Owned /\ PoolInv
  BY Zenon DEF PInv, Coords
<1>2. /\ pool \in Seq(Procs) /\ Len(pool) \in Nat
      /\ \A j, k \in 1..Len(pool) : pool[j] = pool[k] => j = k
      /\ \A j \in 1..Len(pool) : /\ pool[j] \in Procs /\ pool[j] \notin victims
                                 /\ Quiet(pool[j]) /\ \A w \in Coordinators : own[w] # pool[j]
      /\ \A q \in victims : q \in Procs /\ Quiet(q) /\ \A w \in Coordinators : own[w] # q
      /\ victims \subseteq Procs
  BY Zenon, <1>1, PoolFacts
<1>3. own[v] = None
  BY Zenon, <1>1 DEF CoordInv
<1>4. /\ pool' = [j \in 1..(i - 1) |-> pool[j]] /\ Forget(dropped) /\ shm' = shm \ dropped
      /\ own' = [own EXCEPT ![v] = p]
      /\ vpc' = [vpc EXCEPT ![v] = IF i = 0 THEN "spawn" ELSE "sync"]
  BY Zenon DEF TakeWorker, Goto
<1>5. /\ pool' \in Seq(Procs) /\ Len(pool') <= Len(pool)
      /\ \A j \in 1..Len(pool') : j \in 1..Len(pool) /\ j < i /\ pool'[j] = pool[j]
      /\ \A j \in 1..Len(pool) : j < i => j \in 1..Len(pool')
  <2>1. CASE i = 0
    <3>1. pool' = <<>>
      BY SMT, Z3, <1>4, <2>1
    <3> QED BY SMT, Z3, <1>2, <2>1, <3>1
  <2>2. CASE i > 0
    <3>1. i - 1 \in Nat /\ \A j \in 1..(i - 1) : pool[j] \in Procs
      BY SMT, Z3, <1>2, <2>2
    <3>2. pool' = [j \in 1..(i - 1) |-> pool[j]]
      BY Zenon, <1>4
    <3>3. pool' \in Seq(Procs) /\ Len(pool') = i - 1
      BY SMT, Z3, <3>1, <3>2
    <3>4. \A j \in 1..(i - 1) : pool'[j] = pool[j]
      BY ZenonT(40), <3>2
    <3>5. /\ \A j \in 1..(i - 1) : j \in 1..Len(pool) /\ j < i
          /\ \A j \in 1..Len(pool) : j < i => j \in 1..(i - 1)
          /\ i - 1 <= Len(pool)
      BY SMT, Z3, <1>2, <2>2
    <3> QED BY Zenon, <3>3, <3>4, <3>5
  <2> QED BY SMT, Z3, <2>1, <2>2
<1>6. /\ dropped \subseteq Procs /\ dropped \cap victims = {}
      /\ \A w \in Coordinators : own[w] \notin dropped
      /\ \A j \in 1..Len(pool') : pool'[j] \notin dropped
      /\ i # 0 => p \in Procs /\ p \notin dropped /\ p \notin victims /\ Quiet(p)
      /\ i = 0 => p = None
  <2>1. \A q \in dropped : \E j \in 1..Len(pool) : j > i /\ q = pool[j]
    BY SMT, Z3, <1>2
  <2>2. i # 0 => i \in 1..Len(pool)
    BY SMT, Z3, <1>2
  <2>3. dropped \subseteq Procs /\ dropped \cap victims = {}
    BY SMT, Z3, <1>2, <2>1
  <2>4. \A w \in Coordinators : own[w] \notin dropped
    BY ZenonT(40), <1>2, <2>1
  <2>5. \A j \in 1..Len(pool') : pool'[j] \notin dropped
    <3> SUFFICES ASSUME NEW j \in 1..Len(pool'), pool'[j] \in dropped PROVE FALSE
      BY Zenon
    <3>1. PICK k \in 1..Len(pool) : k > i /\ pool'[j] = pool[k]
      BY Zenon, <2>1
    <3>2. j \in 1..Len(pool) /\ j < i /\ pool'[j] = pool[j]
      BY Zenon, <1>5
    <3>3. j = k
      BY Zenon, <1>2, <3>1, <3>2
    <3> QED BY SMT, Z3, <3>1, <3>2, <3>3
  <2>6. i # 0 => p \in Procs /\ p \notin dropped /\ p \notin victims /\ Quiet(p)
    BY SMT, Z3, <1>2, <2>1, <2>2
  <2> QED BY Zenon, <2>3, <2>4, <2>5, <2>6
<1>7. /\ TableInv' /\ ProcType' /\ Copies' /\ UNCHANGED <<paths, generation>>
      /\ \A q \in dropped : child'[q] = "dead" /\ Quiet(q)'
      /\ \A q \in Procs \ dropped : /\ child'[q] = child[q] /\ has'[q] = has[q]
                                    /\ inn'[q] = inn[q] /\ out'[q] = out[q]
  <2> HIDE DEF dropped
  <2>1. PICK S \in SUBSET Procs : S = dropped
    BY Zenon, <1>6
  <2> QED BY Zenon, <1>4, <2>1, ForgetFacts
<1> HIDE DEF dropped, p
<1>8. \A q \in Procs \ dropped : Quiet(q) => Quiet(q)'
  BY Zenon, <1>7 DEF Quiet
<1>9. /\ CoordType' /\ vpc'[v] = (IF i = 0 THEN "spawn" ELSE "sync") /\ own'[v] = p
      /\ vtask'[v] = t
      /\ \A w \in Coordinators \ {v} : /\ vpc'[w] = vpc[w] /\ own'[w] = own[w]
                                       /\ vtask'[w] = vtask[w]
  BY Zenon, <1>1, <1>4, <1>6 DEF CoordType, Maybe, Working
<1>10. TaskInv' /\ tpc'[t] = "running" /\ \A s \in Tasks \ {t} : tpc'[s] = tpc[s]
  BY Zenon, <1>1, <1>7 DEF TaskInv, Accepted
<1>11. \A w \in Coordinators : vpc[w] \in Working => vtask[w] \in Tasks \ {t}
  BY Zenon, <1>1 DEF Coords, CoordInv
<1>12. Coords'
  <2> SUFFICES ASSUME NEW w \in Coordinators PROVE CoordInv(w)'
    BY Zenon DEF Coords
  <2>1. CASE w = v
    <3>1. CASE i = 0
      BY Zenon, <1>6, <1>9, <1>10, <2>1, <3>1 DEF CoordInv, Working, Unasked, Leaving
    <3>2. CASE i # 0
      <4>1. own'[v] # None /\ Quiet(own[v])'
        BY Zenon, <1>6, <1>7, <1>9, <3>2, PluginsAssumption DEF Quiet
      <4> QED BY Zenon, <1>9, <1>10, <2>1, <3>2, <4>1 DEF CoordInv, Working, Unasked, Leaving
    <3> QED BY Zenon, <3>1, <3>2
  <2>2. CASE w # v
    <3>1. CoordInv(w) /\ vpc[w] \in {"idle", "release"} \cup Working \cup Leaving
      BY Zenon, <1>1 DEF Coords, CoordType
    <3>2. own[w] # None => own[w] \in Procs \ dropped
      BY Zenon, <1>1, <1>6 DEF CoordType, Maybe
    <3>3. CoordSame(w)
      BY Zenon, <1>4, <1>7, <1>9, <1>10, <1>11, <2>2, <3>2 DEF CoordSame
    <3> QED BY Zenon, <3>1, <3>3, CoordFrame
  <2> QED BY Zenon, <2>1, <2>2
<1>13. Owned'
  <2> SUFFICES ASSUME NEW q \in Procs PROVE OwnerInv(q)'
    BY Zenon DEF Owned
  <2>1. CASE q \in dropped
    <3>1. child'[q] = "dead" /\ q \notin shm'
      BY Zenon, <1>4, <1>7, <2>1
    <3> QED BY Zenon, <3>1 DEF OwnerInv
  <2>2. CASE q \notin dropped
    <3>1. OwnerInv(q) /\ child'[q] = child[q] /\ (q \in shm' <=> q \in shm)
      BY Zenon, <1>1, <1>4, <1>7, <2>2 DEF Owned
    <3>2. Waits(q)' => Waits(q)
      BY Zenon, <1>5 DEF Waits
    <3>3. Waits(q) => Waits(q)' \/ own'[v] = q
      <4> SUFFICES ASSUME NEW j \in 1..Len(pool), pool[j] = q PROVE Waits(q)' \/ own'[v] = q
        BY ZenonT(40) DEF Waits
      <4>1. j <= i
        BY SMT, Z3, <1>2, <2>2 DEF dropped
      <4>2. CASE j = i
        BY SMT, Z3, <1>2, <1>9, <4>2 DEF p
      <4>3. CASE j < i
        BY Zenon, <1>5, <4>3 DEF Waits
      <4> QED BY SMT, Z3, <1>2, <4>1, <4>2, <4>3
    <3>4. \A w \in Coordinators : own[w] = q => own'[w] = q
      BY Zenon, <1>3, <1>9, PluginsAssumption
    <3>5. \A w \in Coordinators : own'[w] = q => own[w] = q \/ Waits(q)
      <4>1. own'[v] = q => Waits(q)
        BY SMT, Z3, <1>2, <1>9, PluginsAssumption DEF p, Waits
      <4> QED BY ZenonT(40), <1>9, <4>1
    <3>6. Quiet(q) => Quiet(q)'
      BY Zenon, <1>8, <2>2
    <3>7. victims' = victims
      BY Zenon
    <3>8. child[q] = "unborn" =>
            /\ Quiet(q)' /\ q \notin shm' /\ ~Waits(q)' /\ q \notin victims'
            /\ \A w \in Coordinators : own'[w] # q
      BY Zenon, <3>1, <3>2, <3>5, <3>6, <3>7 DEF OwnerInv
    <3>9. child[q] = "alive" \/ q \in shm \ abandoned =>
            (\E w \in Coordinators : own'[w] = q) \/ Waits(q)' \/ q \in victims'
      BY ZenonT(40), <3>1, <3>3, <3>4, <3>7 DEF OwnerInv
    <3> QED BY Zenon, <3>1, <3>8, <3>9 DEF OwnerInv
  <2> QED BY Zenon, <2>1, <2>2
<1>14. \A w \in Coordinators : own[w] = p => p = None
  BY SMT, Z3, <1>2 DEF p
<1>15. Apart'
  <2> SUFFICES ASSUME NEW w \in Coordinators, NEW x \in Coordinators, w # x
               PROVE  /\ vpc'[w] \in Working /\ vpc'[x] \in Working => vtask'[w] # vtask'[x]
                      /\ own'[w] = own'[x] => own'[w] = None
    BY Zenon DEF Apart
  <2>1. CASE w # v /\ x # v
    BY SMT, Z3, <1>1, <1>9, <2>1 DEF Apart
  <2>2. CASE w = v
    BY Zenon, <1>9, <1>11, <1>14, <2>2
  <2>3. CASE x = v
    BY ZenonT(40), <1>9, <1>11, <1>14, <2>3
  <2> QED BY Zenon, <2>1, <2>2, <2>3
<1>16. PoolInv'
  <2>1. \A j, k \in 1..Len(pool') : pool'[j] = pool'[k] => j = k
    BY Zenon, <1>2, <1>5
  <2>2. \A j \in 1..Len(pool') : pool'[j] \notin victims /\ Quiet(pool[j])'
    <3> TAKE j \in 1..Len(pool')
    <3>1. PICK q \in Procs : q = pool'[j] /\ q \notin dropped /\ Quiet(q) /\ q \notin victims
      BY Zenon, <1>2, <1>5, <1>6
    <3>2. Quiet(q)'
      BY Zenon, <1>8, <3>1
    <3> QED BY Zenon, <3>1, <3>2 DEF Quiet
  <2>3. \A j \in 1..Len(pool'), w \in Coordinators : own'[w] # pool'[j]
    <3> TAKE j \in 1..Len(pool'), w \in Coordinators
    <3>1. j \in 1..Len(pool) /\ j < i /\ pool'[j] = pool[j] /\ pool[j] \in Procs
      BY ZenonT(40), <1>2, <1>5
    <3>2. pool[j] # p
      <4>1. i # 0 /\ i # j
        BY SMT, Z3, <1>2, <3>1
      <4> QED BY SMT, Z3, <1>2, <3>1, <4>1, PluginsAssumption DEF p
    <3> QED BY SMT, Z3, <1>2, <1>9, <3>1, <3>2
  <2>4. \A q \in victims : Quiet(q)' /\ \A w \in Coordinators : own'[w] # q
    BY SMT, Z3, <1>2, <1>6, <1>8, <1>9, PluginsAssumption
  <2>5. shutdown' \in BOOLEAN /\ victims' = victims
    BY Zenon, <1>1 DEF PoolInv
  <2> QED BY Zenon, <1>2, <1>5, <2>1, <2>2, <2>3, <2>4, <2>5 DEF PoolInv, Quiet
<1>17. DownInv'
  BY Zenon DEF DownInv
<1> QED BY Zenon, <1>7, <1>9, <1>10, <1>12, <1>13, <1>15, <1>16, <1>17 DEF PInv

(* A coordinator takes a task, or fails it at once.                          *)
LEMMA TakeKeeps ==
  ASSUME PInv, NEW v \in Coordinators, NEW t \in Tasks, Take(v, t)
  PROVE  PInv'
<1>1. CASE paths[Target[t]] # None /\ ~shutdown
  <2>1. PICK i \in 0..Len(pool) : LastAlive(i) /\ TakeWorker(v, i)
    BY Zenon, <1>1 DEF Take
  <2> QED BY Zenon, <1>1, <2>1, TakeWorkerKeeps DEF Take
<1>2. CASE ~(paths[Target[t]] # None /\ ~shutdown)
  <2>1. /\ Done(t) /\ tpc[t] = "queued" /\ UNCHANGED <<tables, coords, procs, idlers, paths>>
    BY Zenon, <1>2 DEF Take, coords, idlers, tables
  <2>2. TaskInv' /\ \A s \in Tasks \ {t} : tpc'[s] = tpc[s] /\ seen'[s] = seen[s]
    BY Zenon, <2>1, DoneFacts DEF PInv
  <2>3. tpc'[t] = "done"
    BY Zenon, <2>1 DEF Done, PInv, TaskInv
  <2> QED BY Zenon, <2>1, <2>2, <2>3, TaskKeeps
<1> QED BY Zenon, <1>1, <1>2
-----------------------------------------------------------------------------
(* A step of a worker process, for its owner to account for.                 *)
LEMMA ChildFrame ==
  ASSUME PInv, NEW p \in Procs, child[p] = "alive", child'[p] # "unborn",
         UNCHANGED <<tables, tpc, seen, coords, idlers, known>>,
         \A q \in Procs \ {p} : /\ child'[q] = child[q] /\ has'[q] = has[q]
                                /\ inn'[q] = inn[q] /\ out'[q] = out[q]
                                /\ q \in shm' <=> q \in shm,
         ProcType', \A n \in Names : HoldInv(p, n)', Quiet(p) => Quiet(p)',
         \A v \in Coordinators : own[v] = p => CoordInv(v)'
  PROVE  PInv'
<1> USE DEF coords, idlers
<1>0. /\ UNCHANGED <<paths, generation, vpc, vtask, own, reg, abandoned, pool, victims, shutdown>>
      /\ Owned /\ Coords /\ CoordType /\ Copies /\ PoolInv /\ TaskInv /\ TableInv
      /\ \A q \in Procs : Quiet(q) => Quiet(q)'
  BY Zenon DEF PInv, tables, Quiet
<1>1. TableInv' /\ TaskInv' /\ CoordType' /\ Apart'
  BY ZenonT(40), <1>0, TableFrame, TaskFrame, FieldsFrame DEF PInv
<1>2. DownInv'
  <2>1. DownInv /\ shutdown' = shutdown /\ pool' = pool /\ vpc' = vpc /\ tpc' = tpc
    BY Zenon, <1>0 DEF PInv
  <2> HIDE DEF coords, idlers
  <2> QED BY SMT, Z3, Zenon, <2>1 DEF DownInv
<1>3. Copies'
  <2> SUFFICES ASSUME NEW q \in Procs, q # p, NEW n \in Names PROVE HoldInv(q, n)'
    BY Zenon DEF Copies
  <2>1. HoldInv(q, n) /\ has'[q] = has[q]
    BY Zenon, <1>0 DEF Copies
  <2> QED BY Zenon, <1>0, <2>1 DEF HoldInv, Copy
<1>4. Coords'
  <2> SUFFICES ASSUME NEW w \in Coordinators, own[w] # p PROVE CoordInv(w)'
    BY Zenon DEF Coords
  <2>1. CoordInv(w) /\ vpc[w] \in {"idle", "release"} \cup Working \cup Leaving
    BY Zenon, <1>0 DEF Coords, CoordType
  <2>2. own[w] # None => own[w] \in Procs \ {p}
    BY Zenon, <1>0 DEF CoordType, Maybe
  <2>3. CoordSame(w)
    BY Zenon, <1>0, <2>2 DEF CoordSame
  <2> QED BY Zenon, <2>1, <2>3, CoordFrame
<1>5. Owned'
  <2> SUFFICES ASSUME NEW q \in Procs PROVE OwnerInv(q)'
    BY Zenon DEF Owned
  <2>1. OwnerInv(q)
    BY Zenon, <1>0 DEF Owned
  <2>2. CASE q = p
    BY Zenon, <1>0, <2>1, <2>2 DEF OwnerInv, Waits
  <2>3. CASE q # p
    BY Zenon, <1>0, <2>1, <2>3 DEF OwnerInv, Waits
  <2> QED BY Zenon, <2>2, <2>3
<1>6. PoolInv'
  <2>1. \A w \in Coordinators : own'[w] = own[w]
    BY Zenon, <1>0
  <2> QED BY Zenon, <1>0, <2>1, PoolFrame
<1> QED BY Zenon, <1>1, <1>2, <1>3, <1>4, <1>5, <1>6 DEF PInv

(* The coordinators of a process that is alive.                              *)
LEMMA OwnerFacts ==
  ASSUME PInv, NEW p \in Procs, child[p] = "alive", NEW v \in Coordinators, own[v] = p
  PROVE  /\ CoordInv(v) /\ p # None /\ vpc[v] \notin {"idle", "spawn"}
         /\ \/ Quiet(p)
            \/ (vpc[v] = "read" /\ vtask[v] \in Tasks
                /\ (Asked(p, vtask[v]) \/ Told(p, vtask[v])))
            \/ (vpc[v] \in Leaving /\ p \in abandoned)
<1>1. CoordInv(v) /\ CoordType /\ p # None
  BY Zenon, PluginsAssumption DEF PInv, Coords
<1>2. vpc[v] \in {"idle"} \cup Working \cup {"release"} \cup Leaving
  BY Zenon, <1>1 DEF CoordType
<1> QED BY Zenon, <1>1, <1>2 DEF CoordInv, Working, Unasked, Leaving

(* Of a process it has given up, a coordinator asks nothing any more.        *)
LEMMA AbandonedKeeps ==
  ASSUME NEW v \in Coordinators, CoordInv(v), vpc[v] \in Leaving, own[v] \in abandoned,
         UNCHANGED <<vpc, own, abandoned>>
  PROVE  CoordInv(v)'
BY Zenon DEF CoordInv, Working, Unasked, Leaving

(* A process that has been sent a task owes an answer.                       *)
LEMMA AskedNotQuiet ==
  ASSUME NEW p, NEW t \in Tasks, Asked(p, t)
  PROVE  ~Quiet(p)
<1>1. t # "ack"
  BY Zenon, PluginsAssumption
<1>2. Head(<<t>>) = t /\ Head(<<"ack">>) = "ack" /\ <<t>> # <<>>
  BY SMT, Z3
<1>3. Len(<<"ack", t>>) = 2 /\ Len(<<"ack">>) = 1 /\ Len(<<>>) = 0
  BY Zenon
<1>4. <<t>> \notin {<<>>, <<"ack">>}
  BY Zenon, <1>1, <1>2
<1>5. <<"ack", t>> \notin {<<>>, <<"ack">>}
  BY Zenon, <1>3
<1> QED BY Zenon, <1>4, <1>5 DEF Asked, Quiet

(* A process that serves a task has a coordinator that waits for its answer, *)
(* or that has given it up.                                                  *)
LEMMA ServingFacts ==
  ASSUME PInv, NEW p \in Procs, Serving(p)
  PROVE  /\ ~Quiet(p)
         /\ \A v \in Coordinators : own[v] = p =>
              /\ CoordInv(v)
              /\ \/ /\ vpc[v] = "read" /\ vtask[v] \in Tasks /\ Asked(p, vtask[v])
                    /\ Head(inn[p]) = vtask[v] /\ Tail(inn[p]) = <<>>
                 \/ vpc[v] \in Leaving /\ p \in abandoned
<1>0. child[p] = "alive" /\ inn[p] # <<>> /\ Head(inn[p]) \in Tasks
  BY Zenon DEF Serving
<1>1. Head(<<"ack">>) = "ack"
  BY SMT, Z3
<1>2. ~Quiet(p)
  BY Zenon, <1>0, <1>1, PluginsAssumption DEF Quiet
<1>3. ASSUME NEW w \in Coordinators, own[w] = p
      PROVE  /\ CoordInv(w)
             /\ \/ /\ vpc[w] = "read" /\ vtask[w] \in Tasks /\ Asked(p, vtask[w])
                   /\ Head(inn[p]) = vtask[w] /\ Tail(inn[p]) = <<>>
                \/ vpc[w] \in Leaving /\ p \in abandoned
  <2>1. /\ CoordInv(w)
        /\ \/ (vpc[w] = "read" /\ vtask[w] \in Tasks
               /\ (Asked(p, vtask[w]) \/ Told(p, vtask[w])))
           \/ (vpc[w] \in Leaving /\ p \in abandoned)
    BY Zenon, <1>0, <1>2, <1>3, OwnerFacts
  <2>2. CASE vpc[w] = "read" /\ vtask[w] \in Tasks /\ (Asked(p, vtask[w]) \/ Told(p, vtask[w]))
    <3>1. Asked(p, vtask[w])
      BY Zenon, <1>0, <2>2 DEF Told
    <3>2. PICK t \in Tasks : t = vtask[w]
      BY Zenon, <2>2
    <3>3. /\ Head(<<t>>) = t /\ Tail(<<t>>) = <<>> /\ Head(<<"ack", t>>) = "ack"
      BY Zenon, StreamFacts, t \in Tasks \cup {"ack"}, "ack" \in Tasks \cup {"ack"}
    <3>4. inn[p] = <<t>>
      BY Zenon, <1>0, <3>1, <3>2, <3>3, PluginsAssumption DEF Asked
    <3> QED BY Zenon, <2>1, <2>2, <3>1, <3>2, <3>3, <3>4
  <2> QED BY Zenon, <2>1, <2>2
<1> QED BY Zenon, <1>2, <1>3

(* The process writes a segment.                                             *)
LEMMA SegmentKeeps ==
  ASSUME PInv, NEW p \in Procs, ChildSegment(p)
  PROVE  PInv'
<1>0. /\ Serving(p) /\ child[p] = "alive" /\ shm' = shm \cup {p}
      /\ UNCHANGED <<tables, tpc, seen, coords, idlers, child, has, known, inn, out>>
      /\ UNCHANGED <<paths, generation, vpc, vtask, own, reg, abandoned>>
  BY Zenon DEF ChildSegment, Serving, tasks, tables, coords
<1>1. ProcType /\ Copies
  BY Zenon DEF PInv
<1>2. ProcType' /\ (\A n \in Names : HoldInv(p, n)') /\ (Quiet(p) => Quiet(p)')
  BY Zenon, <1>0, <1>1 DEF ProcType, Copies, HoldInv, Copy, Quiet
<1>3. ASSUME NEW v \in Coordinators, own[v] = p PROVE CoordInv(v)'
  <2>1. CoordInv(v) /\ (vpc[v] = "read" \/ (vpc[v] \in Leaving /\ own[v] \in abandoned))
    BY Zenon, <1>0, <1>3, ServingFacts
  <2>2. CASE vpc[v] = "read"
    BY Zenon, <1>0, <2>1, <2>2 DEF CoordInv, Working, Unasked, Leaving, Asked, Told, Quiet, Maybe
  <2>3. CASE vpc[v] \in Leaving /\ own[v] \in abandoned
    BY Zenon, <1>0, <2>1, <2>3, AbandonedKeeps
  <2> QED BY Zenon, <2>1, <2>2, <2>3
<1> QED BY Zenon, <1>0, <1>2, <1>3, ChildFrame

(* The process answers its task, with what it holds of the task's name.      *)
LEMMA RespondKeeps ==
  ASSUME PInv, NEW p \in Procs, ChildRespond(p)
  PROVE  PInv'
<1>1. ProcType /\ Copies
  BY Zenon DEF PInv
<1>2. PICK t \in Tasks :
        /\ ~Quiet(p) /\ Head(inn[p]) = t /\ inn[p] # <<>>
        /\ \A v \in Coordinators : own[v] = p =>
             /\ CoordInv(v)
             /\ \/ vpc[v] = "read" /\ vtask[v] = t /\ Tail(inn[p]) = <<>>
                \/ vpc[v] \in Leaving /\ p \in abandoned
  <2>1. Serving(p) /\ Head(inn[p]) \in Tasks /\ inn[p] # <<>>
    BY Zenon DEF ChildRespond, Serving
  <2> QED BY Zenon, <2>1, ServingFacts
<1>3. PICK r : r = [task |-> t, ran |-> has[p][Target[t]], shm |-> p \in shm]
  BY Zenon
<1>4. /\ child[p] = "alive" /\ out' = [out EXCEPT ![p] = r] /\ inn' = [inn EXCEPT ![p] = Tail(inn[p])]
      /\ UNCHANGED <<tables, tpc, seen, coords, idlers, child, has, known, shm>>
      /\ UNCHANGED <<paths, generation, vpc, vtask, own, reg, abandoned>>
  BY Zenon, <1>2, <1>3 DEF ChildRespond, Serving, tasks, tables, coords
<1>5. r \in Response /\ r # None /\ r.task = t /\ r.ran = has[p][Target[t]]
  <2>1. has[p][Target[t]] \in RegistryEntry \cup {None}
    <3>1. Target[t] \in Names
      BY Zenon, PluginsAssumption
    <3> QED BY ZenonT(40), <1>1, <3>1 DEF ProcType, Maybe
  <2>2. r \in Response
    BY SMT, Z3, <1>3, <2>1 DEF Response
  <2> QED BY Zenon, <1>3, <2>2, PluginsAssumption
<1>6. /\ inn' \in [Procs -> Seq(Tasks \cup {"ack"})] /\ inn'[p] = Tail(inn[p])
      /\ \A q \in Procs \ {p} : inn'[q] = inn[q]
  <2>1. Tail(inn[p]) \in Seq(Tasks \cup {"ack"})
    BY SMT, Z3, <1>1, <1>2 DEF ProcType
  <2> QED BY Zenon, <1>1, <1>4, <2>1 DEF ProcType
<1>7. /\ out' \in [Procs -> Maybe(Response)] /\ out'[p] = r
      /\ \A q \in Procs \ {p} : out'[q] = out[q]
  BY Zenon, <1>1, <1>4, <1>5 DEF ProcType, Maybe
<1>8. ProcType' /\ (\A n \in Names : HoldInv(p, n)')
  BY ZenonT(40), <1>1, <1>4, <1>6, <1>7 DEF ProcType, Copies, HoldInv, Copy
<1>9. ASSUME NEW v \in Coordinators, own[v] = p PROVE CoordInv(v)'
  <2>1. CASE vpc[v] = "read" /\ vtask[v] = t /\ Tail(inn[p]) = <<>>
    <3>1. CoordInv(v)
      BY Zenon, <1>2, <1>9
    <3>2. has[p][Target[t]] \in Maybe(seen[t])
      BY Zenon, <1>9, <2>1, <3>1 DEF CoordInv
    <3>3. Told(own[v], vtask[v])'
      BY Zenon, <1>4, <1>5, <1>6, <1>7, <1>9, <2>1, <3>2 DEF Told
    <3> QED BY Zenon, <1>4, <2>1, <3>1, <3>3 DEF CoordInv, Working, Unasked, Leaving, Maybe
  <2>2. CASE vpc[v] \in Leaving /\ p \in abandoned
    BY Zenon, <1>2, <1>4, <1>9, <2>2, AbandonedKeeps
  <2> QED BY Zenon, <1>2, <1>9, <2>1, <2>2
<1> QED BY Zenon, <1>2, <1>4, <1>6, <1>7, <1>8, <1>9, ChildFrame

(* The process reads an acknowledgement.                                     *)
LEMMA AckKeeps ==
  ASSUME PInv, NEW p \in Procs, ChildAck(p)
  PROVE  PInv'
<1>0. /\ child[p] = "alive" /\ inn[p] # <<>> /\ Head(inn[p]) = "ack"
      /\ inn' = [inn EXCEPT ![p] = Tail(inn[p])] /\ shm' = shm \ {p}
      /\ UNCHANGED <<tables, tpc, seen, coords, idlers, child, has, known, out>>
      /\ UNCHANGED <<paths, generation, vpc, vtask, own, reg, abandoned>>
  BY Zenon DEF ChildAck, tasks, tables, coords
<1>1. ProcType /\ Copies
  BY Zenon DEF PInv
<1>2. /\ inn'[p] = Tail(inn[p]) /\ \A q \in Procs \ {p} : inn'[q] = inn[q]
  BY Zenon, <1>0, <1>1 DEF ProcType
<1>3. Tail(inn[p]) \in Seq(Tasks \cup {"ack"})
  BY SMT, Z3, <1>0, <1>1 DEF ProcType
<1>4. ProcType' /\ (\A n \in Names : HoldInv(p, n)')
  BY Zenon, <1>0, <1>1, <1>3 DEF ProcType, Copies, HoldInv, Copy
<1>5. Quiet(p) => Quiet(p)'
  <2>1. Tail(<<"ack">>) = <<>>
    BY SMT, Z3
  <2> QED BY Zenon, <1>0, <1>2, <2>1 DEF Quiet
<1>6. ASSUME NEW v \in Coordinators, own[v] = p PROVE CoordInv(v)'
  <2>1. /\ CoordInv(v) /\ p # None /\ vpc[v] \notin {"idle", "spawn"}
        /\ \/ Quiet(p)
           \/ (vpc[v] = "read" /\ vtask[v] \in Tasks
               /\ (Asked(p, vtask[v]) \/ Told(p, vtask[v])))
           \/ (vpc[v] \in Leaving /\ own[v] \in abandoned)
    BY Zenon, <1>0, <1>6, OwnerFacts
  <2>2. CASE Quiet(p)
    <3>0. Quiet(own[v])'
      BY Zenon, <1>0, <1>5, <1>6, <2>2 DEF Quiet
    <3>1. vpc[v] # "read"
      <4> SUFFICES ASSUME vpc[v] = "read" PROVE FALSE
        BY Zenon
      <4>1. vtask[v] \in Tasks /\ (Asked(p, vtask[v]) \/ Told(p, vtask[v]))
        BY Zenon, <1>0, <1>6, <2>1 DEF CoordInv, Working
      <4>2. ~Asked(p, vtask[v])
        BY Zenon, <2>2, <4>1, AskedNotQuiet
      <4> QED BY Zenon, <2>2, <4>1, <4>2 DEF Told, Quiet
    <3> QED BY Zenon, <1>0, <1>6, <2>1, <3>0, <3>1 DEF CoordInv, Copy, Maybe
  <2>3. CASE vpc[v] = "read" /\ vtask[v] \in Tasks /\ (Asked(p, vtask[v]) \/ Told(p, vtask[v]))
    <3>1. PICK t \in Tasks : t = vtask[v]
      BY Zenon, <2>3
    <3>2. /\ Head(<<t>>) = t /\ Tail(<<"ack", t>>) = <<t>>
      BY Zenon, StreamFacts, t \in Tasks \cup {"ack"}, "ack" \in Tasks \cup {"ack"}
    <3>3. inn[p] = <<"ack", t>> /\ out[p] = None
      BY Zenon, <1>0, <2>3, <3>1, <3>2, PluginsAssumption DEF Asked, Told
    <3>4. Asked(own[v], vtask[v])'
      BY Zenon, <1>0, <1>2, <1>6, <3>1, <3>2, <3>3 DEF Asked
    <3> QED BY Zenon, <1>0, <1>6, <2>1, <2>3, <3>4 DEF CoordInv, Unasked, Leaving, Maybe
  <2>4. CASE vpc[v] \in Leaving /\ own[v] \in abandoned
    BY Zenon, <1>0, <2>1, <2>4, AbandonedKeeps
  <2> QED BY Zenon, <2>1, <2>2, <2>3, <2>4
<1> QED BY Zenon, <1>0, <1>2, <1>4, <1>5, <1>6, ChildFrame

(* The process dies: its tables and what it had not read are lost.           *)
LEMMA CrashKeeps ==
  ASSUME PInv, NEW p \in Procs, ChildCrash(p)
  PROVE  PInv'
<1>0. /\ child[p] = "alive" /\ child' = [child EXCEPT ![p] = "dead"]
      /\ has' = [has EXCEPT ![p] = [n \in Names |-> None]] /\ inn' = [inn EXCEPT ![p] = <<>>]
      /\ UNCHANGED <<tables, tpc, seen, coords, idlers, known, out, shm>>
      /\ UNCHANGED <<paths, generation, vpc, vtask, own, reg, abandoned>>
  BY Zenon DEF ChildCrash, tasks, tables, coords
<1>1. ProcType /\ Copies
  BY Zenon DEF PInv
<1>2. /\ has' \in [Procs -> [Names -> Maybe(RegistryEntry)]]
      /\ inn' \in [Procs -> Seq(Tasks \cup {"ack"})] /\ inn'[p] = <<>> /\ child'[p] = "dead"
      /\ (\A n \in Names : has'[p][n] = None)
      /\ \A q \in Procs \ {p} : has'[q] = has[q] /\ inn'[q] = inn[q] /\ child'[q] = child[q]
  BY SMT, Z3, <1>0, <1>1 DEF ProcType, Maybe
<1>3. ProcType' /\ (\A n \in Names : HoldInv(p, n)')
  BY Zenon, <1>0, <1>1, <1>2 DEF ProcType, HoldInv, Copy
<1>4. Quiet(p) => Quiet(p)'
  BY Zenon, <1>0, <1>2 DEF Quiet
<1>5. ASSUME NEW v \in Coordinators, own[v] = p PROVE CoordInv(v)'
  <2>1. /\ CoordInv(v) /\ p # None /\ vpc[v] \notin {"idle", "spawn"}
        /\ \/ Quiet(p)
           \/ (vpc[v] = "read" /\ vtask[v] \in Tasks
               /\ (Asked(p, vtask[v]) \/ Told(p, vtask[v])))
           \/ (vpc[v] \in Leaving /\ own[v] \in abandoned)
    BY Zenon, <1>0, <1>5, OwnerFacts
  <2>2. vpc[v] \in {"send", "read"} => has'[p][Target[vtask[v]]] = None
    BY Zenon, <1>2, <2>1, PluginsAssumption DEF CoordInv, Working
  <2>3. CASE Quiet(p)
    <3>1. Quiet(own[v])' /\ child'[own'[v]] = "dead"
      BY Zenon, <1>0, <1>2, <1>5, <2>3 DEF Quiet
    <3> QED BY Zenon, <1>0, <1>5, <2>1, <2>2, <3>1 DEF CoordInv, Copy, Maybe
  <2>4. CASE vpc[v] = "read" /\ Asked(p, vtask[v])
    <3>1. Quiet(own[v])' /\ child'[own'[v]] = "dead"
      BY Zenon, <1>0, <1>2, <1>5, <2>4 DEF Quiet, Asked
    <3> QED BY Zenon, <1>0, <1>5, <2>1, <2>2, <2>4, <3>1 DEF CoordInv, Unasked, Leaving, Maybe
  <2>5. CASE vpc[v] = "read" /\ Told(p, vtask[v])
    <3>1. Told(own[v], vtask[v])'
      BY Zenon, <1>0, <1>2, <1>5, <2>5 DEF Told
    <3> QED BY Zenon, <1>0, <1>5, <2>1, <2>2, <2>5, <3>1 DEF CoordInv, Unasked, Leaving, Maybe
  <2>6. CASE vpc[v] \in Leaving /\ own[v] \in abandoned
    BY Zenon, <1>0, <2>1, <2>6, AbandonedKeeps
  <2> QED BY Zenon, <2>1, <2>3, <2>4, <2>5, <2>6
<1> QED BY Zenon, <1>0, <1>2, <1>3, <1>4, <1>5, ChildFrame
-----------------------------------------------------------------------------
(* The reaper takes the i-th idle worker.                                    *)
LEMMA ReapTakeKeeps ==
  ASSUME PInv, NEW i, ReapTake(i)
  PROVE  PInv'
<1>0. /\ i \in DOMAIN pool /\ victims' = victims \cup {pool[i]}
      /\ UNCHANGED <<tables, tpc, seen, vpc, vtask, own, reg, abandoned, child, has, known, inn, out,
                     shm>>
      /\ UNCHANGED <<paths, generation, shutdown>>
  BY Zenon DEF ReapTake, tasks, coords, procs, tables
<1>1. Owned /\ PoolInv /\ DownInv /\ Coords /\ CoordType
  BY Zenon DEF PInv
<1>2. /\ pool \in Seq(Procs) /\ Len(pool) \in Nat /\ i \in 1..Len(pool)
      /\ \A j, k \in 1..Len(pool) : pool[j] = pool[k] => j = k
      /\ \A j \in 1..Len(pool) : /\ pool[j] \in Procs /\ pool[j] \notin victims
                                 /\ Quiet(pool[j]) /\ \A w \in Coordinators : own[w] # pool[j]
      /\ \A q \in victims : q \in Procs /\ Quiet(q) /\ \A w \in Coordinators : own[w] # q
      /\ victims \subseteq Procs /\ shutdown \in BOOLEAN
  BY Zenon, <1>0, <1>1, PoolFacts
<1>3. pool' = [j \in 1..(Len(pool) - 1) |-> IF j = i THEN pool[Len(pool)] ELSE pool[j]]
  BY Zenon DEF ReapTake
<1>4. /\ Len(pool) - 1 \in Nat
      /\ \A j \in 1..(Len(pool) - 1) : (IF j = i THEN pool[Len(pool)] ELSE pool[j]) \in Procs
  BY SMT, Z3, <1>2
<1>5. pool' \in Seq(Procs) /\ Len(pool') = Len(pool) - 1
  BY SMT, Z3, <1>3, <1>4
<1>6. \A j \in 1..(Len(pool) - 1) : pool'[j] = IF j = i THEN pool[Len(pool)] ELSE pool[j]
  BY Zenon, <1>3
<1>7. \A j \in 1..Len(pool') :
        \E k \in 1..Len(pool) : k # i /\ pool'[j] = pool[k] /\ k = IF j = i THEN Len(pool) ELSE j
  <2> TAKE j \in 1..Len(pool')
  <2>1. /\ j \in 1..(Len(pool) - 1) /\ j \in 1..Len(pool) /\ j # Len(pool)
        /\ Len(pool) \in 1..Len(pool)
    BY SMT, Z3, <1>2, <1>5
  <2>2. CASE j = i
    BY Zenon, <1>6, <2>1, <2>2
  <2>3. CASE j # i
    BY Zenon, <1>6, <2>1, <2>3
  <2> QED BY Zenon, <2>2, <2>3
<1>8. \A j, k \in 1..Len(pool') : pool'[j] = pool'[k] => j = k
  BY SMT, Z3, <1>2, <1>5, <1>6
<1>9. \A k \in 1..Len(pool) : k # i => \E j \in 1..Len(pool') : pool'[j] = pool[k]
  <2> SUFFICES ASSUME NEW k \in 1..Len(pool), k # i
               PROVE  \E j \in 1..Len(pool') : pool'[j] = pool[k]
    BY Zenon
  <2>1. CASE k = Len(pool)
    <3>1. i \in 1..Len(pool') /\ pool'[i] = pool[k]
      BY SMT, Z3, <1>2, <1>5, <1>6, <2>1
    <3> QED BY Zenon, <3>1
  <2>2. CASE k # Len(pool)
    <3>1. k \in 1..Len(pool') /\ pool'[k] = pool[k]
      BY SMT, Z3, <1>2, <1>5, <1>6, <2>2
    <3> QED BY Zenon, <3>1
  <2> QED BY Zenon, <2>1, <2>2
<1>10. \A q : Waits(q)' => Waits(q) /\ q # pool[i]
  BY SMT, Z3, <1>2, <1>7 DEF Waits
<1>11. \A q : Waits(q) => Waits(q)' \/ q = pool[i]
  BY Zenon, <1>9 DEF Waits
<1>12. \A q : Quiet(q) => Quiet(q)'
  BY Zenon, <1>0 DEF Quiet
<1>13. Owned'
  <2> SUFFICES ASSUME NEW q \in Procs PROVE OwnerInv(q)'
    BY Zenon DEF Owned
  <2>1. OwnerInv(q) /\ (q = pool[i] => Waits(q))
    BY Zenon, <1>1, <1>2 DEF Owned, Waits
  <2> QED BY Zenon, <1>0, <1>10, <1>11, <1>12, <2>1 DEF OwnerInv
<1>14. PoolInv'
  <2>1. \A j \in 1..Len(pool') : /\ pool'[j] \notin victims' /\ Quiet(pool'[j])
                                 /\ \A w \in Coordinators : own[w] # pool'[j]
    <3> TAKE j \in 1..Len(pool')
    <3>1. PICK k \in 1..Len(pool) : k # i /\ pool'[j] = pool[k]
      BY Zenon, <1>7
    <3>2. pool[k] \notin victims' /\ Quiet(pool[k]) /\ \A w \in Coordinators : own[w] # pool[k]
      BY Zenon, <1>0, <1>2, <3>1
    <3> QED BY Zenon, <3>1, <3>2
  <2>2. \A q \in victims' : q \in Procs /\ Quiet(q) /\ \A w \in Coordinators : own[w] # q
    <3> TAKE q \in victims'
    <3>1. q \in victims \/ q = pool[i]
      BY Zenon, <1>0
    <3> QED BY Zenon, <1>2, <3>1
  <2> QED BY Zenon, <1>0, <1>2, <1>5, <1>8, <1>12, <2>1, <2>2 DEF PoolInv, Quiet
<1>15. Coords' /\ CoordType' /\ Apart'
  BY ZenonT(40), <1>0, CoordsFrame DEF PInv
<1>16. DownInv'
  BY SMT, Z3, <1>0, <1>1, <1>2 DEF DownInv
<1> QED BY Zenon, <1>0, <1>13, <1>14, <1>15, <1>16, StillHeld DEF PInv

(* Idle workers that nobody owns any more are dropped: the reaper's victims, *)
(* or all of them at shutdown.                                               *)
LEMMA DiscardKeeps ==
  ASSUME PInv, NEW S \in SUBSET Procs, Forget(S), shm' = shm \ S,
         \A v \in Coordinators : own[v] \notin S, victims' \subseteq victims,
         pool' = <<>> \/ (pool' = pool /\ \A q \in S : ~Waits(q)),
         \A q \in Procs \ S : (Waits(q) => Waits(q)') /\ (q \in victims => q \in victims'),
         S \cap victims' = {}, DownInv', shutdown' \in BOOLEAN,
         UNCHANGED <<tables, tpc, seen, coords>>
  PROVE  PInv'
<1> USE DEF coords
<1>0. UNCHANGED <<vpc, vtask, own, reg, abandoned>> /\ Owned /\ PoolInv /\ Coords /\ CoordType /\ TaskInv
  BY Zenon DEF PInv
<1>1. /\ TableInv' /\ ProcType' /\ Copies' /\ UNCHANGED <<paths, generation>>
      /\ \A q \in S : child'[q] = "dead" /\ Quiet(q)'
      /\ \A q \in Procs \ S : /\ child'[q] = child[q] /\ has'[q] = has[q]
                              /\ inn'[q] = inn[q] /\ out'[q] = out[q]
  BY Zenon, ForgetFacts
<1>2. TaskInv' /\ CoordType' /\ Apart'
  BY Zenon, <1>0, <1>1, TaskFrame, FieldsFrame DEF PInv
<1>3. Coords'
  <2> SUFFICES ASSUME NEW w \in Coordinators PROVE CoordInv(w)'
    BY Zenon DEF Coords
  <2>1. CoordInv(w) /\ vpc[w] \in {"idle", "release"} \cup Working \cup Leaving
    BY Zenon, <1>0 DEF Coords, CoordType
  <2>2. own[w] # None => own[w] \in Procs \ S
    BY Zenon, <1>0 DEF CoordType, Maybe
  <2>3. CoordSame(w)
    BY Zenon, <1>0, <1>1, <2>2 DEF CoordSame
  <2> QED BY Zenon, <2>1, <2>3, CoordFrame
<1>4. \A q \in Procs : Quiet(q) => Quiet(q)'
  BY Zenon, <1>1 DEF Quiet
<1>5. \A q : Waits(q)' => Waits(q)
  BY SMT, Z3 DEF Waits
<1>6. Owned'
  <2> SUFFICES ASSUME NEW q \in Procs PROVE OwnerInv(q)'
    BY Zenon DEF Owned
  <2>1. OwnerInv(q)
    BY Zenon, <1>0 DEF Owned
  <2>2. CASE q \in S
    BY Zenon, <1>1, <2>2 DEF OwnerInv
  <2>3. CASE q \notin S
    BY Zenon, <1>0, <1>1, <1>4, <1>5, <2>1, <2>3 DEF OwnerInv
  <2> QED BY Zenon, <2>2, <2>3
<1>7. PoolInv'
  <2>1. \A q \in victims' : q \in Procs /\ Quiet(q)' /\ \A w \in Coordinators : own'[w] # q
    BY Zenon, <1>0, <1>4 DEF PoolInv
  <2>2. CASE pool' = <<>>
    <3>1. 1..Len(pool') = {} /\ pool' \in Seq(Procs)
      BY SMT, Z3, <2>2
    <3> QED BY Zenon, <2>1, <3>1 DEF PoolInv
  <2>3. CASE pool' = pool
    <3>1. \A i \in 1..Len(pool) : pool[i] \in Procs
      BY Zenon, <1>0, PoolFacts
    <3> QED BY ZenonT(40), <1>0, <1>4, <2>1, <2>3, <3>1 DEF PoolInv
  <2> QED BY Zenon, <2>2, <2>3
<1> QED BY Zenon, <1>1, <1>2, <1>3, <1>6, <1>7 DEF PInv

(* The reaper kills a worker it has taken.                                   *)
LEMMA ReapKillKeeps ==
  ASSUME PInv, NEW p \in Procs, ReapKill(p)
  PROVE  PInv'
<1>1. /\ p \in victims /\ Forget({p}) /\ shm' = shm \ {p} /\ victims' = victims \ {p}
      /\ UNCHANGED <<tables, tpc, seen, coords, pool, shutdown, vpc>>
  BY Zenon DEF ReapKill, tasks, coords
<1>2. PoolInv /\ DownInv
  BY Zenon DEF PInv
<1>3. /\ ~Waits(p) /\ (\A v \in Coordinators : own[v] # p) /\ shutdown \in BOOLEAN
  BY Zenon, <1>1, <1>2 DEF PoolInv, Waits
<1>4. DownInv'
  BY Zenon, <1>1, <1>2 DEF DownInv
<1>5. PICK S \in SUBSET Procs : S = {p}
  BY Zenon
<1>6. /\ Forget(S) /\ shm' = shm \ S /\ (\A v \in Coordinators : own[v] \notin S)
      /\ (\A q \in S : ~Waits(q)) /\ S \cap victims' = {} /\ victims' \subseteq victims
      /\ \A q \in Procs \ S : (Waits(q) => Waits(q)') /\ (q \in victims => q \in victims')
  BY Zenon, <1>1, <1>3, <1>5 DEF Waits
<1> QED BY Zenon, <1>1, <1>3, <1>4, <1>6, DiscardKeeps

(* shutdown() drops the idle workers when every coordinator has ended.       *)
LEMMA ShutdownKeeps ==
  ASSUME PInv, ShutdownPool
  PROVE  PInv'
<1>1. PICK S : S = {pool[i] : i \in DOMAIN pool}
  BY Zenon
<1>2. /\ Joined /\ (\A t \in Tasks : tpc[t] # "queued") /\ shutdown' = TRUE /\ pool' = <<>>
      /\ Forget(S) /\ shm' = shm \ S /\ UNCHANGED <<tables, tpc, seen, coords, vpc, victims>>
  BY Zenon, <1>1 DEF ShutdownPool, tasks, coords
<1>3. PoolInv /\ DOMAIN pool = 1..Len(pool)
  BY Zenon, PoolFacts DEF PInv
<1>4. \A q : q \in S <=> Waits(q)
  BY Zenon, <1>1, <1>3 DEF Waits
<1>5. /\ S \in SUBSET Procs /\ S \cap victims = {}
      /\ \A v \in Coordinators : own[v] \notin S
  <2>1. \A q \in S : q \in Procs /\ q \notin victims /\ \A v \in Coordinators : own[v] # q
    <3> TAKE q \in S
    <3>1. PICK i \in 1..Len(pool) : q = pool[i]
      BY Zenon, <1>1, <1>3
    <3> QED BY Zenon, <1>3, <3>1, PoolFacts
  <2> QED BY Zenon, <2>1
<1>6. DownInv'
  BY Zenon, <1>2 DEF DownInv, Joined
<1>7. \A q \in Procs \ S : (Waits(q) => Waits(q)') /\ (q \in victims => q \in victims')
  BY Zenon, <1>2, <1>4
<1> QED BY Zenon, <1>2, <1>5, <1>6, <1>7, DiscardKeeps

(* A step that touches nothing the invariant is about.                       *)
LEMMA StillKeeps ==
  ASSUME PInv, UNCHANGED <<tables, tpc, seen, coords, child, has, known, inn, out, shm, idlers>>
  PROVE  PInv'
<1>0. /\ UNCHANGED <<paths, generation, vpc, vtask, own, reg, abandoned, pool, victims, shutdown>>
      /\ PoolInv /\ Owned /\ Coords /\ CoordType /\ Apart /\ DownInv
  BY Zenon DEF PInv, tables, coords, idlers
<1>1. Coords' /\ CoordType' /\ Apart'
  BY Zenon, <1>0, CoordsFrame
<1>2. Owned' /\ PoolInv' /\ DownInv'
  BY Zenon, <1>0, OwnersFrame DEF DownInv
<1> QED BY Zenon, <1>1, <1>2, StillHeld DEF PInv
-----------------------------------------------------------------------------
(* Every step of a coordinator keeps the invariant.                          *)
LEMMA CoordinatorStepKeeps ==
  ASSUME PInv, NEW v \in Coordinators, CoordinatorStep(v)
  PROVE  PInv'
<1>1. CASE \/ \E t \in Tasks : Take(v, t)
           \/ \E p \in Procs : Spawn(v, p)
           \/ SpawnFails(v) \/ SpawnCopy(v)
  BY Zenon, <1>1, TakeKeeps, SpawnKeeps, SpawnFailsKeeps, SpawnCopyKeeps
<1>2. CASE Sync(v) \/ (\E ok \in BOOLEAN : SyncRegister(v, ok)) \/ Send(v)
  BY Zenon, <1>2, SyncKeeps, SyncRegisterKeeps, SendKeeps
<1>3. CASE ReadCancelled(v) \/ Read(v)
  BY Zenon, <1>3, CancelKeeps, ReadKeeps
<1>4. CASE Release(v) \/ DropClean(v) \/ DropKill(v)
  BY Zenon, <1>4, ReleaseKeeps, DropCleanKeeps, DropKillKeeps
<1> QED BY Zenon, <1>1, <1>2, <1>3, <1>4 DEF CoordinatorStep

(* The invariant is inductive.                                               *)
LEMMA NextPInv == PInv /\ [Next]_vars => PInv'
<1> SUFFICES ASSUME PInv, [Next]_vars PROVE PInv'
  BY Zenon
<1>1. CASE \E u \in Users : UserStep(u)
  BY Zenon, <1>1, UserStepKeeps
<1>2. ASSUME NEW t \in Tasks, SubmitTask(t) \/ CancelTask(t) PROVE PInv'
  <2>1. CASE SubmitTask(t)
    BY Zenon, <2>1, SubmitKeeps
  <2>2. CASE CancelTask(t)
    BY Zenon, <2>2, StillKeeps DEF CancelTask, procs
  <2> QED BY Zenon, <1>2, <2>1, <2>2
<1>3. CASE \E v \in Coordinators : CoordinatorStep(v)
  BY Zenon, <1>3, CoordinatorStepKeeps
<1>4. ASSUME NEW p \in Procs, ChildStep(p) \/ ChildCrash(p) \/ ReapKill(p) PROVE PInv'
  BY Zenon, <1>4, SegmentKeeps, RespondKeeps, AckKeeps, CrashKeeps, ReapKillKeeps DEF ChildStep
<1>5. CASE \E i \in 1..Cardinality(Procs) : ReapTake(i)
  BY Zenon, <1>5, ReapTakeKeeps
<1>6. CASE ShutdownPool
  BY Zenon, <1>6, ShutdownKeeps
<1>7. CASE UNCHANGED vars
  BY Zenon, <1>7, StillKeeps DEF vars, tables, coords, idlers
<1> QED BY Zenon, <1>1, <1>2, <1>3, <1>4, <1>5, <1>6, <1>7 DEF Next

(* In every state that registration calls, coordinators, worker processes,   *)
(* crashes, errors in an exchange with a live process, the reaper and        *)
(* shutdown can reach in any order, every table, stream and owner is as PInv *)
(* says.                                                                     *)
THEOREM PluginsInvariant == Safety => []PInv
BY InitPInv, NextPInv, PTL DEF Safety

(* A worker process runs, for a task, a registration of the task's name that *)
(* was in force while the task was in the engine: the generation the engine  *)
(* compares (registry_sync) identifies what the process holds.               *)
THEOREM CurrentRegistration == Safety => []RunsCurrentRegistration
<1>1. PInv => RunsCurrentRegistration
  <2> SUFFICES ASSUME PInv, NEW v \in Coordinators, Answered(v)
               PROVE  Answer(v).ran \in seen[vtask[v]] \cup {None}
    BY Zenon DEF RunsCurrentRegistration
  <2>1. CoordInv(v) /\ vpc[v] = "read" /\ out[own[v]] # None
    BY Zenon DEF PInv, Coords, Answered
  <2> QED BY Zenon, <2>1 DEF CoordInv, Asked, Told, Quiet, Maybe, Answer
<1> QED BY <1>1, PluginsInvariant, PTL

(* The answer a coordinator takes is its own task's, and nobody has left an  *)
(* answer behind in a worker of the pool.                                    *)
THEOREM AnswersMatch == Safety => []OwnAnswer
<1>1. PInv => OwnAnswer
  <2> SUFFICES ASSUME PInv PROVE OwnAnswer
    BY Zenon
  <2>1. ASSUME NEW v \in Coordinators, Answered(v) PROVE Answer(v).task = vtask[v]
    <3>1. CoordInv(v) /\ vpc[v] = "read" /\ out[own[v]] # None
      BY Zenon, <2>1 DEF PInv, Coords, Answered
    <3> QED BY Zenon, <3>1 DEF CoordInv, Asked, Told, Quiet, Answer
  <2>2. ASSUME NEW i \in DOMAIN pool PROVE out[pool[i]] = None
    <3>1. i \in 1..Len(pool)
      BY Zenon, PoolFacts DEF PInv
    <3> QED BY Zenon, <3>1 DEF PInv, PoolInv, Quiet
  <2> QED BY Zenon, <2>1, <2>2 DEF OwnAnswer
<1> QED BY <1>1, PluginsInvariant, PTL

(* Registration calls about a name that have not overlapped leave the plugin *)
(* table and the path table with what the last one asked for.                *)
THEOREM RegistrationAgrees == Safety => []TablesAgree
<1>1. PInv => TablesAgree
  <2> SUFFICES ASSUME PInv, NEW n \in Names \ raced, Calling(n) = {} PROVE Agree(n)
    BY Zenon DEF TablesAgree, Agree
  <2>1. NameInv(n)
    BY Zenon DEF PInv, TableInv
  <2>2. \A u \in Users : ucall[u].name # n
    BY Zenon DEF Calling
  <2> QED BY Zenon, <2>1, <2>2 DEF NameInv
<1> QED BY <1>1, PluginsInvariant, PTL

(* A process that is alive, or has left a segment without having been given  *)
(* up alive in the middle of an exchange, has exactly one of a coordinator,  *)
(* the pool and the reaper to look after it, whatever errors end exchanges   *)
(* with processes that live on, and after shutdown() only the reaper's last  *)
(* victims may still be alive.                                               *)
THEOREM WorkersOwned == Safety => []OneOwner
<1>1. PInv => OneOwner
  <2> SUFFICES ASSUME PInv PROVE OneOwner
    BY Zenon
  <2>1. PoolInv /\ Apart /\ Owned /\ DownInv /\ Coords /\ DOMAIN pool = 1..Len(pool)
    BY Zenon, PoolFacts DEF PInv
  <2>2. ASSUME NEW p \in Procs, child[p] = "alive" \/ p \in shm \ abandoned PROVE Owners(p) # {}
    <3>1. \/ \E v \in Coordinators : own[v] = p
          \/ \E i \in DOMAIN pool : pool[i] = p
          \/ p \in victims
      BY Zenon, <2>1, <2>2 DEF Owned, OwnerInv, Waits
    <3>2. \A v \in Coordinators : own[v] = p => <<"coordinator", v>> \in Owners(p)
      BY Zenon DEF Owners
    <3>3. \A i \in DOMAIN pool : pool[i] = p => <<"pool", i>> \in Owners(p)
      BY Zenon DEF Owners
    <3>4. p \in victims => <<"reaper", p>> \in Owners(p)
      BY Zenon DEF Owners
    <3> QED BY Zenon, <3>1, <3>2, <3>3, <3>4
  <2>4. ASSUME NEW p \in Procs, NEW x \in Owners(p), NEW y \in Owners(p) PROVE x = y
    <3>1. p # None
      BY Zenon, PluginsAssumption
    <3>2. \A z \in Owners(p) : \/ \E v \in Coordinators : z = <<"coordinator", v>> /\ own[v] = p
                               \/ \E i \in 1..Len(pool) : z = <<"pool", i>> /\ pool[i] = p
                               \/ z = <<"reaper", p>> /\ p \in victims
      BY Zenon, <2>1 DEF Owners
    <3> QED BY SMT, Z3, <2>1, <2>4, <3>1, <3>2 DEF Apart, PoolInv
  <2>3. ASSUME shutdown, NEW p \in Procs, child[p] = "alive" PROVE p \in victims
    <3>1. (\A v \in Coordinators : own[v] = None) /\ ~Waits(p)
      BY SMT, Z3, <2>1, <2>3 DEF DownInv, Coords, CoordInv, Waits
    <3> QED BY ZenonT(40), <2>1, <2>3, <3>1, PluginsAssumption DEF Owned, OwnerInv
  <2> QED BY Zenon, <2>2, <2>3, <2>4 DEF OneOwner
<1> QED BY <1>1, PluginsInvariant, PTL
=============================================================================
