---------------------------- MODULE TunnelsProofs ----------------------------
(***************************************************************************)
(* Theorems about Tunnels and the concentrators it uses, for any number of *)
(* threads, subnets, registers, tunnels and lost calls.                    *)
(***************************************************************************)
EXTENDS Tunnels, TLAPS

-----------------------------------------------------------------------------
(* What the handlers of a concentrator do to its state.                    *)

Remembers(c) == c.installed = c.decrypt

\* Writing entries for encryption changes nothing else.
LEMMA EncryptKeeps ==
    ASSUME NEW c \in Concentrators, NEW nets, NEW t \in Messages \union {NoTunnel}
    PROVE  /\ Encrypt(c, nets, t) \in Concentrators
           /\ Encrypt(c, nets, t).installed = c.installed
           /\ Encrypt(c, nets, t).decrypt = c.decrypt
           /\ Encrypt(c, nets, t).free = c.free
<1> DEFINE f == [n \in Subnets |-> IF n \in nets THEN t ELSE c.encrypt[n]]
<1>1. f \in [Subnets -> Messages \union {NoTunnel}]
  BY DEF Concentrators
<1>2. Encrypt(c, nets, t) = [c EXCEPT !.encrypt = f]
  BY DEF Encrypt
<1> HIDE DEF f
<1> QED BY <1>1, <1>2 DEF Concentrators

\* The pool of registers stays within its bounds.
LEMMA PoolKeeps ==
    ASSUME NEW c \in Concentrators
    PROVE  /\ Drained(c) \in Concentrators
           /\ Drained(c).installed = c.installed /\ Drained(c).decrypt = c.decrypt
           /\ Enough(c) => /\ Taken(c) \in Concentrators
                           /\ Taken(c).installed = c.installed
                           /\ Taken(c).decrypt = c.decrypt
                           /\ Taken(c).encrypt = c.encrypt
  BY ConcentratorAssumption DEF Drained, Enough, Taken, Concentrators

\* A tunnel is remembered and forgotten together with its decryption entry.
LEMMA InstallKeeps ==
    ASSUME NEW c \in Concentrators, NEW id \in 1..Budget
    PROVE  /\ Install(c, id) \in Concentrators
           /\ Remembers(c) => Remembers(Install(c, id))
<1> DEFINE i == c.installed \union {id}
           d == c.decrypt \union {id}
<1>1. Install(c, id) = [c EXCEPT !.installed = i, !.decrypt = d]
  BY DEF Install
<1>2. i \in SUBSET (1..Budget) /\ d \in SUBSET (1..Budget)
  BY DEF Concentrators
<1>3. c.installed = c.decrypt => i = d
  OBVIOUS
<1> HIDE DEF i, d
<1> QED BY <1>1, <1>2, <1>3 DEF Concentrators, Remembers

\* Forgetting takes the decryption entry along.
LEMMA ForgetKeeps ==
    ASSUME NEW c \in Concentrators, NEW id
    PROVE  /\ Forget(c, id) \in Concentrators
           /\ Remembers(c) => Remembers(Forget(c, id))
<1> DEFINE i == c.installed \ {id}
           d == c.decrypt \ {id}
<1>1. Forget(c, id) = [c EXCEPT !.installed = i, !.decrypt = d]
  BY DEF Forget
<1>2. i \in SUBSET (1..Budget) /\ d \in SUBSET (1..Budget)
  BY DEF Concentrators
<1>3. c.installed = c.decrypt => i = d
  OBVIOUS
<1> HIDE DEF i, d
<1> QED BY <1>1, <1>2, <1>3 DEF Concentrators, Remembers

\* remove leaves a concentrator that remembers what it decrypts.
LEMMA RemoveKeeps ==
    ASSUME NEW c \in Concentrators, NEW t \in Messages, NEW nets,
           NEW r \in Remove(c, t, nets)
    PROVE  r \in Concentrators /\ (Remembers(c) => Remembers(r))
<1> DEFINE there == Entries(c, nets)
<1>1. \/ r = c
      \/ \E gone \in SUBSET there : r = Encrypt(c, gone, NoTunnel)
      \/ r = Encrypt(c, nets, NoTunnel)
      \/ r = Forget(Encrypt(c, nets, NoTunnel), t.id)
  BY DEF Remove, Refused
<1>2. CASE r = c
  BY <1>2
<1>3. CASE \E gone \in SUBSET there : r = Encrypt(c, gone, NoTunnel)
  BY <1>3, EncryptKeeps DEF Remembers
<1>4. CASE r = Encrypt(c, nets, NoTunnel)
  BY <1>4, EncryptKeeps DEF Remembers
<1>5. CASE r = Forget(Encrypt(c, nets, NoTunnel), t.id)
  <2> DEFINE e == Encrypt(c, nets, NoTunnel)
  <2>1. e \in Concentrators /\ (Remembers(c) => Remembers(e))
    BY EncryptKeeps DEF Remembers
  <2> HIDE DEF e
  <2> QED BY <1>5, <2>1, ForgetKeeps DEF e
<1> QED BY <1>1, <1>2, <1>3, <1>4, <1>5

\* A remove that loses a write leaves a concentrator, though not that.
LEMMA RemoveHalfKeeps ==
    ASSUME NEW c \in Concentrators, NEW t \in Messages, NEW nets,
           NEW r \in RemoveHalf(c, t, nets)
    PROVE  r \in Concentrators
<1> DEFINE e == Encrypt(c, nets, NoTunnel)
<1>1. \/ \E gone \in SUBSET Entries(c, nets) : r = Encrypt(c, gone, NoTunnel)
      \/ r = [e EXCEPT !.decrypt = @ \ {t.id}]
  BY DEF RemoveHalf
<1>2. e \in Concentrators
  BY EncryptKeeps
<1> HIDE DEF e
<1>3. [e EXCEPT !.decrypt = @ \ {t.id}] \in Concentrators
  BY <1>2 DEF Concentrators
<1>4. CASE \E gone \in SUBSET Entries(c, nets) : r = Encrypt(c, gone, NoTunnel)
  <2>1. PICK gone \in SUBSET Entries(c, nets) : r = Encrypt(c, gone, NoTunnel)
    BY <1>4
  <2> QED BY <2>1, EncryptKeeps
<1> QED BY <1>1, <1>3, <1>4

\* new leaves a concentrator that remembers what it decrypts.
LEMMA NewKeeps ==
    ASSUME NEW c \in Concentrators, NEW t \in Messages, NEW nets,
           NEW r \in New(c, t, nets)
    PROVE  r \in Concentrators /\ (Remembers(c) => Remembers(r))
<1> DEFINE blocked == Blocked(c, nets)
           k == Taken(c)
<1>1. \/ r = Drained(c)
      \/ Enough(c) /\ r = k
      \/ Enough(c) /\ \E done \in SUBSET (nets \ blocked) : r = Encrypt(k, done, t)
      \/ Enough(c) /\ r = Encrypt(k, nets, t)
      \/ Enough(c) /\ r = Install(Encrypt(k, nets, t), t.id)
  BY DEF New
<1>2. Enough(c) => k \in Concentrators /\ (Remembers(c) => Remembers(k))
  BY PoolKeeps DEF Remembers
<1>3. CASE r = Drained(c)
  BY <1>3, PoolKeeps DEF Remembers
<1> HIDE DEF k, blocked
<1>4. CASE Enough(c) /\ r = k
  BY <1>2, <1>4
<1>5. CASE Enough(c) /\ \E done \in SUBSET (nets \ blocked) : r = Encrypt(k, done, t)
  BY <1>2, <1>5, EncryptKeeps DEF Remembers
<1>6. CASE Enough(c) /\ r = Encrypt(k, nets, t)
  BY <1>2, <1>6, EncryptKeeps DEF Remembers
<1>7. CASE Enough(c) /\ r = Install(Encrypt(k, nets, t), t.id)
  <2> DEFINE e == Encrypt(k, nets, t)
  <2>1. e \in Concentrators /\ (Remembers(c) => Remembers(e))
    BY <1>2, <1>7, EncryptKeeps DEF Remembers
  <2>2. t.id \in 1..Budget
    BY DEF Messages
  <2> HIDE DEF e
  <2> QED BY <1>7, <2>1, <2>2, InstallKeeps DEF e
<1> QED BY <1>1, <1>3, <1>4, <1>5, <1>6, <1>7

\* A new that loses a write leaves a concentrator.
LEMMA NewHalfKeeps ==
    ASSUME NEW c \in Concentrators, NEW t \in Messages, NEW nets,
           NEW r \in NewHalf(c, t, nets)
    PROVE  r \in Concentrators
<1> DEFINE k == Taken(c)
           e == Encrypt(k, nets, t)
<1>1. /\ Enough(c)
      /\ \/ \E done \in SUBSET (nets \ Blocked(c, nets)) : r = Encrypt(k, done, t)
         \/ r = [e EXCEPT !.decrypt = @ \union {t.id}]
  BY DEF NewHalf
<1>2. k \in Concentrators
  BY <1>1, PoolKeeps
<1> HIDE DEF k
<1>3. e \in Concentrators
  BY <1>2, EncryptKeeps
<1> HIDE DEF e
<1>4. [e EXCEPT !.decrypt = @ \union {t.id}] \in Concentrators
  BY <1>3 DEF Concentrators, Messages
<1>5. CASE \E done \in SUBSET (nets \ Blocked(c, nets)) : r = Encrypt(k, done, t)
  <2>1. PICK done \in SUBSET (nets \ Blocked(c, nets)) : r = Encrypt(k, done, t)
    BY <1>5
  <2> QED BY <1>2, <2>1, EncryptKeeps
<1> QED BY <1>1, <1>4, <1>5

\* renew is remove and new, one after the other.
LEMMA RenewKeeps ==
    ASSUME NEW c \in Concentrators, NEW t \in Messages, NEW nets,
           NEW r \in Renew(c, t, nets)
    PROVE  r \in Concentrators /\ (Remembers(c) => Remembers(r))
<1>1. PICK m \in Remove(c, t, nets) : r \in New(m, t, nets)
  BY DEF Renew
<1>2. m \in Concentrators /\ (Remembers(c) => Remembers(m))
  BY RemoveKeeps
<1> QED BY <1>1, <1>2, NewKeeps

\* A renew that loses a write loses it in one of the two.
LEMMA RenewHalfKeeps ==
    ASSUME NEW c \in Concentrators, NEW t \in Messages, NEW nets,
           NEW r \in RenewHalf(c, t, nets)
    PROVE  r \in Concentrators
<1>1. \/ \E m \in RemoveHalf(c, t, nets) : r \in New(m, t, nets)
      \/ \E m \in Remove(c, t, nets) : r \in NewHalf(m, t, nets)
  <2>1. \/ r \in UNION {New(m, t, nets) : m \in RemoveHalf(c, t, nets)}
        \/ r \in UNION {NewHalf(m, t, nets) : m \in Remove(c, t, nets)}
    BY DEF RenewHalf
  <2> QED BY <2>1
<1> QED BY <1>1, RemoveHalfKeeps, RemoveKeeps, NewKeeps, NewHalfKeeps

-----------------------------------------------------------------------------
(* The inductive invariant.                                                *)

Jobs == [op : Ops, tunnel : Tunnel \union {NoTunnel}, notice : Messages \union {NoTunnel}]

ThreadsOK ==
    /\ pc \in [Workers -> Steps]
    /\ job \in [Workers -> Jobs]
    /\ \A w \in Workers :
         /\ Running(w) => job[w].tunnel # NoTunnel
         /\ job[w].op = "soft" => job[w].notice # NoTunnel

\* Until the first tunnel is saved, nothing has been written anywhere.
EdgeFirst ==
    edge = NoTunnel =>
        /\ \A w \in Workers : pc[w] = "idle"
        /\ \A s \in Sites, n \in Subnets : conc[s].encrypt[n] = NoTunnel

Remembered == LostOnly({"call"}) => \A s \in Sites : Remembers(conc[s])

IInv == TypeOK /\ EdgeFirst /\ Remembered

\* Two sites: each has one other.
LEMMA OtherSite ==
    ASSUME NEW s \in Sites
    PROVE  Other(s) \in Sites /\ Other(s) # s /\ Sites = {s, Other(s)}
<1>1. \E r \in Sites : r # s
  BY TunnelsAssumption
<1>2. Other(s) \in Sites /\ Other(s) # s
  BY <1>1 DEF Other
<1> QED BY <1>2, TunnelsAssumption

\* A thread that runs has a site to call and a tunnel to call it about.
LEMMA CallTypes ==
    ASSUME TypeOK, NEW w \in Workers, Running(w)
    PROVE  /\ Target(w) \in Sites
           /\ Message(job[w].tunnel) \in Messages
           /\ conc[Target(w)] \in Concentrators
<1>1. job[w].tunnel \in Tunnel
  BY DEF TypeOK
<1>2. Target(w) \in Sites
  BY <1>1, OtherSite DEF Target, Tunnel
<1>3. Message(job[w].tunnel) \in Messages
  BY <1>1 DEF Message, Messages, Tunnel, TypeOK
<1> QED BY <1>2, <1>3 DEF TypeOK

\* A thread that goes on keeps its job.
LEMMA GotoKeeps ==
    ASSUME ThreadsOK, NEW w \in Workers, Running(w), NEW step \in Steps, Goto(w, step)
    PROVE  ThreadsOK'
  BY DEF ThreadsOK, Running, Goto

\* A thread that begins has a tunnel to work on.
LEMMA RunKeeps ==
    ASSUME ThreadsOK, NEW w \in Workers, NEW step \in Steps, NEW newJob \in Jobs,
           newJob.tunnel # NoTunnel \/ step \in {"idle", "start"},
           newJob.op = "soft" => newJob.notice # NoTunnel,
           pc' = [pc EXCEPT ![w] = step], job' = [job EXCEPT ![w] = newJob]
    PROVE  ThreadsOK'
<1>1. pc' \in [Workers -> Steps] /\ job' \in [Workers -> Jobs]
  BY DEF ThreadsOK
<1>2. pc'[w] = step /\ job'[w] = newJob
  BY DEF ThreadsOK
<1>3. \A v \in Workers \ {w} : pc'[v] = pc[v] /\ job'[v] = job[v]
  BY DEF ThreadsOK
<1> QED BY <1>1, <1>2, <1>3 DEF ThreadsOK, Running

\* No job is a job like others, which has no notice.
LEMMA NoJobOK == NoJob \in Jobs /\ NoJob.op # "soft"
  BY DEF NoJob, Jobs, Ops

\* A thread that is through has no job.
LEMMA ReturnKeeps ==
    ASSUME ThreadsOK, NEW w \in Workers, Return(w)
    PROVE  ThreadsOK'
  BY NoJobOK, RunKeeps DEF Return, Steps

\* What a call leaves at its site, when its handler does what it has to.
LEMMA CallsKeep ==
    ASSUME TypeOK, Remembered, NEW w \in Workers, Running(w),
           NEW outcomes, NEW half, Calls(w, outcomes, half),
           \A r \in outcomes :
               r \in Concentrators /\ (Remembers(conc[Target(w)]) => Remembers(r)),
           \A r \in half : r \in Concentrators
    PROVE  /\ conc' \in [Sites -> Concentrators]
           /\ lost' \in Seq({"call", "write"}) /\ Len(lost') <= Budget
           /\ Remembered'
<1> DEFINE s == Target(w)
<1>1. s \in Sites /\ conc \in [Sites -> Concentrators] /\ lost \in Seq({"call", "write"})
  BY CallTypes DEF TypeOK
<1>2. Len(lost) \in Nat /\ drawn \in Nat /\ updates \in Nat /\ Len(lost) <= Budget /\ Budget \in Nat
  BY <1>1, TunnelsAssumption DEF TypeOK
<1> HIDE DEF s
<1>3. CASE UNCHANGED lost /\ \E c \in outcomes : conc' = [conc EXCEPT ![s] = c]
  <2>1. PICK c \in outcomes : conc' = [conc EXCEPT ![s] = c]
    BY <1>3
  <2>2. c \in Concentrators /\ (Remembers(conc[s]) => Remembers(c))
    BY DEF s
  <2>3. conc' \in [Sites -> Concentrators] /\ conc'[s] = c
        /\ \A r \in Sites \ {s} : conc'[r] = conc[r]
    BY <1>1, <2>1, <2>2
  <2>4. Remembered'
    BY <1>1, <1>3, <2>2, <2>3 DEF Remembered, LostOnly
  <2> QED BY <1>1, <1>2, <1>3, <2>3, <2>4
<1>4. CASE Lose("write") /\ \E c \in half : conc' = [conc EXCEPT ![s] = c]
  <2>1. conc' \in [Sites -> Concentrators]
    BY <1>1, <1>4
  <2>2. lost' = Append(lost, "write") /\ Len(lost) < Budget
    BY <1>2, <1>4 DEF Lose, InBudget
  <2>3. /\ lost' \in Seq({"call", "write"}) /\ Len(lost') = Len(lost) + 1
        /\ Len(lost') \in DOMAIN lost' /\ lost'[Len(lost')] = "write"
    BY <1>1, <1>2, <2>2
  <2>4. ~LostOnly({"call"})'
    BY <2>3 DEF LostOnly
  <2> QED BY <1>2, <2>1, <2>2, <2>3, <2>4 DEF Remembered
<1>5. CASE Lose("call") /\ UNCHANGED conc
  <2>1. lost' = Append(lost, "call") /\ Len(lost) < Budget
    BY <1>2, <1>5 DEF Lose, InBudget
  <2>2. lost' \in Seq({"call", "write"}) /\ Len(lost') = Len(lost) + 1
    BY <1>1, <1>2, <2>1
  <2>3. LostOnly({"call"})' => LostOnly({"call"})
    <3>1. \A i \in DOMAIN lost : i \in DOMAIN lost' /\ lost'[i] = lost[i]
      BY <1>1, <1>2, <2>1
    <3> QED BY <3>1 DEF LostOnly
  <2>4. Remembered'
    BY <1>5, <2>3 DEF Remembered
  <2> QED BY <1>1, <1>2, <1>5, <2>1, <2>2, <2>4
<1> QED BY <1>3, <1>4, <1>5 DEF Calls, s

-----------------------------------------------------------------------------
(* One lemma per action.  RestOK has what a call to a site leaves alone.   *)

RestOK ==
    /\ subnets \in [Sites -> SUBSET Subnets]
    /\ edge \in Tunnel \union {NoTunnel}
    /\ drawn \in 0..Budget /\ updates \in 0..Budget
    /\ reported \subseteq Sites \X (1..Budget) \X Limits
    /\ crossed \in BOOLEAN /\ doubled \in BOOLEAN /\ wanted \in BOOLEAN

CallsOK ==
    /\ conc \in [Sites -> Concentrators]
    /\ lost \in Seq({"call", "write"}) /\ Len(lost) <= Budget

\* The types, by what steps leave alone together.
LEMMA Parts == TypeOK <=> CallsOK /\ ThreadsOK /\ RestOK /\ met \in BOOLEAN
  BY DEF TypeOK, CallsOK, ThreadsOK, RestOK, Jobs

\* The same of the next state.
LEMMA PartsNext ==
    ASSUME CallsOK', ThreadsOK', RestOK', met' \in BOOLEAN
    PROVE  TypeOK'
  BY DEF TypeOK, CallsOK, ThreadsOK, RestOK, Jobs, Running

\* Where a thread runs, a tunnel has been saved, and it stays saved.
LEMMA EdgeStays ==
    ASSUME EdgeFirst, NEW w \in Workers, pc[w] # "idle", edge' = edge
    PROVE  EdgeFirst'
  BY DEF EdgeFirst

\* Within the budget there is one more tunnel, and one more update.
LEMMA BudgetLeft ==
    ASSUME TypeOK, InBudget
    PROVE  drawn + 1 \in 1..Budget /\ updates + 1 \in 0..Budget /\ drawn + 1 \in 0..Budget
<1>1. Len(lost) \in Nat /\ drawn \in Nat /\ updates \in Nat /\ Budget \in Nat
  BY TunnelsAssumption DEF TypeOK
<1> QED BY <1>1 DEF InBudget

\* After a call a thread goes to the second end, or returns.
LEMMA AfterFirstKeeps ==
    ASSUME ThreadsOK, NEW w \in Workers, Running(w), NEW first, NEW second \in Steps,
           IF pc[w] = first THEN AfterFirst(w, second) ELSE Return(w)
    PROVE  ThreadsOK'
  BY GotoKeeps, ReturnKeeps DEF AfterFirst

\* new at an end.
LEMMA NewAtKeeps ==
    ASSUME IInv, NEW w \in Workers, NewAt(w), met' \in BOOLEAN
    PROVE  IInv'
<1> DEFINE c == conc[Target(w)]
           t == Message(job[w].tunnel)
<1>1. Running(w) /\ pc[w] # "idle"
  BY DEF NewAt, Running
<1>2. c \in Concentrators /\ t \in Messages
  BY <1>1, CallTypes DEF IInv
<1>3. Calls(w, New(c, t, Nets(w)), NewHalf(c, t, Nets(w)))
  BY DEF NewAt
<1>4. CallsOK' /\ Remembered'
  <2> HIDE DEF c, t
  <2>1. \A r \in New(c, t, Nets(w)) : r \in Concentrators /\ (Remembers(c) => Remembers(r))
    BY <1>2, NewKeeps
  <2>2. \A r \in NewHalf(c, t, Nets(w)) : r \in Concentrators
    BY <1>2, NewHalfKeeps
  <2> QED BY <1>1, <1>3, <2>1, <2>2, CallsKeep DEF CallsOK, IInv, c
<1>5. ThreadsOK'
  BY <1>1, Parts, AfterFirstKeeps DEF NewAt, IInv, Steps
<1>6. RestOK' /\ EdgeFirst'
  BY <1>1, Parts, EdgeStays DEF NewAt, IInv, RestOK
<1> QED BY <1>4, <1>5, <1>6, PartsNext DEF IInv

\* renew at an end.
LEMMA RenewAtKeeps ==
    ASSUME IInv, NEW w \in Workers, RenewAt(w), met' \in BOOLEAN
    PROVE  IInv'
<1> DEFINE c == conc[Target(w)]
           t == Message(job[w].tunnel)
<1>1. Running(w) /\ pc[w] # "idle"
  BY DEF RenewAt, Running
<1>2. c \in Concentrators /\ t \in Messages
  BY <1>1, CallTypes DEF IInv
<1>3. Calls(w, Renew(c, t, Nets(w)), RenewHalf(c, t, Nets(w)))
  BY DEF RenewAt
<1>4. CallsOK' /\ Remembered'
  <2> HIDE DEF c, t
  <2>1. \A r \in Renew(c, t, Nets(w)) : r \in Concentrators /\ (Remembers(c) => Remembers(r))
    BY <1>2, RenewKeeps
  <2>2. \A r \in RenewHalf(c, t, Nets(w)) : r \in Concentrators
    BY <1>2, RenewHalfKeeps
  <2> QED BY <1>1, <1>3, <2>1, <2>2, CallsKeep DEF CallsOK, IInv, c
<1>5. ThreadsOK'
  BY <1>1, Parts, AfterFirstKeeps DEF RenewAt, IInv, Steps
<1>6. reported' \subseteq Sites \X (1..Budget) \X Limits
  BY Parts DEF RenewAt, Recount, IInv, RestOK
<1>7. RestOK' /\ EdgeFirst'
  BY <1>1, <1>6, Parts, EdgeStays DEF RenewAt, IInv, RestOK
<1> QED BY <1>4, <1>5, <1>7, PartsNext DEF IInv

\* The tunnel a renewal makes.
LEMMA ReconnectKeeps ==
    ASSUME TypeOK, EdgeFirst, NEW w \in Workers, Running(w), job[w].op = "soft", Reconnect(w)
    PROVE  ThreadsOK' /\ EdgeFirst' /\ edge' \in Tunnel /\ drawn' \in 0..Budget
<1> DEFINE t == [id |-> drawn + 1, first |-> job[w].notice.first, live |-> FALSE,
                 nets |-> job[w].notice.nets]
           j == [job[w] EXCEPT !.tunnel = t]
<1>1. job[w] \in Jobs /\ job[w].notice \in Messages
  BY DEF TypeOK, Jobs
<1>2. drawn + 1 \in 1..Budget /\ drawn' = drawn + 1 /\ drawn + 1 \in 0..Budget
  BY BudgetLeft DEF Reconnect
<1>3. t \in Tunnel
  BY <1>1, <1>2 DEF Tunnel, Messages
<1>4. edge' = t /\ pc' = [pc EXCEPT ![w] = "new1"] /\ job' = [job EXCEPT ![w].tunnel = t]
  BY DEF Reconnect, Save
<1> HIDE DEF t
<1>5. j \in Jobs /\ j.tunnel = t /\ j.op = "soft" /\ j.notice = job[w].notice
  BY <1>1, <1>3 DEF Jobs
<1>6. job' = [job EXCEPT ![w] = j]
  BY <1>4
<1>7. t # NoTunnel /\ j.notice # NoTunnel
  BY <1>1, <1>3, <1>5, NoTunnelAssumption
<1>8. ThreadsOK'
  <2> HIDE DEF j
  <2> QED BY <1>4, <1>5, <1>6, <1>7, Parts, RunKeeps DEF Steps
<1>9. EdgeFirst'
  BY <1>4, <1>7 DEF EdgeFirst
<1> QED BY <1>2, <1>3, <1>4, <1>8, <1>9

\* remove at an end, after which a renewal makes a new tunnel.
LEMMA RemoveAtKeeps ==
    ASSUME IInv, NEW w \in Workers, RemoveAt(w), met' \in BOOLEAN
    PROVE  IInv'
<1> DEFINE c == conc[Target(w)]
           t == Message(job[w].tunnel)
<1>1. Running(w) /\ pc[w] # "idle"
  BY DEF RemoveAt, Running
<1>2. c \in Concentrators /\ t \in Messages
  BY <1>1, CallTypes DEF IInv
<1>3. Calls(w, Remove(c, t, Nets(w)), RemoveHalf(c, t, Nets(w)))
  BY DEF RemoveAt
<1>4. CallsOK' /\ Remembered'
  <2> HIDE DEF c, t
  <2>1. \A r \in Remove(c, t, Nets(w)) : r \in Concentrators /\ (Remembers(c) => Remembers(r))
    BY <1>2, RemoveKeeps
  <2>2. \A r \in RemoveHalf(c, t, Nets(w)) : r \in Concentrators
    BY <1>2, RemoveHalfKeeps
  <2> QED BY <1>1, <1>3, <2>1, <2>2, CallsKeep DEF CallsOK, IInv, c
<1>5. ThreadsOK' /\ EdgeFirst' /\ edge' \in Tunnel \union {NoTunnel} /\ drawn' \in 0..Budget
  <2>1. CASE pc[w] = "remove1" /\ AfterFirst(w, "remove2") /\ UNCHANGED <<edge, drawn>>
    BY <1>1, <2>1, Parts, GotoKeeps, EdgeStays DEF AfterFirst, Steps, IInv, RestOK
  <2>2. CASE job[w].op = "soft" /\ Reconnect(w)
    BY <1>1, <2>2, ReconnectKeeps DEF IInv
  <2>3. CASE Return(w) /\ UNCHANGED <<edge, drawn>>
    BY <1>1, <2>3, Parts, ReturnKeeps, EdgeStays DEF IInv, RestOK
  <2> QED BY <2>1, <2>2, <2>3 DEF RemoveAt
<1>6. RestOK'
  BY <1>5, Parts DEF RemoveAt, IInv, RestOK
<1> QED BY <1>4, <1>5, <1>6, PartsNext DEF IInv

\* Nothing is called.
LEMMA RememberedStays ==
    ASSUME IInv, UNCHANGED <<conc, lost>>
    PROVE  CallsOK' /\ Remembered'
  BY DEF IInv, TypeOK, CallsOK, Remembered, LostOnly

\* The work a command, an update or a notification begins with.
LEMMA JobOK ==
    ASSUME NEW op \in Ops \ {"soft"}, NEW t \in Tunnel \union {NoTunnel}
    PROVE  LET j == [NoJob EXCEPT !.op = op, !.tunnel = t]
           IN  j \in Jobs /\ j.tunnel = t /\ j.op # "soft"
  BY DEF NoJob, Jobs

\* The command connect.
LEMMA ConnectKeeps ==
    ASSUME IInv, NEW w \in Workers, NEW s \in Sites, Connect(w, s), met' \in BOOLEAN
    PROVE  IInv'
<1> DEFINE t == [id |-> drawn + 1, first |-> s, live |-> TRUE, nets |-> NoNets]
           j == [NoJob EXCEPT !.op = "connect", !.tunnel = t]
<1>1. drawn + 1 \in 1..Budget /\ drawn' = drawn + 1 /\ drawn + 1 \in 0..Budget
  BY BudgetLeft DEF Connect, IInv
<1>2. t \in Tunnel
  BY <1>1 DEF Tunnel, NoNets
<1>3. edge' = t /\ Run(w, "new1", j)
  BY DEF Connect, Save
<1> HIDE DEF t
<1>4. j \in Jobs /\ j.tunnel = t /\ j.op # "soft"
  BY <1>2, JobOK DEF Ops
<1>5. t # NoTunnel
  BY <1>2, NoTunnelAssumption
<1>6. ThreadsOK'
  <2> HIDE DEF j
  <2> QED BY <1>3, <1>4, <1>5, Parts, RunKeeps DEF Run, Steps, IInv
<1>7. EdgeFirst'
  BY <1>3, <1>5 DEF EdgeFirst
<1>8. crossed' \in BOOLEAN /\ doubled' \in BOOLEAN
  BY DEF Connect, Run
<1>9. RestOK'
  BY <1>1, <1>2, <1>3, <1>8, Parts DEF Connect, IInv, RestOK
<1> QED BY <1>6, <1>7, <1>9, RememberedStays, PartsNext DEF Connect, IInv

\* The command disconnect.
LEMMA DisconnectKeeps ==
    ASSUME IInv, NEW w \in Workers, Disconnect(w), met' \in BOOLEAN
    PROVE  IInv'
<1> DEFINE j == [NoJob EXCEPT !.op = "disconnect", !.tunnel = edge]
<1>1. j \in Jobs /\ j.tunnel = edge /\ j.op # "soft" /\ edge # NoTunnel
  BY JobOK, Parts DEF Disconnect, Ops, IInv, RestOK
<1>2. Run(w, "remove1", j)
  BY DEF Disconnect
<1> HIDE DEF j
<1>3. ThreadsOK'
  BY <1>1, <1>2, Parts, RunKeeps DEF Run, Steps, IInv
<1>4. EdgeFirst'
  BY <1>1 DEF Disconnect, EdgeFirst
<1>5. crossed' \in BOOLEAN
  BY <1>2 DEF Run
<1>6. RestOK'
  BY <1>5, Parts DEF Disconnect, IInv, RestOK
<1> QED BY <1>3, <1>4, <1>6, RememberedStays, PartsNext DEF Disconnect, IInv

\* What an update of subnets has to renew.
LEMMA RefreshKeeps ==
    ASSUME IInv, NEW w \in Workers, Refresh(w), UNCHANGED <<conc, edge>>
    PROVE  ThreadsOK' /\ EdgeFirst' /\ crossed' \in BOOLEAN
<1>1. CASE edge = NoTunnel /\ UNCHANGED <<pc, job, crossed>>
  <2>1. ThreadsOK'
    BY <1>1, Parts DEF IInv, ThreadsOK, Running
  <2> QED BY <1>1, <2>1, Parts DEF IInv, RestOK, EdgeFirst
<1>2. CASE /\ edge # NoTunnel
           /\ Run(w, "renew1", [NoJob EXCEPT !.op = "refresh", !.tunnel = edge])
  <2> DEFINE j == [NoJob EXCEPT !.op = "refresh", !.tunnel = edge]
  <2>1. j \in Jobs /\ j.tunnel = edge /\ j.op # "soft"
    BY JobOK, Parts DEF Ops, IInv, RestOK
  <2> HIDE DEF j
  <2>2. ThreadsOK'
    BY <1>2, <2>1, Parts, RunKeeps DEF Run, Steps, IInv, j
  <2> QED BY <1>2, <2>2 DEF EdgeFirst, Run
<1> QED BY <1>1, <1>2 DEF Refresh

\* A site gets a subnet.
LEMMA AddSubnetKeeps ==
    ASSUME IInv, NEW w \in Workers, NEW n \in Subnets, AddSubnet(w, n), met' \in BOOLEAN
    PROVE  IInv'
<1>1. ThreadsOK' /\ EdgeFirst' /\ crossed' \in BOOLEAN
  BY RefreshKeeps DEF AddSubnet
<1>2. updates' \in 0..Budget
  BY BudgetLeft DEF AddSubnet, IInv
<1>3. subnets' \in [Sites -> SUBSET Subnets]
  BY Parts DEF AddSubnet, IInv, RestOK
<1>4. RestOK'
  BY <1>1, <1>2, <1>3, Parts DEF AddSubnet, IInv, RestOK
<1> QED BY <1>1, <1>4, RememberedStays, PartsNext DEF AddSubnet, IInv

\* A site loses a subnet.
LEMMA RemoveSubnetKeeps ==
    ASSUME IInv, NEW w \in Workers, NEW n \in Subnets, RemoveSubnet(w, n), met' \in BOOLEAN
    PROVE  IInv'
<1>1. ThreadsOK' /\ EdgeFirst' /\ crossed' \in BOOLEAN
  BY RefreshKeeps DEF RemoveSubnet
<1>2. updates' \in 0..Budget
  BY BudgetLeft DEF RemoveSubnet, IInv
<1>3. subnets' \in [Sites -> SUBSET Subnets]
  BY Parts DEF RemoveSubnet, IInv, RestOK
<1>4. RestOK'
  BY <1>1, <1>2, <1>3, Parts DEF RemoveSubnet, IInv, RestOK
<1> QED BY <1>1, <1>4, RememberedStays, PartsNext DEF RemoveSubnet, IInv

\* A notification comes in.
LEMMA LimitKeeps ==
    ASSUME IInv, NEW w \in Workers, NEW s \in Sites, NEW limit \in Limits,
           Limit(w, s, limit), met' \in BOOLEAN
    PROVE  IInv'
<1>1. PICK n \in Subnets :
        LET t == conc[s].encrypt[n]
        IN  /\ t # NoTunnel
            /\ reported' = reported \union {<<s, t.id, limit>>}
            /\ pc' = [pc EXCEPT ![w] = "start"]
            /\ job' = [job EXCEPT ![w] = [NoJob EXCEPT !.op = limit, !.notice = t]]
  BY DEF Limit
<1> DEFINE t == conc[s].encrypt[n]
           j == [NoJob EXCEPT !.op = limit, !.notice = t]
<1>2. t \in Messages /\ t # NoTunnel /\ edge # NoTunnel
  BY <1>1, Parts DEF IInv, CallsOK, Concentrators, EdgeFirst
<1>3. /\ reported' = reported \union {<<s, t.id, limit>>}
      /\ pc' = [pc EXCEPT ![w] = "start"] /\ job' = [job EXCEPT ![w] = j]
  BY <1>1
<1> HIDE DEF t
<1>4. j \in Jobs /\ j.notice # NoTunnel
  BY <1>2 DEF NoJob, Jobs, Ops, Limits
<1>5. ThreadsOK'
  <2> HIDE DEF j
  <2> QED BY <1>3, <1>4, Parts, RunKeeps DEF Steps, IInv
<1>6. reported' \subseteq Sites \X (1..Budget) \X Limits
  BY <1>2, <1>3, Parts DEF Messages, IInv, RestOK
<1>7. EdgeFirst'
  BY <1>2 DEF Limit, EdgeFirst
<1>8. RestOK'
  BY <1>6, Parts DEF Limit, history, IInv, RestOK
<1> QED BY <1>5, <1>7, <1>8, RememberedStays, PartsNext DEF Limit, history, IInv

\* A notification is worked on, whatever tunnel is remembered by now.
LEMMA BeginKeeps ==
    ASSUME IInv, NEW w \in Workers, Begin(w), met' \in BOOLEAN
    PROVE  IInv'
<1> DEFINE j == [job[w] EXCEPT !.tunnel = edge]
<1>1. edge \in Tunnel /\ edge # NoTunnel
  BY Parts DEF Begin, IInv, EdgeFirst, RestOK
<1>2. job[w] \in Jobs /\ (job[w].op = "soft" => job[w].notice # NoTunnel)
  BY Parts DEF IInv, ThreadsOK
<1>3. j \in Jobs /\ j.tunnel = edge /\ j.op = job[w].op /\ j.notice = job[w].notice
  BY <1>1, <1>2 DEF Jobs
<1>4. Run(w, "remove1", j)
  BY DEF Begin
<1> HIDE DEF j
<1>5. ThreadsOK'
  BY <1>1, <1>2, <1>3, <1>4, Parts, RunKeeps DEF Run, Steps, IInv
<1>6. EdgeFirst' /\ crossed' \in BOOLEAN
  BY <1>1, <1>4 DEF Begin, Run, EdgeFirst
<1>7. RestOK'
  BY <1>6, Parts DEF Begin, IInv, RestOK
<1> QED BY <1>5, <1>6, <1>7, RememberedStays, PartsNext DEF Begin, IInv

-----------------------------------------------------------------------------
(* The theorems.                                                           *)

\* The invariant holds when the sites have registered.
LEMMA InitOK == Init => IInv
<1> SUFFICES ASSUME Init PROVE IInv
  OBVIOUS
<1>1. Fresh \in Concentrators /\ Fresh.installed = Fresh.decrypt
      /\ \A n \in Subnets : Fresh.encrypt[n] = NoTunnel
  BY ConcentratorAssumption DEF Fresh, Concentrators
<1>2. CallsOK
  BY <1>1, TunnelsAssumption DEF Init, CallsOK
<1>3. ThreadsOK
  BY NoJobOK DEF Init, ThreadsOK, Running, Steps
<1>4. RestOK
  <2>1. 0 \in 0..Budget
    BY TunnelsAssumption
  <2>2. subnets \in [Sites -> SUBSET Subnets] /\ edge = NoTunnel
        /\ drawn = 0 /\ updates = 0 /\ reported = {}
        /\ crossed = FALSE /\ doubled = FALSE /\ wanted = FALSE
    BY DEF Init
  <2> QED BY <2>1, <2>2 DEF RestOK
<1>5. EdgeFirst /\ Remembered
  BY <1>1 DEF Init, EdgeFirst, Remembered, Remembers
<1> QED BY <1>2, <1>3, <1>4, <1>5, Parts DEF IInv, Init

\* Every step keeps it.
LEMMA NextOK == IInv /\ [Next]_vars => IInv'
<1> SUFFICES ASSUME IInv, [Next]_vars PROVE IInv'
  OBVIOUS
<1>1. CASE Next
  <2>1. met' \in BOOLEAN
    BY <1>1, Parts DEF Next, IInv
  <2>2. PICK w \in Workers : Step(w)
    BY <1>1 DEF Next
  <2>3. CASE NewAt(w)
    BY <2>1, <2>3, NewAtKeeps
  <2>4. CASE RemoveAt(w)
    BY <2>1, <2>4, RemoveAtKeeps
  <2>5. CASE RenewAt(w)
    BY <2>1, <2>5, RenewAtKeeps
  <2>6. CASE Begin(w)
    BY <2>1, <2>6, BeginKeeps
  <2>7. CASE Disconnect(w)
    BY <2>1, <2>7, DisconnectKeeps
  <2>8. CASE \E s \in Sites : Connect(w, s) \/ \E limit \in Limits : Limit(w, s, limit)
    BY <2>1, <2>8, ConnectKeeps, LimitKeeps
  <2>9. CASE \E n \in Subnets : AddSubnet(w, n) \/ RemoveSubnet(w, n)
    BY <2>1, <2>9, AddSubnetKeeps, RemoveSubnetKeeps
  <2> QED BY <2>2, <2>3, <2>4, <2>5, <2>6, <2>7, <2>8, <2>9 DEF Step
<1>2. CASE UNCHANGED vars
  <2>1. TypeOK'
    BY <1>2 DEF vars, history, IInv, TypeOK, Running
  <2>2. EdgeFirst' /\ Remembered'
    BY <1>2 DEF vars, history, IInv, EdgeFirst, Remembered, LostOnly
  <2> QED BY <2>1, <2>2 DEF IInv
<1> QED BY <1>1, <1>2

\* The state stays in its types; in particular a thread that calls a site has a
\* tunnel to call it about, also when it begins with the one that is remembered.
THEOREM TunnelTypes == Spec => []TypeOK
<1>1. IInv => TypeOK
  BY DEF IInv
<1> QED BY <1>1, InitOK, NextOK, PTL DEF Spec

\* A concentrator remembers exactly the tunnels it can decrypt, whichever calls
\* are lost, for any number of threads, subnets, registers and tunnels.
THEOREM InstalledAreDecrypted == Spec => []InstalledDecrypts
<1>1. IInv => InstalledDecrypts
  BY DEF IInv, Remembered, Remembers, InstalledDecrypts
<1> QED BY <1>1, InitOK, NextOK, PTL DEF Spec

-----------------------------------------------------------------------------
(* The entries of an end belong to one tunnel, as long as subnets stay.    *)

\* No write is lost, and no subnet was added or removed.
Still == LostOnly({"call"}) /\ updates = 0

\* An end has no tunnel and no entries, or one tunnel and the entries of all of
\* nets, the subnets of the other end; the tunnels its entries were written for
\* are between the subnets all.
WholeEnd(c, nets) ==
    nets # {} =>
      \/ c.installed = {} /\ Entries(c, Subnets) = {}
      \/ \E t \in 1..Budget :
           /\ c.installed = {t}
           /\ Entries(c, Subnets) = nets
           /\ \A n \in nets : c.encrypt[n].id = t

FromNets(c, all) == \A n \in Subnets : c.encrypt[n] # NoTunnel => c.encrypt[n].nets = all

EndOK(c, all, nets) == WholeEnd(c, nets) /\ FromNets(c, all)

Ends == Still => \A s \in Sites : EndOK(conc[s], subnets, subnets[Other(s)])

\* Whatever a thread works on, and what is remembered, is between the subnets
\* there are.
Copy(t) == t # NoTunnel => Message(t).nets = subnets

JobCopies(j) == Copy(j.tunnel) /\ (j.notice # NoTunnel => j.notice.nets = subnets)

Copies == Still => Copy(edge) /\ \A w \in Workers : JobCopies(job[w])

WholeInv == Ends /\ Copies

\* What the other handlers and limits see of an end: its tunnels and its pool.
State(c) == <<c.installed, c.free>>

\* What new does to it, at an end that has subnets to reach.
Installed(c, id) ==
    CASE c.free < 2 -> <<c.installed, 0>>
      [] c.free >= 2 /\ c.installed # {} -> <<c.installed, c.free - 2>>
      [] OTHER -> <<{id}, c.free - 2>>

\* Writing entries, and what is left of an end's entries after it.
LEMMA EntriesAfter ==
    ASSUME NEW c \in Concentrators, NEW nets, NEW t \in Messages \union {NoTunnel}
    PROVE  /\ \A n \in Subnets :
                Encrypt(c, nets, t).encrypt[n] = IF n \in nets THEN t ELSE c.encrypt[n]
           /\ t = NoTunnel =>
                Entries(Encrypt(c, nets, t), Subnets) = Entries(c, Subnets) \ nets
           /\ t # NoTunnel /\ nets \subseteq Subnets =>
                Entries(Encrypt(c, nets, t), Subnets) = Entries(c, Subnets) \union nets
<1> DEFINE e == Encrypt(c, nets, t)
<1>1. e.encrypt = [n \in Subnets |-> IF n \in nets THEN t ELSE c.encrypt[n]]
  BY DEF Encrypt, Concentrators
<1> HIDE DEF e
<1>2. ASSUME NEW n \in Subnets PROVE e.encrypt[n] = IF n \in nets THEN t ELSE c.encrypt[n]
  BY <1>1
<1>3. t = NoTunnel => Entries(e, Subnets) = Entries(c, Subnets) \ nets
  BY <1>2 DEF Entries
<1>4. t # NoTunnel /\ nets \subseteq Subnets => Entries(e, Subnets) = Entries(c, Subnets) \union nets
  BY <1>2 DEF Entries
<1> QED BY <1>2, <1>3, <1>4 DEF e

\* remove takes a tunnel away from an end as a whole.
LEMMA RemoveEnd ==
    ASSUME NEW c \in Concentrators, Remembers(c), NEW t \in Messages,
           NEW nets \in SUBSET Subnets, EndOK(c, t.nets, nets), NEW r \in Remove(c, t, nets)
    PROVE  /\ EndOK(r, t.nets, nets)
           /\ r.installed = c.installed \ {t.id} /\ r.free = c.free
<1> DEFINE e == Encrypt(c, nets, NoTunnel)
<1>1. /\ e \in Concentrators /\ e.installed = c.installed /\ e.decrypt = c.decrypt
      /\ e.free = c.free
  BY EncryptKeeps
<1>2. /\ \A n \in Subnets : e.encrypt[n] = IF n \in nets THEN NoTunnel ELSE c.encrypt[n]
      /\ Entries(e, Subnets) = Entries(c, Subnets) \ nets
  BY EntriesAfter
<1>3. CASE t.id \notin c.installed
  <2>1. r = c
    BY <1>3 DEF Remove
  <2> QED BY <1>3, <2>1
<1>4. CASE t.id \in c.installed
  <2>1. Entries(c, nets) = nets
    <3>1. Entries(c, nets) = Entries(c, Subnets) \intersect nets
      BY DEF Entries
    <3>2. nets = {} \/ Entries(c, Subnets) = nets
      BY <1>4 DEF EndOK, WholeEnd
    <3> QED BY <3>1, <3>2
  <2>2. t.id \in c.decrypt
    BY <1>4 DEF Remembers
  <2>3. r = Forget(e, t.id)
    BY <1>4, <2>1, <2>2 DEF Remove
  <2> HIDE DEF e
  <2>4. /\ r.installed = c.installed \ {t.id} /\ r.free = c.free /\ r.encrypt = e.encrypt
    BY <1>1, <2>3 DEF Forget, Concentrators
  <2>5. FromNets(r, t.nets)
    BY <1>2, <2>4 DEF EndOK, FromNets
  <2>6. WholeEnd(r, nets)
    <3> SUFFICES ASSUME nets # {} PROVE r.installed = {} /\ Entries(r, Subnets) = {}
      BY DEF WholeEnd
    <3>1. c.installed = {t.id} /\ Entries(c, Subnets) = nets
      BY <1>4 DEF EndOK, WholeEnd
    <3>2. Entries(r, Subnets) = Entries(e, Subnets)
      BY <2>4 DEF Entries
    <3> QED BY <1>2, <2>4, <3>1, <3>2
  <2> QED BY <2>4, <2>5, <2>6 DEF EndOK
<1> QED BY <1>3, <1>4

\* new gives an end a tunnel as a whole, or leaves it the one it has; what
\* becomes of it depends on its tunnels and its pool only.
LEMMA NewEnd ==
    ASSUME NEW c \in Concentrators, Remembers(c), NEW t \in Messages,
           NEW nets \in SUBSET Subnets, EndOK(c, t.nets, nets), NEW r \in New(c, t, nets)
    PROVE  /\ EndOK(r, t.nets, nets)
           /\ r.installed \subseteq c.installed \union {t.id}
           /\ nets # {} => State(r) = Installed(c, t.id)
<1> DEFINE k == Taken(c)
           blocked == Blocked(c, nets)
<1>1. /\ c.free \in Nat /\ (Enough(c) <=> c.free >= 2)
      /\ t # NoTunnel /\ t.id \in 1..Budget
      /\ blocked = Entries(c, Subnets) \intersect nets
  BY NoTunnelAssumption DEF Concentrators, Enough, Blocked, Entries, Messages
<1>2. CASE ~Enough(c)
  <2>1. r = [c EXCEPT !.free = 0]
    BY <1>2 DEF New, Drained
  <2>2. r.installed = c.installed /\ r.encrypt = c.encrypt /\ r.free = 0
    BY <2>1 DEF Concentrators
  <2>3. EndOK(r, t.nets, nets)
    BY <2>2 DEF EndOK, WholeEnd, FromNets, Entries
  <2>4. State(r) = Installed(c, t.id)
    BY <1>1, <1>2, <2>2 DEF State, Installed
  <2> QED BY <2>2, <2>3, <2>4
<1>3. CASE Enough(c)
  <2>1. k \in Concentrators /\ k.installed = c.installed /\ k.decrypt = c.decrypt
        /\ k.encrypt = c.encrypt /\ k.free = c.free - 2
    BY <1>3, PoolKeeps DEF Taken, Concentrators
  <2>2. Entries(k, Subnets) = Entries(c, Subnets)
    BY <2>1 DEF Entries
  <2>3. CASE t.id \in c.installed
    <3>1. r = k
      BY <1>3, <2>3 DEF New
    <3> HIDE DEF k
    <3>2. r.installed = c.installed /\ r.encrypt = c.encrypt /\ r.free = c.free - 2
      BY <2>1, <3>1
    <3>3. EndOK(r, t.nets, nets)
      BY <3>2 DEF EndOK, WholeEnd, FromNets, Entries
    <3>4. State(r) = Installed(c, t.id)
      BY <1>1, <1>3, <2>3, <3>2 DEF State, Installed
    <3> QED BY <3>2, <3>3, <3>4
  <2>4. CASE t.id \notin c.installed /\ blocked # {}
    <3>1. \E done \in SUBSET (nets \ blocked) : r = Encrypt(k, done, t)
      BY <1>3, <2>4 DEF New
    <3> HIDE DEF k, blocked
    <3>2. PICK done \in SUBSET (nets \ blocked) : r = Encrypt(k, done, t)
      BY <3>1
    <3>3. nets # {} /\ Entries(c, Subnets) # {}
      BY <1>1, <2>4
    <3>4. Entries(c, Subnets) = nets /\ c.installed # {}
      BY <3>3 DEF EndOK, WholeEnd
    <3>5. done = {}
      BY <1>1, <3>4
    <3>6. /\ r.installed = c.installed /\ r.free = c.free - 2
          /\ \A n \in Subnets : r.encrypt[n] = c.encrypt[n]
      BY <2>1, <3>2, <3>5, EncryptKeeps, EntriesAfter
    <3>7. EndOK(r, t.nets, nets)
      BY <3>6 DEF EndOK, WholeEnd, FromNets, Entries
    <3>8. State(r) = Installed(c, t.id)
      BY <1>1, <1>3, <3>4, <3>6 DEF State, Installed
    <3> QED BY <3>6, <3>7, <3>8
  <2>5. CASE t.id \notin c.installed /\ blocked = {}
    <3> DEFINE e == Encrypt(k, nets, t)
    <3>1. t.id \notin c.decrypt
      BY <2>5 DEF Remembers
    <3>2. r = Install(e, t.id)
      BY <1>3, <2>5, <3>1 DEF New
    <3>3. /\ e \in Concentrators /\ e.installed = c.installed /\ e.free = c.free - 2
          /\ Entries(e, Subnets) = Entries(c, Subnets) \union nets
          /\ \A n \in Subnets : e.encrypt[n] = IF n \in nets THEN t ELSE c.encrypt[n]
      <4> HIDE DEF k
      <4> QED BY <1>1, <2>1, <2>2, EncryptKeeps, EntriesAfter
    <3> HIDE DEF e
    <3>4. r.installed = c.installed \union {t.id} /\ r.free = c.free - 2 /\ r.encrypt = e.encrypt
      BY <3>2, <3>3 DEF Install, Concentrators
    <3>5. FromNets(r, t.nets)
      BY <3>3, <3>4 DEF EndOK, FromNets
    <3>6. nets # {} => c.installed = {} /\ Entries(c, Subnets) = {}
      BY <1>1, <2>5 DEF EndOK, WholeEnd
    <3>7. WholeEnd(r, nets)
      <4> SUFFICES ASSUME nets # {}
                   PROVE  /\ r.installed = {t.id} /\ Entries(r, Subnets) = nets
                          /\ \A n \in nets : r.encrypt[n].id = t.id
        BY <1>1 DEF WholeEnd
      <4>1. Entries(r, Subnets) = Entries(e, Subnets)
        BY <3>4 DEF Entries
      <4> QED BY <3>3, <3>4, <3>6, <4>1
    <3>8. nets # {} => State(r) = Installed(c, t.id)
      BY <1>1, <1>3, <3>4, <3>6 DEF State, Installed
    <3> QED BY <3>4, <3>5, <3>7, <3>8 DEF EndOK
  <2> QED BY <2>3, <2>4, <2>5
<1> QED BY <1>2, <1>3

\* renew is one and the other.
LEMMA RenewEnd ==
    ASSUME NEW c \in Concentrators, Remembers(c), NEW t \in Messages,
           NEW nets \in SUBSET Subnets, EndOK(c, t.nets, nets), NEW r \in Renew(c, t, nets)
    PROVE  EndOK(r, t.nets, nets)
<1>1. PICK m \in Remove(c, t, nets) : r \in New(m, t, nets)
  BY DEF Renew
<1>2. m \in Concentrators /\ Remembers(m) /\ EndOK(m, t.nets, nets)
  BY RemoveKeeps, RemoveEnd
<1> QED BY <1>1, <1>2, NewEnd

\* Losing a call, or none, loses no write; nothing that was lost is found again.
LEMMA StillBefore ==
    ASSUME TypeOK, NEW w \in Workers, Running(w), NEW outcomes, NEW half, Calls(w, outcomes, half),
           Still', updates' = updates
    PROVE  /\ Still
           /\ \/ UNCHANGED lost /\ \E c \in outcomes : conc' = [conc EXCEPT ![Target(w)] = c]
              \/ Lose("call") /\ UNCHANGED conc
<1>1. lost \in Seq({"call", "write"}) /\ Len(lost) \in Nat
  BY DEF TypeOK
<1>2. CASE UNCHANGED lost /\ \E c \in outcomes : conc' = [conc EXCEPT ![Target(w)] = c]
  BY <1>2 DEF Still, LostOnly
<1>3. CASE Lose("write")
  <2>1. lost' = Append(lost, "write")
    BY <1>3 DEF Lose
  <2>2. Len(lost') \in DOMAIN lost' /\ lost'[Len(lost')] = "write"
    BY <1>1, <2>1
  <2> QED BY <2>2 DEF Still, LostOnly
<1>4. CASE Lose("call") /\ UNCHANGED conc
  <2>1. lost' = Append(lost, "call")
    BY <1>4 DEF Lose
  <2>2. \A i \in DOMAIN lost : i \in DOMAIN lost' /\ lost'[i] = lost[i]
    BY <1>1, <2>1
  <2> QED BY <1>4, <2>2 DEF Still, LostOnly
<1> QED BY <1>2, <1>3, <1>4 DEF Calls

\* A thread calls a site about a tunnel between the subnets there are.
LEMMA CallSite ==
    ASSUME IInv, WholeInv, Still, NEW w \in Workers, Running(w)
    PROVE  /\ Message(job[w].tunnel).nets = subnets
           /\ Nets(w) = subnets[Other(Target(w))] /\ Nets(w) \in SUBSET Subnets
           /\ Remembers(conc[Target(w)])
           /\ EndOK(conc[Target(w)], Message(job[w].tunnel).nets, Nets(w))
<1>1. Target(w) \in Sites /\ Other(Target(w)) \in Sites
  BY CallTypes, OtherSite DEF IInv
<1>2. job[w].tunnel # NoTunnel
  BY DEF IInv, TypeOK
<1>3. Message(job[w].tunnel).nets = subnets
  BY <1>2 DEF WholeInv, Copies, JobCopies, Copy
<1>4. Nets(w) = subnets[Other(Target(w))]
  BY <1>3 DEF Nets
<1>5. Nets(w) \in SUBSET Subnets
  BY <1>1, <1>4 DEF IInv, TypeOK
<1>6. Remembers(conc[Target(w)])
  BY <1>1 DEF IInv, Remembered, Still
<1>7. EndOK(conc[Target(w)], subnets, subnets[Other(Target(w))])
  BY <1>1 DEF WholeInv, Ends
<1> QED BY <1>3, <1>4, <1>5, <1>6, <1>7

\* A call leaves ends as they have to be, if its handler does.
LEMMA CallEnds ==
    ASSUME IInv, WholeInv, NEW w \in Workers, Running(w), NEW outcomes, NEW half,
           Calls(w, outcomes, half), UNCHANGED <<subnets, updates>>,
           Still => \A r \in outcomes : EndOK(r, subnets, subnets[Other(Target(w))])
    PROVE  Ends' /\ (Still' => Still)
<1>1. Target(w) \in Sites /\ conc \in [Sites -> Concentrators] /\ TypeOK
  BY CallTypes DEF IInv, TypeOK
<1> SUFFICES ASSUME Still'
             PROVE  Still /\ \A s \in Sites : EndOK(conc'[s], subnets, subnets[Other(s)])
  BY DEF Ends
<1>2. /\ Still
      /\ \/ \E c \in outcomes : conc' = [conc EXCEPT ![Target(w)] = c]
         \/ UNCHANGED conc
  BY <1>1, StillBefore
<1>3. ASSUME NEW s \in Sites PROVE EndOK(conc'[s], subnets, subnets[Other(s)])
  <2>1. EndOK(conc[s], subnets, subnets[Other(s)])
    BY <1>2 DEF WholeInv, Ends
  <2>2. CASE UNCHANGED conc
    BY <2>1, <2>2
  <2>3. CASE \E c \in outcomes : conc' = [conc EXCEPT ![Target(w)] = c]
    <3>1. PICK c \in outcomes : conc' = [conc EXCEPT ![Target(w)] = c]
      BY <2>3
    <3>2. EndOK(c, subnets, subnets[Other(Target(w))])
      BY <1>2
    <3>3. conc'[s] = IF s = Target(w) THEN c ELSE conc[s]
      BY <1>1, <3>1
    <3> QED BY <2>1, <3>2, <3>3
  <2> QED BY <1>2, <2>2, <2>3
<1> QED BY <1>2, <1>3

\* Calling nobody leaves ends as they are.
LEMMA EndsStay ==
    ASSUME Ends, UNCHANGED <<conc, lost>>,
           UNCHANGED <<subnets, updates>> \/ updates' # 0
    PROVE  Ends' /\ (Still' => Still)
<1>1. CASE UNCHANGED <<subnets, updates>>
  <2>1. Still' <=> Still
    BY <1>1 DEF Still, LostOnly
  <2>2. Still => \A s \in Sites : EndOK(conc'[s], subnets', subnets'[Other(s)])
    BY <1>1 DEF Ends
  <2> QED BY <2>1, <2>2 DEF Ends
<1>2. CASE updates' # 0
  BY <1>2 DEF Ends, Still
<1> QED BY <1>1, <1>2

\* The other threads go on with the tunnels they have.
LEMMA CopiesKeep ==
    ASSUME Copies, Still' => Still, UNCHANGED subnets, NEW w \in Workers,
           \A v \in Workers \ {w} : job'[v] = job[v],
           Still => JobCopies(job'[w]) /\ Copy(edge')
    PROVE  Copies'
<1> SUFFICES ASSUME Still' PROVE Copy(edge)' /\ \A v \in Workers : JobCopies(job[v])'
  BY DEF Copies
<1>1. Still /\ \A v \in Workers : JobCopies(job'[v])
  BY DEF Copies
<1> QED BY <1>1 DEF JobCopies, Copy, Message

\* A thread that is through has nothing to be between any subnets.
LEMMA NoJobCopies == JobCopies(NoJob)
BY DEF JobCopies, Copy, NoJob

\* After a call that changes no tunnel that anyone works on.
LEMMA AfterFirstCopies ==
    ASSUME IInv, Copies, Still' => Still, UNCHANGED <<subnets, edge>>, NEW w \in Workers,
           UNCHANGED job \/ job' = [job EXCEPT ![w] = NoJob]
    PROVE  Copies'
<1>1. job \in [Workers -> Jobs]
  BY Parts DEF IInv, ThreadsOK
<1>2. CASE UNCHANGED job
  BY <1>2, CopiesKeep DEF Copies
<1>3. CASE job' = [job EXCEPT ![w] = NoJob]
  <2>1. job'[w] = NoJob /\ \A v \in Workers \ {w} : job'[v] = job[v]
    BY <1>1, <1>3
  <2> QED BY <2>1, NoJobCopies, CopiesKeep DEF Copies
<1> QED BY <1>2, <1>3

\* The calls of new, remove and renew.
LEMMA CallWhole ==
    ASSUME IInv, WholeInv, NEW w \in Workers, NewAt(w) \/ RemoveAt(w) \/ RenewAt(w)
    PROVE  WholeInv'
<1> DEFINE c == conc[Target(w)]
           t == Message(job[w].tunnel)
<1>1. Running(w) /\ UNCHANGED <<subnets, updates>>
  BY DEF NewAt, RemoveAt, RenewAt, Running
<1>2. c \in Concentrators /\ t \in Messages
  BY <1>1, CallTypes DEF IInv
<1>3. PICK outcomes, half :
        /\ Calls(w, outcomes, half)
        /\ outcomes \in {New(c, t, Nets(w)), Remove(c, t, Nets(w)), Renew(c, t, Nets(w))}
  BY DEF NewAt, RemoveAt, RenewAt
<1>4. Still => \A r \in outcomes : EndOK(r, subnets, subnets[Other(Target(w))])
  <2> SUFFICES ASSUME Still, NEW r \in outcomes
               PROVE  EndOK(r, subnets, subnets[Other(Target(w))])
    OBVIOUS
  <2>1. /\ t.nets = subnets /\ Nets(w) = subnets[Other(Target(w))] /\ Nets(w) \in SUBSET Subnets
        /\ Remembers(c) /\ EndOK(c, t.nets, Nets(w))
    BY <1>1, CallSite
  <2> HIDE DEF c, t
  <2>2. EndOK(r, t.nets, Nets(w))
    BY <1>2, <1>3, <2>1, NewEnd, RemoveEnd, RenewEnd
  <2> QED BY <2>1, <2>2
<1>5. Ends' /\ (Still' => Still)
  BY <1>1, <1>3, <1>4, CallEnds
<1>6. Copies'
  <2>1. CASE UNCHANGED edge /\ (UNCHANGED job \/ job' = [job EXCEPT ![w] = NoJob])
    BY <1>1, <1>5, <2>1, AfterFirstCopies DEF WholeInv
  <2>2. CASE job[w].op = "soft" /\ Reconnect(w)
    <3> DEFINE n == job[w].notice
               new == [id |-> drawn + 1, first |-> n.first, live |-> FALSE, nets |-> n.nets]
    <3>1. job \in [Workers -> Jobs] /\ n # NoTunnel
      BY <2>2, Parts DEF IInv, ThreadsOK
    <3>2. edge' = new /\ job' = [job EXCEPT ![w].tunnel = new]
      BY <2>2 DEF Reconnect, Save
    <3>3. new.nets = n.nets /\ new.live = FALSE
      OBVIOUS
    <3> HIDE DEF new
    <3>4. /\ job'[w].tunnel = new /\ job'[w].notice = n
          /\ \A v \in Workers \ {w} : job'[v] = job[v]
      BY <3>1, <3>2 DEF Jobs
    <3>5. Still => n.nets = subnets
      BY <3>1 DEF WholeInv, Copies, JobCopies
    <3>6. Still => JobCopies(job'[w]) /\ Copy(edge')
      BY <3>2, <3>3, <3>4, <3>5 DEF JobCopies, Copy, Message
    <3> QED BY <1>1, <1>5, <3>4, <3>6, CopiesKeep DEF WholeInv
  <2>3. \/ UNCHANGED edge /\ (UNCHANGED job \/ job' = [job EXCEPT ![w] = NoJob])
        \/ job[w].op = "soft" /\ Reconnect(w)
    BY DEF NewAt, RemoveAt, RenewAt, AfterFirst, Goto, Return
  <2> QED BY <2>1, <2>2, <2>3
<1> QED BY <1>5, <1>6 DEF WholeInv

\* A thread begins something about a tunnel between the subnets there are.
LEMMA BeginWhole ==
    ASSUME IInv, WholeInv, NEW w \in Workers, UNCHANGED <<conc, lost, subnets, updates>>,
           NEW j, job' = [job EXCEPT ![w] = j],
           Still => JobCopies(j) /\ Copy(edge')
    PROVE  WholeInv'
<1>1. job'[w] = j /\ \A v \in Workers \ {w} : job'[v] = job[v]
  BY Parts DEF IInv, ThreadsOK
<1>2. Ends' /\ (Still' => Still)
  BY EndsStay DEF WholeInv
<1> QED BY <1>1, <1>2, CopiesKeep DEF WholeInv

\* A notification is worked on.
LEMMA NoticeWhole ==
    ASSUME IInv, WholeInv, NEW w \in Workers, Begin(w)
    PROVE  WholeInv'
<1> DEFINE j == [job[w] EXCEPT !.tunnel = edge]
<1>1. job[w] \in Jobs
  BY Parts DEF IInv, ThreadsOK
<1>2. j.tunnel = edge /\ j.notice = job[w].notice
  BY <1>1 DEF Jobs
<1>3. job' = [job EXCEPT ![w] = j] /\ UNCHANGED <<conc, lost, subnets, updates, edge>>
  BY DEF Begin, Run
<1> HIDE DEF j
<1>4. Still => JobCopies(j) /\ Copy(edge')
  BY <1>2, <1>3 DEF WholeInv, Copies, JobCopies
<1> QED BY <1>3, <1>4, BeginWhole

\* The command disconnect.
LEMMA DisconnectWhole ==
    ASSUME IInv, WholeInv, NEW w \in Workers, Disconnect(w)
    PROVE  WholeInv'
<1> DEFINE j == [NoJob EXCEPT !.op = "disconnect", !.tunnel = edge]
<1>1. j.tunnel = edge /\ j.notice = NoTunnel
  BY DEF NoJob
<1>2. job' = [job EXCEPT ![w] = j] /\ UNCHANGED <<conc, lost, subnets, updates, edge>>
  BY DEF Disconnect, Run
<1> HIDE DEF j
<1>3. Still => JobCopies(j) /\ Copy(edge')
  BY <1>1, <1>2 DEF WholeInv, Copies, JobCopies
<1> QED BY <1>2, <1>3, BeginWhole

\* The command connect: its tunnel shares the subnets.
LEMMA ConnectWhole ==
    ASSUME IInv, WholeInv, NEW w \in Workers, NEW s \in Sites, Connect(w, s)
    PROVE  WholeInv'
<1> DEFINE t == [id |-> drawn + 1, first |-> s, live |-> TRUE, nets |-> NoNets]
           j == [NoJob EXCEPT !.op = "connect", !.tunnel = t]
<1>1. t.live = TRUE
  OBVIOUS
<1>2. edge' = t /\ Run(w, "new1", j) /\ UNCHANGED <<conc, lost, subnets, updates>>
  BY DEF Connect, Save
<1> HIDE DEF t
<1>3. j.tunnel = t /\ j.notice = NoTunnel
  BY DEF NoJob
<1> HIDE DEF j
<1>4. job' = [job EXCEPT ![w] = j]
  BY <1>2 DEF Run
<1>5. Still => JobCopies(j) /\ Copy(edge')
  BY <1>1, <1>2, <1>3 DEF JobCopies, Copy, Message
<1> QED BY <1>2, <1>4, <1>5, BeginWhole

\* A notification comes in, about a tunnel that an entry was written for.
LEMMA LimitWhole ==
    ASSUME IInv, WholeInv, NEW w \in Workers, NEW s \in Sites, NEW limit \in Limits,
           Limit(w, s, limit)
    PROVE  WholeInv'
<1>1. PICK n \in Subnets :
        LET t == conc[s].encrypt[n]
        IN  /\ t # NoTunnel
            /\ job' = [job EXCEPT ![w] = [NoJob EXCEPT !.op = limit, !.notice = t]]
  BY DEF Limit
<1> DEFINE t == conc[s].encrypt[n]
           j == [NoJob EXCEPT !.op = limit, !.notice = t]
<1>2. Still => t.nets = subnets
  BY <1>1 DEF WholeInv, Ends, EndOK, FromNets
<1>3. job' = [job EXCEPT ![w] = j]
  BY <1>1
<1>4. UNCHANGED <<conc, lost, subnets, updates, edge>>
  BY DEF Limit, history
<1> HIDE DEF t
<1>5. j.tunnel = NoTunnel /\ j.notice = t
  BY DEF NoJob
<1> HIDE DEF j
<1>6. Still => JobCopies(j) /\ Copy(edge')
  BY <1>2, <1>4, <1>5 DEF WholeInv, Copies, JobCopies, Copy
<1> QED BY <1>3, <1>4, <1>6, BeginWhole

\* A subnet that is added or removed is counted.
LEMMA UpdateCounts ==
    ASSUME IInv, NEW w \in Workers, NEW n \in Subnets, AddSubnet(w, n) \/ RemoveSubnet(w, n)
    PROVE  updates' # 0 /\ UNCHANGED <<conc, lost>>
<1>1. updates \in Nat /\ updates' = updates + 1
  BY DEF AddSubnet, RemoveSubnet, IInv, TypeOK
<1> QED BY <1>1 DEF AddSubnet, RemoveSubnet

\* Nothing is installed anywhere when the sites have registered.
LEMMA InitWhole == Init => WholeInv
<1> SUFFICES ASSUME Init PROVE WholeInv
  OBVIOUS
<1>1. \A s \in Sites : conc[s].installed = {} /\ \A n \in Subnets : conc[s].encrypt[n] = NoTunnel
  BY DEF Init, Fresh
<1>2. Ends
  BY <1>1 DEF Ends, EndOK, WholeEnd, FromNets, Entries
<1>3. Copies
  BY NoJobCopies DEF Init, Copies, Copy
<1> QED BY <1>2, <1>3 DEF WholeInv

\* Every step keeps ends whole.
LEMMA NextWhole == IInv /\ WholeInv /\ [Next]_vars => WholeInv'
<1> SUFFICES ASSUME IInv, WholeInv, [Next]_vars PROVE WholeInv'
  OBVIOUS
<1>1. CASE UNCHANGED vars
  <2>1. UNCHANGED <<conc, lost, subnets, updates, edge, job>>
    BY <1>1 DEF vars, history
  <2>2. Ends' /\ (Still' => Still)
    BY <2>1, EndsStay DEF WholeInv
  <2>3. Still => Copy(edge') /\ \A w \in Workers : JobCopies(job'[w])
    BY <2>1 DEF WholeInv, Copies
  <2>4. Copies'
    BY <2>1, <2>2, <2>3 DEF Copies, JobCopies, Copy, Message
  <2> QED BY <2>2, <2>4 DEF WholeInv
<1>2. ASSUME NEW w \in Workers, NEW n \in Subnets, AddSubnet(w, n) \/ RemoveSubnet(w, n)
      PROVE  WholeInv'
  BY <1>2, UpdateCounts DEF WholeInv, Ends, Copies, Still
<1>3. CASE Next
  <2>1. PICK w \in Workers : Step(w)
    BY <1>3 DEF Next
  <2> QED BY <1>2, <2>1, CallWhole, NoticeWhole, DisconnectWhole, ConnectWhole, LimitWhole DEF Step
<1> QED BY <1>1, <1>3

\* As long as subnets stay, the entries of an end belong to one tunnel as a
\* whole, or there are none: for any number of threads whose operations cross,
\* and for any calls that are lost (IpsecManager.new and remove of a switch, with
\* the renewals the WAN controller makes of them).
THEOREM EndsAreWhole == Spec => []WholeTunnel
<1>1. IInv /\ WholeInv => WholeTunnel
  BY DEF WholeInv, Ends, Still, EndOK, WholeEnd, WholeTunnel
<1> QED BY <1>1, InitOK, NextOK, InitWhole, NextWhole, PTL DEF Spec

-----------------------------------------------------------------------------
(* One operation after the other.                                          *)

\* Operations cross as soon as two threads are in the middle of one.
Alone == ~crossed => \A v, w \in Workers : Running(v) /\ Running(w) => v = w

\* How the first end of a tunnel and the other differ in the middle of an
\* operation on it: by what the operation has done to the first.
Between(step, c, d, id) ==
    /\ step \in {"remove1", "new1"} => State(c) = State(d)
    /\ step = "remove2" => State(c) = <<d.installed \ {id}, d.free>>
    /\ step = "new2" => State(c) = Installed(d, id)
    /\ step \notin {"renew1", "renew2"}

Halfway(w) ==
    LET t == job[w].tunnel IN Between(pc[w], conc[t.first], conc[Other(t.first)], t.id)

AgreeInv ==
    Serial /\ Settled =>
        /\ Quiet => \A r, s \in Sites : State(conc[r]) = State(conc[s])
        /\ \A w \in Workers : Running(w) => Halfway(w)

Known(t) == {x.id : x \in {t} \ {NoTunnel}}

\* What is remembered is what threads work on, and all that is installed; it is
\* not at its first end any more when it is removed from the second.
WanInv ==
    Serial /\ ~doubled =>
        /\ \A s \in Sites : conc[s].installed \subseteq Known(edge)
        /\ \A w \in Workers : Running(w) =>
             /\ job[w].tunnel = edge /\ pc[w] \notin {"renew1", "renew2"}
             /\ pc[w] = "remove2" => edge.id \notin conc[edge.first].installed

SerialInv == Alone /\ AgreeInv /\ WanInv

\* What the other threads do is not touched by a thread that goes on.
LEMMA OthersStay ==
    ASSUME IInv, NEW w \in Workers, NEW step, pc' = [pc EXCEPT ![w] = step]
    PROVE  /\ pc'[w] = step /\ \A v \in Workers \ {w} : pc'[v] = pc[v]
           /\ \A v \in Workers \ {w} : Running(v)' <=> Running(v)
           /\ Running(w)' <=> step \notin {"idle", "start"}
<1>1. pc \in [Workers -> Steps]
  BY DEF IInv, TypeOK
<1>2. pc'[w] = step /\ \A v \in Workers \ {w} : pc'[v] = pc[v]
  BY <1>1
<1> QED BY <1>2 DEF Running

\* A call under which nothing is lost.
LEMMA SerialCall ==
    ASSUME IInv, NEW w \in Workers, Running(w), NEW outcomes, NEW half, Calls(w, outcomes, half),
           UNCHANGED <<crossed, updates>>, Serial'
    PROVE  /\ Serial /\ Still
           /\ \E c \in outcomes : conc' = [conc EXCEPT ![Target(w)] = c]
<1>1. lost' = <<>> /\ updates = 0 /\ ~crossed /\ lost \in Seq({"call", "write"})
  BY DEF Serial, IInv, TypeOK
<1>2. ~Lose("write") /\ ~Lose("call")
  BY <1>1 DEF Lose
<1>3. lost = <<>> /\ \E c \in outcomes : conc' = [conc EXCEPT ![Target(w)] = c]
  BY <1>1, <1>2 DEF Calls
<1>4. LostOnly({"call"})
  <2>1. DOMAIN lost = {}
    BY <1>3
  <2> QED BY <2>1 DEF LostOnly
<1> QED BY <1>1, <1>3, <1>4 DEF Serial, Still

\* What new and remove do to the site they are called at, when nothing is lost.
LEMMA CallState ==
    ASSUME IInv, WholeInv, NEW w \in Workers, NewAt(w) \/ RemoveAt(w), Serial'
    PROVE  LET s == Target(w)
               id == job[w].tunnel.id
           IN  /\ Serial /\ s \in Sites
               /\ \A r \in Sites \ {s} : conc'[r] = conc[r]
               /\ NewAt(w) => /\ conc'[s].installed \subseteq conc[s].installed \union {id}
                              /\ Settled => State(conc'[s]) = Installed(conc[s], id)
               /\ RemoveAt(w) => /\ conc'[s].installed = conc[s].installed \ {id}
                                 /\ conc'[s].free = conc[s].free
<1> DEFINE s == Target(w)
           c == conc[s]
           t == Message(job[w].tunnel)
<1>1. Running(w) /\ UNCHANGED <<crossed, updates, subnets>>
  BY DEF NewAt, RemoveAt, Running
<1>2. /\ s \in Sites /\ Other(s) \in Sites /\ c \in Concentrators /\ t \in Messages
      /\ t.id = job[w].tunnel.id
  BY <1>1, CallTypes, OtherSite DEF IInv, Message
<1>3. PICK outcomes, half :
        /\ Calls(w, outcomes, half)
        /\ NewAt(w) => outcomes = New(c, t, Nets(w))
        /\ RemoveAt(w) => outcomes = Remove(c, t, Nets(w))
  <2>1. CASE NewAt(w)
    <3>1. ~RemoveAt(w)
      BY <2>1 DEF NewAt, RemoveAt
    <3> QED BY <2>1, <3>1 DEF NewAt
  <2>2. CASE RemoveAt(w)
    <3>1. ~NewAt(w)
      BY <2>2 DEF NewAt, RemoveAt
    <3> QED BY <2>2, <3>1 DEF RemoveAt
  <2> QED BY <2>1, <2>2
<1>4. Serial /\ Still /\ \E r \in outcomes : conc' = [conc EXCEPT ![Target(w)] = r]
  BY <1>1, <1>3, SerialCall
<1>5. PICK r \in outcomes : conc' = [conc EXCEPT ![Target(w)] = r]
  BY <1>4
<1>6. conc'[s] = r /\ \A x \in Sites \ {s} : conc'[x] = conc[x]
  BY <1>2, <1>5 DEF IInv, TypeOK
<1>7. /\ t.nets = subnets /\ Nets(w) = subnets[Other(s)] /\ Nets(w) \in SUBSET Subnets
      /\ Remembers(c) /\ EndOK(c, t.nets, Nets(w))
  BY <1>1, <1>4, CallSite
<1>8. Settled => Nets(w) # {}
  BY <1>2, <1>7 DEF Settled
<1> HIDE DEF c, t, s
<1>9. NewAt(w) => /\ r.installed \subseteq c.installed \union {t.id}
                  /\ Settled => State(r) = Installed(c, t.id)
  BY <1>2, <1>3, <1>7, <1>8, NewEnd
<1>10. RemoveAt(w) => r.installed = c.installed \ {t.id} /\ r.free = c.free
  BY <1>2, <1>3, <1>7, RemoveEnd
<1> QED BY <1>2, <1>4, <1>6, <1>9, <1>10 DEF c, s

\* Ends that differ by nothing look the same to a handler.
LEMMA SameState ==
    ASSUME NEW c, NEW d, State(c) = State(d), NEW id
    PROVE  /\ c.installed = d.installed /\ c.free = d.free
           /\ Installed(c, id) = Installed(d, id)
BY DEF State, Installed

\* Calls leave the sites to agree.
LEMMA CallAgree ==
    ASSUME IInv, WholeInv, SerialInv, NEW w \in Workers, NewAt(w) \/ RemoveAt(w)
    PROVE  AgreeInv'
<1> SUFFICES ASSUME Serial', Settled'
             PROVE  /\ Quiet' => \A r, s \in Sites : State(conc[r])' = State(conc[s])'
                    /\ \A v \in Workers : Running(v)' => Halfway(v)'
  BY DEF AgreeInv
<1> DEFINE t == job[w].tunnel
           f == t.first
           o == Other(f)
<1>1. /\ Serial /\ Target(w) \in Sites
      /\ \A r \in Sites \ {Target(w)} : conc'[r] = conc[r]
      /\ NewAt(w) => (Settled => State(conc'[Target(w)]) = Installed(conc[Target(w)], t.id))
      /\ RemoveAt(w) => State(conc'[Target(w)]) = <<conc[Target(w)].installed \ {t.id},
                                                    conc[Target(w)].free>>
  BY CallState DEF State
<1>2. Running(w) /\ UNCHANGED subnets /\ Settled
  BY DEF NewAt, RemoveAt, Running, Settled
<1>3. t \in Tunnel
  BY <1>2 DEF IInv, TypeOK
<1>4. f \in Sites /\ o \in Sites /\ o # f /\ Sites = {f, o}
  BY <1>3, OtherSite DEF Tunnel
<1>5. Between(pc[w], conc[f], conc[o], t.id)
  BY <1>1, <1>2 DEF SerialInv, AgreeInv, Halfway
<1>6. \A v \in Workers \ {w} : ~Running(v)
  BY <1>1, <1>2 DEF SerialInv, Alone, Serial
<1>7. Target(w) = IF pc[w] \in {"remove1", "new1"} THEN f ELSE o
  BY DEF NewAt, RemoveAt, Target
<1>8. CASE pc[w] \in {"remove1", "new1"}
  <2>1. PICK step \in {"remove2", "new2"} :
          /\ pc' = [pc EXCEPT ![w] = step] /\ UNCHANGED job
          /\ step = "new2" <=> NewAt(w)
    BY <1>8 DEF NewAt, RemoveAt, AfterFirst, Goto
  <2>2. pc'[w] = step /\ Running(w)' /\ \A v \in Workers \ {w} : ~Running(v)'
    BY <1>6, <2>1, OthersStay
  <2>3. State(conc[f]) = State(conc[o])
    BY <1>5, <1>8 DEF Between
  <2>4. conc'[o] = conc[o]
    BY <1>1, <1>4, <1>7, <1>8
  <2>5. step = "new2" => State(conc'[f]) = Installed(conc'[o], t.id)
    BY <1>1, <1>2, <1>7, <1>8, <2>1, <2>3, <2>4, SameState
  <2>6. step = "remove2" => State(conc'[f]) = <<conc'[o].installed \ {t.id}, conc'[o].free>>
    BY <1>1, <1>7, <1>8, <2>1, <2>3, <2>4, SameState DEF NewAt, RemoveAt
  <2>7. Between(step, conc'[f], conc'[o], t.id)
    BY <2>5, <2>6 DEF Between
  <2>8. Halfway(w)'
    BY <2>1, <2>2, <2>7 DEF Halfway
  <2>9. ~Quiet'
    BY <2>2 DEF Quiet, Running
  <2> QED BY <2>2, <2>8, <2>9
<1>9. CASE pc[w] \in {"remove2", "new2"}
  <2>1. conc'[f] = conc[f]
    BY <1>1, <1>4, <1>7, <1>9
  <2>2. pc[w] = "new2" => State(conc'[f]) = State(conc'[o])
    BY <1>1, <1>2, <1>5, <1>7, <1>9, <2>1 DEF Between, RemoveAt
  <2>3. pc[w] = "remove2" => State(conc'[f]) = State(conc'[o])
    BY <1>1, <1>5, <1>7, <1>9, <2>1 DEF Between, NewAt
  <2>4. \A r, s \in Sites : State(conc'[r]) = State(conc'[s])
    BY <1>4, <1>9, <2>2, <2>3
  <2>5. CASE Return(w)
    <3>1. ~Running(w)' /\ \A v \in Workers \ {w} : ~Running(v)'
      BY <1>6, <2>5, OthersStay DEF Return
    <3> QED BY <2>4, <3>1
  <2>6. CASE job[w].op = "soft" /\ Reconnect(w)
    <3>1. pc'[w] = "new1" /\ \A v \in Workers \ {w} : ~Running(v)'
      BY <1>6, <2>6, OthersStay DEF Reconnect
    <3>2. ThreadsOK' /\ Running(w)'
      BY <1>2, <2>6, <3>1, ReconnectKeeps DEF IInv, Running
    <3>3. job'[w].tunnel \in Tunnel
      BY <3>2 DEF ThreadsOK, Jobs
    <3>4. job'[w].tunnel.first \in Sites /\ Other(job'[w].tunnel.first) \in Sites
      BY <3>3, OtherSite DEF Tunnel
    <3>5. Between("new1", conc'[job'[w].tunnel.first], conc'[Other(job'[w].tunnel.first)],
                  job'[w].tunnel.id)
      BY <2>4, <3>4 DEF Between
    <3>6. Halfway(w)'
      BY <3>1, <3>5 DEF Halfway
    <3>7. ~Quiet'
      BY <3>2 DEF Quiet, Running
    <3> QED BY <3>1, <3>6, <3>7
  <2> QED BY <1>9, <2>5, <2>6 DEF NewAt, RemoveAt
<1> QED BY <1>8, <1>9 DEF NewAt, RemoveAt

\* Calls install and remove the tunnel that is remembered, and a new one comes
\* when both ends are rid of the old one.
LEMMA CallWan ==
    ASSUME IInv, WholeInv, SerialInv, NEW w \in Workers, NewAt(w) \/ RemoveAt(w)
    PROVE  WanInv'
<1> SUFFICES ASSUME Serial', ~doubled'
             PROVE  /\ \A s \in Sites : conc'[s].installed \subseteq Known(edge')
                    /\ \A v \in Workers : Running(v)' =>
                         /\ job'[v].tunnel = edge' /\ pc'[v] \notin {"renew1", "renew2"}
                         /\ pc'[v] = "remove2" => edge'.id \notin conc'[edge'.first].installed
  BY DEF WanInv
<1> DEFINE t == job[w].tunnel
           f == t.first
           o == Other(f)
<1>1. /\ Serial /\ Target(w) \in Sites
      /\ \A r \in Sites \ {Target(w)} : conc'[r] = conc[r]
      /\ NewAt(w) => conc'[Target(w)].installed \subseteq conc[Target(w)].installed \union {t.id}
      /\ RemoveAt(w) => conc'[Target(w)].installed = conc[Target(w)].installed \ {t.id}
  BY CallState
<1>2. Running(w) /\ ~doubled
  BY DEF NewAt, RemoveAt, Running
<1>3. t \in Tunnel /\ t # NoTunnel
  BY <1>2, NoTunnelAssumption DEF IInv, TypeOK
<1>4. f \in Sites /\ o \in Sites /\ o # f /\ Sites = {f, o}
  BY <1>3, OtherSite DEF Tunnel
<1>5. /\ t = edge /\ \A s \in Sites : conc[s].installed \subseteq Known(edge)
      /\ pc[w] = "remove2" => edge.id \notin conc[edge.first].installed
  BY <1>1, <1>2 DEF SerialInv, WanInv
<1>6. Known(edge) = {t.id}
  BY <1>3, <1>5 DEF Known
<1>7. \A v \in Workers \ {w} : ~Running(v)
  BY <1>1, <1>2 DEF SerialInv, Alone, Serial
<1>8. Target(w) = IF pc[w] \in {"remove1", "new1"} THEN f ELSE o
  BY DEF NewAt, RemoveAt, Target
<1>9. \A s \in Sites : conc'[s].installed \subseteq Known(edge)
  BY <1>1, <1>5, <1>6
<1>10. CASE pc[w] \in {"remove1", "new1"}
  <2>1. PICK step \in {"remove2", "new2"} :
          /\ pc' = [pc EXCEPT ![w] = step] /\ UNCHANGED <<job, edge>>
          /\ step = "remove2" => RemoveAt(w)
    BY <1>10 DEF NewAt, RemoveAt, AfterFirst, Goto
  <2>2. pc'[w] = step /\ \A v \in Workers \ {w} : ~Running(v)'
    BY <1>7, <2>1, OthersStay
  <2>3. step = "remove2" => edge.id \notin conc'[edge.first].installed
    BY <1>1, <1>5, <1>8, <1>10, <2>1
  <2> QED BY <1>5, <1>9, <2>1, <2>2, <2>3
<1>11. CASE pc[w] \in {"remove2", "new2"}
  <2>1. CASE Return(w) /\ UNCHANGED edge
    <3>1. ~Running(w)' /\ \A v \in Workers \ {w} : ~Running(v)'
      BY <1>7, <2>1, OthersStay DEF Return
    <3> QED BY <1>9, <2>1, <3>1
  <2>2. CASE pc[w] = "remove2" /\ RemoveAt(w) /\ Reconnect(w)
    <3> DEFINE new == [id |-> drawn + 1, first |-> job[w].notice.first, live |-> FALSE,
                       nets |-> job[w].notice.nets]
    <3>1. edge' = new /\ pc' = [pc EXCEPT ![w] = "new1"] /\ job' = [job EXCEPT ![w].tunnel = new]
      BY <2>2 DEF Reconnect, Save
    <3> HIDE DEF new
    <3>2. pc'[w] = "new1" /\ \A v \in Workers \ {w} : ~Running(v)'
      BY <1>7, <3>1, OthersStay
    <3>3. job'[w].tunnel = edge'
      BY <3>1 DEF IInv, TypeOK
    <3>4. conc'[f].installed = {}
      <4>1. conc'[f] = conc[f]
        BY <1>1, <1>4, <1>8, <2>2
      <4> QED BY <1>4, <1>5, <1>6, <2>2, <4>1
    <3>5. conc'[o].installed = {}
      BY <1>1, <1>4, <1>5, <1>6, <1>8, <2>2
    <3> QED BY <1>4, <3>2, <3>3, <3>4, <3>5
  <2> QED BY <1>11, <2>1, <2>2 DEF NewAt, RemoveAt
<1> QED BY <1>10, <1>11 DEF NewAt, RemoveAt

\* A thread that goes on in a call, or returns, crosses nobody.
LEMMA CallAlone ==
    ASSUME IInv, Alone, NEW w \in Workers, NewAt(w) \/ RemoveAt(w) \/ RenewAt(w)
    PROVE  Alone'
<1>1. UNCHANGED crossed /\ Running(w)
  BY DEF NewAt, RemoveAt, RenewAt, Running
<1>2. PICK step : pc' = [pc EXCEPT ![w] = step]
  BY DEF NewAt, RemoveAt, RenewAt, AfterFirst, Goto, Return, Reconnect
<1>3. \A v \in Workers : Running(v)' => Running(v)
  BY <1>1, <1>2, OthersStay
<1> QED BY <1>1, <1>3 DEF Alone

\* Only updates of subnets renew a tunnel, and they are counted.
LEMMA RenewSerial ==
    ASSUME IInv, SerialInv, NEW w \in Workers, RenewAt(w)
    PROVE  AgreeInv' /\ WanInv'
<1>1. Running(w) /\ UNCHANGED <<crossed, updates, subnets, doubled>>
  BY DEF RenewAt, Running
<1>2. PICK outcomes, half : Calls(w, outcomes, half)
  BY DEF RenewAt
<1>3. Serial' => Serial
  BY <1>1, <1>2, SerialCall
<1>4. ~(Serial /\ Settled) /\ ~(Serial /\ ~doubled)
  BY <1>1 DEF SerialInv, AgreeInv, WanInv, Halfway, Between, RenewAt
<1>5. Settled' <=> Settled
  BY <1>1 DEF Settled
<1> QED BY <1>1, <1>3, <1>4, <1>5 DEF AgreeInv, WanInv

\* A thread begins an operation: it crosses another, or all is settled.
LEMMA RunSerial ==
    ASSUME IInv, Alone, AgreeInv, NEW w \in Workers, ~Running(w), NEW step \in Steps,
           NEW j, Run(w, step, j), step \notin {"idle", "start"}
    PROVE  /\ Alone'
           /\ UNCHANGED <<lost, updates>> /\ Serial' =>
                /\ Serial /\ Quiet
                /\ pc'[w] = step /\ job'[w] = j /\ \A v \in Workers \ {w} : ~Running(v)'
<1>1. /\ pc' = [pc EXCEPT ![w] = step] /\ job' = [job EXCEPT ![w] = j]
      /\ crossed' <=> crossed \/ \E v \in Workers \ {w} : Running(v)
  BY DEF Run
<1>2. pc'[w] = step /\ \A v \in Workers \ {w} : Running(v)' <=> Running(v)
  BY <1>1, OthersStay
<1>3. job'[w] = j
  BY <1>1 DEF IInv, TypeOK
<1>4. ~crossed' => ~crossed /\ \A v \in Workers \ {w} : ~Running(v) /\ ~Running(v)'
  BY <1>1, <1>2
<1>5. Alone'
  BY <1>4 DEF Alone
<1>6. Quiet <=> \A v \in Workers : ~Running(v)
  BY DEF Quiet, Running
<1>7. UNCHANGED <<lost, updates>> /\ Serial' => Serial /\ ~crossed'
  BY <1>4 DEF Serial
<1> QED BY <1>2, <1>3, <1>4, <1>5, <1>6, <1>7

\* Then the sites agree at its start, too.
LEMMA RunAgree ==
    ASSUME IInv, SerialInv, NEW w \in Workers, ~Running(w), NEW step \in {"remove1", "new1"},
           NEW j, j.tunnel.first \in Sites, Run(w, step, j),
           UNCHANGED <<conc, lost, subnets, updates>>
    PROVE  Alone' /\ AgreeInv'
<1>1. /\ Alone'
      /\ Serial' => /\ Serial /\ Quiet
                    /\ pc'[w] = step /\ job'[w] = j /\ \A v \in Workers \ {w} : ~Running(v)'
  BY RunSerial DEF SerialInv, Steps
<1> SUFFICES ASSUME Serial', Settled'
             PROVE  /\ Quiet' => \A r, s \in Sites : State(conc[r])' = State(conc[s])'
                    /\ \A v \in Workers : Running(v)' => Halfway(v)'
  BY <1>1 DEF AgreeInv
<1>2. Settled
  BY DEF Settled
<1>3. \A r, s \in Sites : State(conc'[r]) = State(conc'[s])
  BY <1>1, <1>2 DEF SerialInv, AgreeInv
<1>4. Other(j.tunnel.first) \in Sites
  BY OtherSite
<1>5. Halfway(w)'
  BY <1>1, <1>3, <1>4 DEF Halfway, Between
<1> QED BY <1>1, <1>3, <1>5

\* A command or a notification about the tunnel that is remembered.
LEMMA RunEdge ==
    ASSUME IInv, SerialInv, NEW w \in Workers, ~Running(w), NEW j, edge \in Tunnel,
           j.tunnel = edge, Run(w, "remove1", j),
           UNCHANGED <<conc, lost, subnets, updates, edge, doubled>>
    PROVE  SerialInv'
<1>1. Alone' /\ AgreeInv'
  BY RunAgree DEF Tunnel
<1>2. Serial' => /\ Serial /\ pc'[w] = "remove1" /\ job'[w] = j
                 /\ \A v \in Workers \ {w} : ~Running(v)'
  BY RunSerial DEF SerialInv, Steps
<1>3. WanInv'
  <2> SUFFICES ASSUME Serial', ~doubled'
               PROVE  /\ \A s \in Sites : conc'[s].installed \subseteq Known(edge')
                      /\ \A v \in Workers : Running(v)' =>
                           /\ job'[v].tunnel = edge' /\ pc'[v] \notin {"renew1", "renew2"}
                           /\ pc'[v] = "remove2" => edge'.id \notin conc'[edge'.first].installed
    BY DEF WanInv
  <2> QED BY <1>2 DEF SerialInv, WanInv
<1> QED BY <1>1, <1>3 DEF SerialInv

\* The command disconnect, and a notification that is worked on.
LEMMA DisconnectSerial ==
    ASSUME IInv, SerialInv, NEW w \in Workers, Disconnect(w) \/ Begin(w)
    PROVE  SerialInv'
<1>1. CASE Disconnect(w)
  <2> DEFINE j == [NoJob EXCEPT !.op = "disconnect", !.tunnel = edge]
  <2>1. j.tunnel = edge /\ edge \in Tunnel /\ ~Running(w)
    BY <1>1 DEF Disconnect, NoJob, IInv, TypeOK, Running
  <2>2. Run(w, "remove1", j) /\ UNCHANGED <<conc, lost, subnets, updates, edge, doubled>>
    BY <1>1 DEF Disconnect
  <2> HIDE DEF j
  <2> QED BY <2>1, <2>2, RunEdge
<1>2. CASE Begin(w)
  <2> DEFINE j == [job[w] EXCEPT !.tunnel = edge]
  <2>1. edge \in Tunnel /\ ~Running(w) /\ job[w] \in Jobs
    BY <1>2, Parts DEF Begin, IInv, EdgeFirst, ThreadsOK, RestOK, Running
  <2>2. j.tunnel = edge
    BY <2>1 DEF Jobs
  <2>3. Run(w, "remove1", j) /\ UNCHANGED <<conc, lost, subnets, updates, edge, doubled>>
    BY <1>2 DEF Begin
  <2> HIDE DEF j
  <2> QED BY <2>1, <2>2, <2>3, RunEdge
<1> QED BY <1>1, <1>2

\* The command connect, of a pair that has no tunnel up.
LEMMA ConnectSerial ==
    ASSUME IInv, SerialInv, NEW w \in Workers, NEW s \in Sites, Connect(w, s)
    PROVE  SerialInv'
<1> DEFINE t == [id |-> drawn + 1, first |-> s, live |-> TRUE, nets |-> NoNets]
           j == [NoJob EXCEPT !.op = "connect", !.tunnel = t]
<1>1. /\ edge' = t /\ Run(w, "new1", j) /\ UNCHANGED <<conc, lost, subnets, updates>>
      /\ doubled' <=> doubled \/ \E r \in Sites : conc[r].installed # {}
      /\ ~Running(w)
  BY DEF Connect, Save, Running
<1>2. t.first \in Sites
  OBVIOUS
<1> HIDE DEF t
<1>3. j.tunnel = t
  BY DEF NoJob
<1> HIDE DEF j
<1>4. Alone' /\ AgreeInv'
  BY <1>1, <1>2, <1>3, RunAgree
<1>5. Serial' => pc'[w] = "new1" /\ job'[w] = j /\ \A v \in Workers \ {w} : ~Running(v)'
  BY <1>1, RunSerial DEF SerialInv, Steps
<1>6. WanInv'
  <2> SUFFICES ASSUME Serial', ~doubled'
               PROVE  /\ \A r \in Sites : conc'[r].installed \subseteq Known(edge')
                      /\ \A v \in Workers : Running(v)' =>
                           /\ job'[v].tunnel = edge' /\ pc'[v] \notin {"renew1", "renew2"}
                           /\ pc'[v] = "remove2" => edge'.id \notin conc'[edge'.first].installed
    BY DEF WanInv
  <2> QED BY <1>1, <1>3, <1>5
<1> QED BY <1>4, <1>6 DEF SerialInv

\* A notification that has only come in is not an operation yet.
LEMMA LimitSerial ==
    ASSUME IInv, SerialInv, NEW w \in Workers, NEW s \in Sites, NEW limit \in Limits,
           Limit(w, s, limit)
    PROVE  SerialInv'
<1>1. /\ pc' = [pc EXCEPT ![w] = "start"] /\ ~Running(w)
      /\ UNCHANGED <<conc, subnets, edge, updates, lost, crossed, doubled>>
  BY DEF Limit, history, Running
<1>2. PICK j : job' = [job EXCEPT ![w] = j]
  BY DEF Limit
<1>3. \A v \in Workers : /\ Running(v)' <=> Running(v)
                         /\ Running(v) => pc'[v] = pc[v] /\ job'[v] = job[v]
  BY <1>1, <1>2, OthersStay DEF IInv, TypeOK
<1>4. /\ Quiet' <=> Quiet
      /\ Serial' <=> Serial
      /\ Settled' <=> Settled
  BY <1>1, <1>3 DEF Quiet, Running, Serial, Settled
<1>5. \A v \in Workers : Running(v) => (Halfway(v)' <=> Halfway(v))
  BY <1>1, <1>3 DEF Halfway
<1>6. Alone'
  BY <1>1, <1>3 DEF SerialInv, Alone
<1>7. AgreeInv'
  BY <1>1, <1>3, <1>4, <1>5 DEF SerialInv, AgreeInv
<1>8. WanInv'
  BY <1>1, <1>3, <1>4 DEF SerialInv, WanInv
<1> QED BY <1>6, <1>7, <1>8 DEF SerialInv

\* Updates of subnets are no serial operations.
LEMMA UpdateSerial ==
    ASSUME IInv, SerialInv, NEW w \in Workers, NEW n \in Subnets,
           AddSubnet(w, n) \/ RemoveSubnet(w, n)
    PROVE  SerialInv'
<1>1. ~Serial'
  BY UpdateCounts DEF Serial
<1>2. ~Running(w) /\ Refresh(w)
  BY DEF AddSubnet, RemoveSubnet, Running
<1>3. CASE UNCHANGED <<pc, job, crossed>>
  BY <1>1, <1>3 DEF SerialInv, Alone, Running, AgreeInv, WanInv
<1>4. CASE Run(w, "renew1", [NoJob EXCEPT !.op = "refresh", !.tunnel = edge])
  <2>1. Alone'
    BY <1>2, <1>4, RunSerial DEF SerialInv, Steps
  <2> QED BY <1>1, <2>1 DEF SerialInv, AgreeInv, WanInv
<1> QED BY <1>2, <1>3, <1>4 DEF Refresh

\* Nothing is up and nothing is remembered at first.
LEMMA InitSerial == Init => SerialInv
<1> SUFFICES ASSUME Init PROVE SerialInv
  OBVIOUS
<1>1. \A w \in Workers : ~Running(w)
  BY DEF Init, Running
<1>2. \A s \in Sites : conc[s] = Fresh /\ conc[s].installed = {}
  BY DEF Init, Fresh
<1> QED BY <1>1, <1>2 DEF SerialInv, Alone, AgreeInv, WanInv

\* Every step keeps it.
LEMMA NextSerial == IInv /\ WholeInv /\ SerialInv /\ [Next]_vars => SerialInv'
<1> SUFFICES ASSUME IInv, WholeInv, SerialInv, [Next]_vars PROVE SerialInv'
  OBVIOUS
<1>1. CASE UNCHANGED vars
  <2>1. UNCHANGED <<conc, subnets, edge, pc, job, updates, lost, crossed, doubled>>
    BY <1>1 DEF vars, history
  <2>2. /\ Serial' <=> Serial
        /\ Settled' <=> Settled
        /\ Quiet' <=> Quiet
        /\ \A w \in Workers : Running(w)' <=> Running(w)
    BY <2>1 DEF Serial, Settled, Quiet, Running
  <2>3. Alone' /\ WanInv'
    BY <2>1, <2>2 DEF SerialInv, Alone, WanInv
  <2>4. AgreeInv'
    BY <2>1, <2>2 DEF SerialInv, AgreeInv, Halfway
  <2> QED BY <2>3, <2>4 DEF SerialInv
<1>2. ASSUME NEW w \in Workers, NewAt(w) \/ RemoveAt(w) PROVE SerialInv'
  BY <1>2, CallAlone, CallAgree, CallWan DEF SerialInv
<1>3. ASSUME NEW w \in Workers, RenewAt(w) PROVE SerialInv'
  BY <1>3, CallAlone, RenewSerial DEF SerialInv
<1>4. CASE Next
  <2>1. PICK w \in Workers : Step(w)
    BY <1>4 DEF Next
  <2> QED BY <1>2, <1>3, <2>1, DisconnectSerial, ConnectSerial, LimitSerial, UpdateSerial DEF Step
<1> QED BY <1>1, <1>4

\* Operations one after the other leave the same tunnel at both ends: each does
\* the same to the one as to the other, also a renewal that both ends ask for, a
\* second connect and one that finds no register left, because both ends have the
\* same tunnels and as many registers left before it.
THEOREM SitesAgree == Spec => []SerialAgree
<1>1. SerialInv => SerialAgree
  BY DEF SerialInv, AgreeInv, State, SerialAgree
<1> QED BY <1>1, InitOK, NextOK, InitWhole, NextWhole, InitSerial, NextSerial, PTL DEF Spec

\* A tunnel that is up is the one the WAN controller remembers, and would
\* disconnect, if the pair was never connected over a tunnel that is up.
THEOREM WanKnows == Spec => []WanRemembers
<1>1. SerialInv => WanRemembers
  BY DEF SerialInv, WanInv, Known, WanRemembers
<1> QED BY <1>1, InitOK, NextOK, InitWhole, NextWhole, InitSerial, NextSerial, PTL DEF Spec

=============================================================================
