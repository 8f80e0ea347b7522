----------------------------- MODULE RouterProofs -----------------------------
(***************************************************************************)
(* Proofs about the router and its frozen copies.  The inductive invariant *)
(* relates the tables to the routes that were accepted, table by table and *)
(* trie by trie.                                                           *)
(*                                                                         *)
(* A frozen router answers as the router it was made from: the search of a *)
(* compressed trie finds what the search of the trie finds, with the same  *)
(* parameters, for every path without an empty segment inside.  Whatever   *)
(* the path, it serves one of the routes it was made from.                 *)
(***************************************************************************)
EXTENDS FrozenRouter, OperatorProofs

-----------------------------------------------------------------------------
(* The inductive invariant *)

AcceptedRoute == [host : STRING, method : STRING, pattern : Seq(Piece), handler : Offer]

\* What the trie keeps of an accepted route
Entry(route) == [pattern   |-> route.pattern, handler |-> route.handler,
                 hasParams |-> HasParams(Parts(route.pattern))]

\* The nodes with a route are the accepted routes', every wildcard has a route.
RootOK(t, routes) ==
    /\ TrieOK(t)
    /\ \A n \in DOMAIN t : t[n] # NoRoute => \E route \in routes : Parts(route.pattern) = n
    /\ \A route \in routes :
          Parts(route.pattern) \in DOMAIN t /\ t[Parts(route.pattern)] = Entry(route)
    /\ \A n \in DOMAIN t : IsWild(n) => t[n] # NoRoute

\* The cached Allow headers are those of the static map, and each of its paths
\* has one.
CacheOK(static, staticAllow) ==
    /\ \A path \in DOMAIN staticAllow : staticAllow[path] = buildStaticAllowHeader(static, path)
    /\ \A m \in DOMAIN static : DOMAIN static[m] \subseteq DOMAIN staticAllow

\* The static map holds the accepted routes without parameters.
StaticOK(static, routes) ==
    /\ \A m \in DOMAIN static : \A path \in DOMAIN static[m] :
          \E route \in routes : /\ route.method = m /\ route.pattern = path
                                /\ route.handler = static[m][path]
                                /\ ~HasParams(Parts(path))
    /\ \A route \in routes : ~HasParams(Parts(route.pattern)) =>
          /\ route.method \in DOMAIN static
          /\ route.pattern \in DOMAIN static[route.method]
          /\ static[route.method][route.pattern] = route.handler

Table(roots, static, staticAllow, hasParams, hasTrailing) ==
    [roots |-> roots, static |-> static, staticAllow |-> staticAllow,
     hasParams |-> hasParams, hasTrailing |-> hasTrailing]

TableOK(t, routes) ==
    /\ t = Table(t.roots, t.static, t.staticAllow, t.hasParams, t.hasTrailing)
    /\ \A m \in DOMAIN t.roots : RootOK(t.roots[m], {route \in routes : route.method = m})
    /\ \A route \in routes : route.method \in DOMAIN t.roots
    /\ t.hasParams \subseteq DOMAIN t.roots
    /\ \A route \in routes : HasParams(Parts(route.pattern)) => route.method \in t.hasParams
    /\ StaticOK(t.static, routes)
    /\ CacheOK(t.static, t.staticAllow)
    /\ \A route \in routes : Slashed(route.pattern) => t.hasTrailing

OfHost(host) == {route \in accepted : route.host = host}

TablesOK ==
    /\ NoHost \in DOMAIN tables
    /\ \A host \in DOMAIN tables : TableOK(tables[host], OfHost(host))
    /\ \A route \in accepted : route.host \in DOMAIN tables

\* The patterns of the accepted routes passed the checks, in the case mode that
\* the first registration fixed.
AcceptedOK ==
    /\ accepted \subseteq AcceptedRoute
    /\ accepted # {} => ignoreCaseSet
    /\ ignoreCaseEnabled \in BOOLEAN
    /\ CaseModeUniform
    /\ \A route \in accepted :
          /\ route.handler \in setup.offers /\ Acceptable(route.handler[3])
          /\ route.handler = <<route.host, route.method, route.handler[3]>>

SetupOK == setup \in Setups /\ IgnoreCase \in BOOLEAN

RouterInv == SetupOK /\ TablesOK /\ AcceptedOK

-----------------------------------------------------------------------------
(* insert keeps a trie and its routes together *)

\* A wildcard on the way to a pattern's last part is that part.
LEMMA WildPrefix ==
    ASSUME NEW parts \in Seq(Piece), WildLast(parts), NEW n \in Prefixes(parts), IsWild(n)
    PROVE  n = parts
<1>1. PICK k \in 0 .. Len(parts) : n = SubSeq(parts, 1, k)
  BY DEF Prefixes
<1>2. Len(n) = k /\ \A i \in 1 .. k : n[i] = parts[i]
  BY <1>1, PrefixOf
<1>3. n \in Seq(Piece) /\ k \in Nat
  BY <1>1, PrefixOf
<1>4. k # 0
  BY <1>2, <1>3 DEF IsWild
<1>5. k \in 1 .. Len(parts) /\ Kind(parts[k]) = "wild"
  BY <1>2, <1>4 DEF IsWild, LastOf
<1>6. k = Len(parts)
  BY <1>5 DEF WildLast
<1> QED
  BY <1>1, <1>6, Whole

\* The entry of a route is a route and never NoRoute.
LEMMA EntryType ==
    ASSUME NEW route \in AcceptedRoute
    PROVE  /\ Entry(route) \in Route /\ Entry(route) # NoRoute
           /\ Parts(route.pattern) \in Seq(Piece)
<1>1. HasParams(Parts(route.pattern)) \in BOOLEAN
  BY DEF HasParams
<1>2. route.pattern \in Seq(Piece) /\ route.handler \in Offer
  BY DEF AcceptedRoute
<1>3. Entry(route) \in Route
  BY <1>1, <1>2 DEF Entry, Route
<1> QED
  BY <1>2, <1>3, NoRouteAssumption, PartsType

\* Whether insert fails or not, the nodes with a route are those of the accepted
\* routes.
LEMMA InsertKeeps ==
    ASSUME NEW t, NEW routes \in SUBSET AcceptedRoute, RootOK(t, routes), NEW route \in AcceptedRoute,
           WildLast(Parts(route.pattern))
    PROVE  LET ins == Insert(t, Parts(route.pattern), Entry(route))
           IN  /\ ins.failed => RootOK(ins.trie, routes)
               /\ ~ins.failed => RootOK(ins.trie, routes \cup {route})
<1> DEFINE parts == Parts(route.pattern)
           entry == Entry(route)
           ins   == Insert(t, parts, entry)
<1>1. parts \in Seq(Piece) /\ entry # NoRoute
  BY EntryType
<1>2. TrieOK(t)
  BY DEF RootOK
<1>3. PICK more : Inserted(ins, t, more, parts, entry)
  BY <1>1, <1>2, InsertResult
<1>4. WellFormed(DOMAIN t \cup more) /\ more \subseteq Prefixes(parts)
  BY <1>3 DEF Inserted
<1>5. \A n \in more : IsWild(n) => n = parts
  BY <1>1, <1>4, WildPrefix
<1> DEFINE u == Extended(t, more)
<1>6. /\ u = [n \in DOMAIN u |-> u[n]] /\ DOMAIN u = DOMAIN t \cup more
      /\ \A n \in DOMAIN u : u[n] = IF n \in DOMAIN t THEN t[n] ELSE NoRoute
  BY DEF Extended
<1> HIDE DEF ins, u, entry, parts
<1>7. CASE ins = Halted(t, more) /\ (parts \in more => parts \in DOMAIN t)
  <2>1. ins.failed /\ ins.trie = u
    BY <1>7 DEF Halted, u
  <2>2. TrieOK(u)
    BY <1>4, <1>6 DEF TrieOK
  <2>3. \A n \in DOMAIN u : IsWild(n) => u[n] # NoRoute
    BY <1>5, <1>6, <1>7 DEF RootOK
  <2>4. RootOK(u, routes)
    BY <1>6, <2>2, <2>3 DEF RootOK
  <2> QED
    BY <2>1, <2>4 DEF ins, parts, entry
<1>8. CASE /\ ins = Placed(t, more, parts, entry) /\ parts \in DOMAIN t \cup more
           /\ parts \in DOMAIN t => t[parts] = NoRoute
  <2> DEFINE v == [n \in DOMAIN t \cup more |-> IF n = parts THEN entry ELSE u[n]]
  <2>1. ~ins.failed /\ ins.trie = v
    BY <1>8 DEF Placed, u
  <2>2. DOMAIN v = DOMAIN u /\ v[parts] = entry /\ \A n \in DOMAIN u : n # parts => v[n] = u[n]
    BY <1>6, <1>8
  <2>3. TrieOK(v)
    BY <1>4 DEF TrieOK
  <2> HIDE DEF v
  <2>4. \A n \in DOMAIN v : IsWild(n) => v[n] # NoRoute
    BY <1>1, <1>5, <1>6, <2>2 DEF RootOK
  <2>5. ASSUME NEW r \in routes \cup {route}
        PROVE  Parts(r.pattern) \in DOMAIN v /\ v[Parts(r.pattern)] = Entry(r)
    <3>1. CASE r = route
      BY <1>6, <1>8, <2>2, <3>1 DEF parts, entry
    <3>2. CASE r \in routes
      <4>1. Parts(r.pattern) \in DOMAIN t /\ t[Parts(r.pattern)] = Entry(r)
        BY <3>2 DEF RootOK
      <4>2. CASE Parts(r.pattern) # parts
        BY <1>6, <2>2, <4>1, <4>2
      <4>3. CASE Parts(r.pattern) = parts
        <5>1. Entry(r) = NoRoute
          BY <1>8, <4>1, <4>3
        <5>2. Entry(r) # NoRoute
          BY <3>2, EntryType
        <5> QED
          BY <5>1, <5>2
      <4> QED
        BY <4>2, <4>3
    <3> QED
      BY <3>1, <3>2
  <2>6. \A n \in DOMAIN v : v[n] # NoRoute =>
           \E r \in routes \cup {route} : Parts(r.pattern) = n
    BY <1>6, <2>2 DEF RootOK, parts
  <2>7. RootOK(v, routes \cup {route})
    BY <2>3, <2>4, <2>5, <2>6 DEF RootOK
  <2> QED
    BY <2>1, <2>7 DEF ins, parts, entry
<1> QED
  BY <1>3, <1>7, <1>8 DEF Inserted

-----------------------------------------------------------------------------
(* Registration keeps a table and its routes together *)

\* Where a changed function is defined
LEMMA WithDomain ==
    ASSUME NEW f, NEW x, NEW y
    PROVE  \A z : z \in DOMAIN With(f, x, y) <=> z \in DOMAIN f \/ z = x
BY DEF With

\* What a changed function is where it was changed, and elsewhere.
LEMMA WithAt ==
    ASSUME NEW f, NEW x, NEW y
    PROVE  /\ With(f, x, y)[x] = y
           /\ \A z \in DOMAIN f : z # x => With(f, x, y)[z] = f[z]
BY DEF With

\* The static map after a static route has been recorded
StaticWith(static, method, pattern, handler) ==
    LET routes == IF method \in DOMAIN static THEN static[method] ELSE <<>>
    IN  With(static, method, With(routes, pattern, handler))

AnyTrailing(trailing, pattern) == trailing \/ Slashed(pattern)

\* Recorded field by field
LEMMA RecordedTable ==
    ASSUME NEW roots, NEW static, NEW allow, NEW params, NEW trailing,
           NEW method, NEW pattern, NEW handler
    PROVE  LET t   == Table(roots, static, allow, params, trailing)
               new == StaticWith(static, method, pattern, handler)
           IN  Recorded(t, method, pattern, handler) =
                  IF HasParams(Parts(pattern))
                  THEN Table(roots, static, allow, params \cup {method},
                             AnyTrailing(trailing, pattern))
                  ELSE Table(roots, new, With(allow, pattern, buildStaticAllowHeader(new, pattern)),
                             params, AnyTrailing(trailing, pattern))
<1> DEFINE t   == Table(roots, static, allow, params, trailing)
           new == StaticWith(static, method, pattern, handler)
           r   == Recorded(t, method, pattern, handler)
<1>1. /\ t.roots = roots /\ t.static = static /\ t.staticAllow = allow
      /\ t.hasParams = params /\ t.hasTrailing = trailing
  BY DEF Table
<1>2. ASSUME NEW a, NEW b
      PROVE  [t EXCEPT !.hasParams = a, !.hasTrailing = b] = Table(roots, static, allow, a, b)
  <2>1. [t EXCEPT !.hasParams = a] = Table(roots, static, allow, a, trailing)
    BY DEF Table
  <2>2. [Table(roots, static, allow, a, trailing) EXCEPT !.hasTrailing = b]
           = Table(roots, static, allow, a, b)
    BY DEF Table
  <2> HIDE DEF t
  <2>3. [t EXCEPT !.hasParams = a, !.hasTrailing = b]
           = [[t EXCEPT !.hasParams = a] EXCEPT !.hasTrailing = b]
    OBVIOUS
  <2> QED
    BY <2>1, <2>2, <2>3
<1>5. ASSUME NEW a, NEW b, NEW c
      PROVE  [t EXCEPT !.static = a, !.staticAllow = b, !.hasTrailing = c]
                = Table(roots, a, b, params, c)
  <2>1. [t EXCEPT !.static = a] = Table(roots, a, allow, params, trailing)
    BY DEF Table
  <2>2. [Table(roots, a, allow, params, trailing) EXCEPT !.staticAllow = b]
           = Table(roots, a, b, params, trailing)
    BY DEF Table
  <2>3. [Table(roots, a, b, params, trailing) EXCEPT !.hasTrailing = c]
           = Table(roots, a, b, params, c)
    BY DEF Table
  <2> HIDE DEF t
  <2>4. [t EXCEPT !.static = a, !.staticAllow = b, !.hasTrailing = c]
           = [[[t EXCEPT !.static = a] EXCEPT !.staticAllow = b] EXCEPT !.hasTrailing = c]
    OBVIOUS
  <2> QED
    BY <2>1, <2>2, <2>3, <2>4
<1> HIDE DEF t
<1>3. CASE HasParams(Parts(pattern))
  <2>1. r = [t EXCEPT !.hasParams = params \cup {method},
                      !.hasTrailing = trailing \/ Slashed(pattern)]
    BY <1>1, <1>3 DEF Recorded
  <2> QED
    BY ZenonT(40), <1>2, <1>3, <2>1 DEF t, AnyTrailing
<1>4. CASE ~HasParams(Parts(pattern))
  <2> DEFINE allows == With(allow, pattern, buildStaticAllowHeader(new, pattern))
             slash  == trailing \/ Slashed(pattern)
  <2>1. r = [t EXCEPT !.static = new, !.staticAllow = allows, !.hasTrailing = slash]
    BY <1>1, <1>4 DEF Recorded, StaticWith
  <2> HIDE DEF new, allows, slash
  <2>2. r = Table(roots, new, allows, params, slash)
    BY ZenonT(40), <1>5, <2>1
  <2> QED
    BY <1>4, <2>2 DEF t, new, allows, slash, AnyTrailing
<1> QED
  BY <1>3, <1>4

\* The cached headers stay those of the static map: a route changes the methods
\* of its own path only.
LEMMA CacheKept ==
    ASSUME NEW static, NEW allow, CacheOK(static, allow), NEW method, NEW pattern, NEW handler
    PROVE  LET new == StaticWith(static, method, pattern, handler)
           IN  CacheOK(new, With(allow, pattern, buildStaticAllowHeader(new, pattern)))
<1> DEFINE routes == IF method \in DOMAIN static THEN static[method] ELSE <<>>
           new    == StaticWith(static, method, pattern, handler)
           head   == buildStaticAllowHeader(new, pattern)
<1>1. ASSUME NEW path, path # pattern
      PROVE  Live!StaticMethods(new, path) = Live!StaticMethods(static, path)
  <2> HIDE DEF routes
  <2>0. new = With(static, method, With(routes, pattern, handler))
    BY DEF StaticWith, routes
  <2> HIDE DEF new
  <2>1. /\ \A m : m \in DOMAIN new <=> m \in DOMAIN static \/ m = method
        /\ new[method] = With(routes, pattern, handler)
        /\ \A m \in DOMAIN static : m # method => new[m] = static[m]
    BY <2>0, WithAt, WithDomain
  <2>2. path \in DOMAIN new[method] <=> path \in DOMAIN routes
    BY <1>1, <2>1, WithDomain
  <2>3. path \in DOMAIN routes <=> method \in DOMAIN static /\ path \in DOMAIN static[method]
    BY DEF routes
  <2>4. \A m \in DOMAIN new : path \in DOMAIN new[m] <=> m \in DOMAIN static /\ path \in DOMAIN static[m]
    BY <2>1, <2>2, <2>3
  <2>5. DOMAIN static \subseteq DOMAIN new
    BY <2>1
  <2> QED
    BY <2>4, <2>5 DEF Live!StaticMethods
<1> HIDE DEF new, head
<1>2. ASSUME NEW path \in DOMAIN With(allow, pattern, head)
      PROVE  With(allow, pattern, head)[path] = buildStaticAllowHeader(new, path)
  <2>1. CASE path = pattern
    BY <2>1, WithAt DEF head
  <2>2. CASE path # pattern
    <3>1. path \in DOMAIN allow /\ With(allow, pattern, head)[path] = allow[path]
      BY <2>2, WithAt, WithDomain
    <3>2. allow[path] = buildStaticAllowHeader(static, path)
      BY <3>1 DEF CacheOK
    <3>3. buildStaticAllowHeader(new, path) = buildStaticAllowHeader(static, path)
      BY <1>1, <2>2 DEF buildStaticAllowHeader
    <3> QED
      BY <3>1, <3>2, <3>3
  <2> QED
    BY <2>1, <2>2
<1>3. ASSUME NEW m \in DOMAIN new, NEW path \in DOMAIN new[m]
      PROVE  path \in DOMAIN With(allow, pattern, head)
  <2> DEFINE mine == With(routes, pattern, handler)
  <2>1. /\ \A k : k \in DOMAIN new <=> k \in DOMAIN static \/ k = method
        /\ new[method] = mine
        /\ \A k \in DOMAIN static : k # method => new[k] = static[k]
    <3>1. new = With(static, method, mine)
      BY DEF StaticWith, new
    <3> HIDE DEF mine
    <3> QED
      BY <3>1, WithAt, WithDomain
  <2>2. \A z : z \in DOMAIN mine <=> z \in DOMAIN routes \/ z = pattern
    <3> HIDE DEF routes
    <3> QED
      BY WithDomain
  <2>3. \A z : z \in DOMAIN routes <=> method \in DOMAIN static /\ z \in DOMAIN static[method]
    OBVIOUS
  <2> HIDE DEF mine, routes
  <2>4. path = pattern \/ path \in DOMAIN allow
    BY <2>1, <2>2, <2>3 DEF CacheOK
  <2> QED
    BY <2>4, WithDomain
<1>4. \A m \in DOMAIN new : DOMAIN new[m] \subseteq DOMAIN With(allow, pattern, head)
  BY <1>3
<1> QED
  BY <1>2, <1>4 DEF CacheOK, new, head

\* The static map holds the routes without parameters, the new one included: no
\* other route has its method and its path, or insert would have failed.
LEMMA StaticKept ==
    ASSUME NEW static, NEW routes, StaticOK(static, routes), NEW route,
           ~HasParams(Parts(route.pattern)),
           \A r \in routes : r.method = route.method /\ r.pattern = route.pattern
                                => r.handler = route.handler
    PROVE  StaticOK(StaticWith(static, route.method, route.pattern, route.handler),
                    routes \cup {route})
<1> DEFINE method  == route.method
           pattern == route.pattern
           handler == route.handler
           before  == IF method \in DOMAIN static THEN static[method] ELSE <<>>
           mine    == With(before, pattern, handler)
           new     == StaticWith(static, method, pattern, handler)
<1>1. new = With(static, method, mine)
  BY DEF StaticWith
<1> HIDE DEF new, mine
<1>2. /\ \A m : m \in DOMAIN new <=> m \in DOMAIN static \/ m = method
      /\ new[method] = mine
      /\ \A m \in DOMAIN static : m # method => new[m] = static[m]
  BY <1>1, WithAt, WithDomain
<1>3. /\ \A path : path \in DOMAIN mine <=> path \in DOMAIN before \/ path = pattern
      /\ mine[pattern] = handler
      /\ \A path \in DOMAIN before : path # pattern => mine[path] = before[path]
  <2> HIDE DEF before
  <2> QED
    BY WithAt, WithDomain DEF mine
<1>4. \A path : path \in DOMAIN before <=> method \in DOMAIN static /\ path \in DOMAIN static[method]
  OBVIOUS
<1>5. method \in DOMAIN static => before = static[method]
  OBVIOUS
<1> HIDE DEF before
<1>6. ASSUME NEW m \in DOMAIN new, NEW path \in DOMAIN new[m]
      PROVE  \E r \in routes \cup {route} :
                /\ r.method = m /\ r.pattern = path /\ r.handler = new[m][path]
                /\ ~HasParams(Parts(path))
  <2>1. CASE m = method /\ path = pattern
    BY <1>2, <1>3, <2>1
  <2>2. CASE m = method /\ path # pattern
    <3>1. m \in DOMAIN static /\ path \in DOMAIN static[m] /\ new[m][path] = static[m][path]
      BY <1>2, <1>3, <1>4, <1>5, <2>2
    <3> QED
      BY <3>1 DEF StaticOK
  <2>3. CASE m # method
    <3>1. m \in DOMAIN static /\ new[m] = static[m]
      BY <1>2, <2>3
    <3> QED
      BY <3>1 DEF StaticOK
  <2> QED
    BY <2>1, <2>2, <2>3
<1>7. ASSUME NEW r \in routes \cup {route}, ~HasParams(Parts(r.pattern))
      PROVE  /\ r.method \in DOMAIN new /\ r.pattern \in DOMAIN new[r.method]
             /\ new[r.method][r.pattern] = r.handler
  <2>1. CASE r.method = method /\ r.pattern = pattern
    <3>1. r.handler = handler
      BY <2>1
    <3> QED
      BY <1>2, <1>3, <2>1, <3>1
  <2>2. CASE ~(r.method = method /\ r.pattern = pattern)
    <3>1. r \in routes
      BY <2>2
    <3>2. /\ r.method \in DOMAIN static /\ r.pattern \in DOMAIN static[r.method]
          /\ static[r.method][r.pattern] = r.handler
      BY <1>7, <3>1 DEF StaticOK
    <3>3. CASE r.method # method
      BY <1>2, <3>2, <3>3
    <3>4. CASE r.method = method
      <4>1. r.pattern \in DOMAIN before /\ r.pattern # pattern /\ before = static[method]
        BY <1>4, <1>5, <2>2, <3>2, <3>4
      <4> QED
        BY <1>2, <1>3, <3>2, <3>4, <4>1
    <3> QED
      BY <3>3, <3>4
  <2> QED
    BY <2>1, <2>2
<1> QED
  BY <1>6, <1>7 DEF StaticOK, new

\* The routes of a method
OfMethod(routes, m) == {route \in routes : route.method = m}

\* The root a registration works on, what insert makes of it, and the table with it
RootOf(t, method)    == IF method \in DOMAIN t.roots THEN t.roots[method] ELSE EmptyTrie
InsertIn(t, route)   == Insert(RootOf(t, route.method), Parts(route.pattern), Entry(route))
GrownWith(t, method, root) == [t EXCEPT !.roots = With(@, method, root)]

\* A new root holds no routes.
LEMMA EmptyRootOK == RootOK(EmptyTrie, {})
<1>1. DOMAIN EmptyTrie = {<<>>} /\ EmptyTrie[<<>>] = NoRoute
  BY DEF EmptyTrie
<1> QED
  BY <1>1, EmptyTrieOK DEF RootOK, IsWild

\* A new table holds no routes.
LEMMA NewTableOK == TableOK(NewTable, {})
<1>1. NewTable = Table(<<>>, <<>>, <<>>, {}, FALSE)
  BY DEF NewTable, Table
<1>2. DOMAIN <<>> = {}
  OBVIOUS
<1> DEFINE t == NewTable
<1>3. t.roots = <<>> /\ t.static = <<>> /\ t.staticAllow = <<>> /\ t.hasParams = {} /\ t.hasTrailing = FALSE
  BY DEF NewTable
<1> HIDE DEF t
<1>4. t = Table(t.roots, t.static, t.staticAllow, t.hasParams, t.hasTrailing)
  BY <1>1, <1>3 DEF t
<1>5. StaticOK(t.static, {}) /\ CacheOK(t.static, t.staticAllow)
  BY <1>2, <1>3 DEF StaticOK, CacheOK
<1> QED
  BY <1>2, <1>3, <1>4, <1>5 DEF TableOK, t

\* Replacing a root leaves the other fields of a table alone.
LEMMA GrownTable ==
    ASSUME NEW roots, NEW static, NEW allow, NEW params, NEW trailing, NEW method, NEW root
    PROVE  GrownWith(Table(roots, static, allow, params, trailing), method, root)
              = Table(With(roots, method, root), static, allow, params, trailing)
<1> DEFINE t == Table(roots, static, allow, params, trailing)
<1>1. t.roots = roots
  BY DEF Table
<1>2. ASSUME NEW a PROVE [t EXCEPT !.roots = a] = Table(a, static, allow, params, trailing)
  BY DEF Table
<1> HIDE DEF t
<1>3. GrownWith(t, method, root) = [t EXCEPT !.roots = With(roots, method, root)]
  BY <1>1 DEF GrownWith
<1> QED
  BY <1>2, <1>3 DEF t

\* The roots stay in order with the routes when one of them is replaced.
LEMMA RootsKept ==
    ASSUME NEW roots, NEW routes, NEW more,
           \A m \in DOMAIN roots : RootOK(roots[m], OfMethod(routes, m)),
           \A route \in routes : route.method \in DOMAIN roots,
           NEW method, NEW root, RootOK(root, OfMethod(more, method)),
           routes \subseteq more, \A route \in more : route \in routes \/ route.method = method
    PROVE  /\ \A m \in DOMAIN With(roots, method, root) :
                 RootOK(With(roots, method, root)[m], OfMethod(more, m))
           /\ \A route \in more : route.method \in DOMAIN With(roots, method, root)
<1> DEFINE new == With(roots, method, root)
<1>1. /\ \A m : m \in DOMAIN new <=> m \in DOMAIN roots \/ m = method
      /\ new[method] = root
      /\ \A m \in DOMAIN roots : m # method => new[m] = roots[m]
  BY WithAt, WithDomain
<1> HIDE DEF new
<1>2. ASSUME NEW m \in DOMAIN new PROVE RootOK(new[m], OfMethod(more, m))
  <2>1. CASE m = method
    BY <1>1, <2>1
  <2>2. CASE m # method
    <3>1. OfMethod(more, m) = OfMethod(routes, m)
      BY <2>2 DEF OfMethod
    <3> QED
      BY <1>1, <2>2, <3>1
  <2> QED
    BY <2>1, <2>2
<1>3. \A route \in more : route.method \in DOMAIN new
  BY <1>1
<1> QED
  BY <1>2, <1>3 DEF new

\* A table that registration has worked on holds the routes accepted so far.
LEMMA TableKeeps ==
    ASSUME NEW t, NEW routes \in SUBSET AcceptedRoute, TableOK(t, routes),
           NEW route \in AcceptedRoute, WildLast(Parts(route.pattern))
    PROVE  LET ins   == InsertIn(t, route)
               grown == GrownWith(t, route.method, ins.trie)
           IN  /\ ins.failed => TableOK(grown, routes)
               /\ ~ins.failed => TableOK(Recorded(grown, route.method, route.pattern, route.handler),
                                         routes \cup {route})
<1> DEFINE method == route.method
           ins    == InsertIn(t, route)
           grown  == GrownWith(t, method, ins.trie)
           roots  == With(t.roots, method, ins.trie)
           mine   == OfMethod(routes, method)
           all    == routes \cup {route}
<1>1. RootOK(RootOf(t, method), mine)
  <2>1. CASE method \in DOMAIN t.roots
    BY <2>1 DEF TableOK, RootOf, OfMethod
  <2>2. CASE method \notin DOMAIN t.roots
    <3>1. mine = {}
      BY <2>2 DEF TableOK, OfMethod
    <3> QED
      BY <2>2, <3>1, EmptyRootOK DEF RootOf
  <2> QED
    BY <2>1, <2>2
<1>2. /\ ins.failed => RootOK(ins.trie, mine)
      /\ ~ins.failed => RootOK(ins.trie, mine \cup {route})
  <2>1. mine \in SUBSET AcceptedRoute
    BY DEF OfMethod
  <2> HIDE DEF mine
  <2> QED
    BY <1>1, <2>1, InsertKeeps DEF InsertIn
<1>3. t = Table(t.roots, t.static, t.staticAllow, t.hasParams, t.hasTrailing)
  BY DEF TableOK
<1> HIDE DEF ins
<1>4. grown = Table(roots, t.static, t.staticAllow, t.hasParams, t.hasTrailing)
  BY <1>3, GrownTable
<1>5. \A m \in DOMAIN t.roots : RootOK(t.roots[m], OfMethod(routes, m))
  BY DEF TableOK, OfMethod
<1>6. \A r \in routes : r.method \in DOMAIN t.roots
  BY DEF TableOK
<1>7. \A m \in DOMAIN t.roots : m \in DOMAIN roots
  BY WithDomain
<1>8. method \in DOMAIN roots
  BY WithDomain
<1> HIDE DEF roots, grown
<1>9. ASSUME ins.failed PROVE TableOK(grown, routes)
  <2>1. RootOK(ins.trie, mine)
    BY <1>2, <1>9
  <2>2. /\ \A m \in DOMAIN roots : RootOK(roots[m], OfMethod(routes, m))
        /\ \A r \in routes : r.method \in DOMAIN roots
    BY <1>5, <1>6, <2>1, RootsKept DEF roots
  <2>3. /\ grown.roots = roots /\ grown.static = t.static /\ grown.staticAllow = t.staticAllow
        /\ grown.hasParams = t.hasParams /\ grown.hasTrailing = t.hasTrailing
    BY <1>4 DEF Table
  <2>4. grown = Table(grown.roots, grown.static, grown.staticAllow, grown.hasParams, grown.hasTrailing)
    BY <1>4, <2>3
  <2> QED
    BY <1>7, <2>2, <2>3, <2>4 DEF TableOK, OfMethod
<1>10. ASSUME ~ins.failed
       PROVE  TableOK(Recorded(grown, method, route.pattern, route.handler), all)
  <2>1. OfMethod(all, method) = mine \cup {route}
    BY DEF OfMethod
  <2>2. RootOK(ins.trie, OfMethod(all, method))
    BY <1>2, <1>10, <2>1
  <2>3. /\ \A m \in DOMAIN roots : RootOK(roots[m], OfMethod(all, m))
        /\ \A r \in all : r.method \in DOMAIN roots
    <3>1. routes \subseteq all /\ \A r \in all : r \in routes \/ r.method = method
      OBVIOUS
    <3> HIDE DEF all
    <3> QED
      BY <1>5, <1>6, <2>2, <3>1, RootsKept DEF roots
  <2> DEFINE new    == StaticWith(t.static, method, route.pattern, route.handler)
             allows == With(t.staticAllow, route.pattern, buildStaticAllowHeader(new, route.pattern))
             slash  == AnyTrailing(t.hasTrailing, route.pattern)
             rec    == Recorded(grown, method, route.pattern, route.handler)
  <2>4. rec = IF HasParams(Parts(route.pattern))
              THEN Table(roots, t.static, t.staticAllow, t.hasParams \cup {method}, slash)
              ELSE Table(roots, new, allows, t.hasParams, slash)
    BY <1>4, RecordedTable
  <2>5. ASSUME NEW r \in routes, r.method = method, r.pattern = route.pattern
        PROVE  r.handler = route.handler
    <3>1. r \in OfMethod(all, method) /\ route \in OfMethod(all, method)
      BY <2>5 DEF OfMethod
    <3>2. Entry(r) = Entry(route)
      BY <2>2, <2>5, <3>1 DEF RootOK
    <3> QED
      BY <3>2 DEF Entry
  <2>6. ~HasParams(Parts(route.pattern)) =>
           StaticOK(new, all) /\ CacheOK(new, allows)
    <3>1. StaticOK(t.static, routes) /\ CacheOK(t.static, t.staticAllow)
      BY DEF TableOK
    <3> QED
      BY <2>5, <3>1, StaticKept, CacheKept
  <2> HIDE DEF new, allows, slash, rec
  <2>7. CASE HasParams(Parts(route.pattern))
    <3>1. rec = Table(roots, t.static, t.staticAllow, t.hasParams \cup {method}, slash)
      BY <2>4, <2>7
    <3>2. /\ rec.roots = roots /\ rec.static = t.static /\ rec.staticAllow = t.staticAllow
          /\ rec.hasParams = t.hasParams \cup {method} /\ rec.hasTrailing = slash
      BY <3>1 DEF Table
    <3>3. rec = Table(rec.roots, rec.static, rec.staticAllow, rec.hasParams, rec.hasTrailing)
      BY <3>1, <3>2
    <3>4. StaticOK(t.static, all)
      BY <2>7 DEF TableOK, StaticOK
    <3>5. rec.hasParams \subseteq DOMAIN roots
      BY <1>7, <1>8, <3>2 DEF TableOK
    <3>6. \A r \in all : HasParams(Parts(r.pattern)) => r.method \in rec.hasParams
      BY <3>2 DEF TableOK
    <3>8. \A r \in all : Slashed(r.pattern) => rec.hasTrailing
      BY <3>2 DEF TableOK, slash, AnyTrailing
    <3> HIDE DEF all
    <3>7. TableOK(rec, all)
      BY <2>3, <3>2, <3>3, <3>4, <3>5, <3>6, <3>8 DEF TableOK, OfMethod
    <3> QED
      BY <3>7 DEF rec, all
  <2>8. CASE ~HasParams(Parts(route.pattern))
    <3>1. rec = Table(roots, new, allows, t.hasParams, slash)
      BY <2>4, <2>8
    <3>2. /\ rec.roots = roots /\ rec.static = new /\ rec.staticAllow = allows
          /\ rec.hasParams = t.hasParams /\ rec.hasTrailing = slash
      BY <3>1 DEF Table
    <3>3. rec = Table(rec.roots, rec.static, rec.staticAllow, rec.hasParams, rec.hasTrailing)
      BY <3>1, <3>2
    <3>5. rec.hasParams \subseteq DOMAIN roots
      BY <1>7, <3>2 DEF TableOK
    <3>6. \A r \in all : HasParams(Parts(r.pattern)) => r.method \in rec.hasParams
      BY <2>8, <3>2 DEF TableOK
    <3>8. \A r \in all : Slashed(r.pattern) => rec.hasTrailing
      BY <3>2 DEF TableOK, slash, AnyTrailing
    <3> HIDE DEF all
    <3>7. TableOK(rec, all)
      BY <2>3, <2>6, <2>8, <3>2, <3>3, <3>5, <3>6, <3>8 DEF TableOK, OfMethod
    <3> QED
      BY <3>7 DEF rec, all
  <2> QED
    BY <2>7, <2>8 DEF rec
<1> QED
  BY <1>9, <1>10 DEF ins, grown

-----------------------------------------------------------------------------
(* Every step keeps the invariant *)

\* The pattern that is matched keeps its wildcard at the end, whatever the case mode.
LEMMA MatchPattern ==
    ASSUME NEW pattern \in Seq(Piece), ValidParamNames(Parts(pattern)), NEW b \in BOOLEAN
    PROVE  LET match == IF b THEN LowerPath(pattern) ELSE pattern
           IN  /\ match \in Seq(Piece) /\ match = Live!MatchOf(pattern, b)
               /\ WildLast(Parts(match))
<1> DEFINE parts == Parts(pattern)
           match == IF b THEN LowerPath(pattern) ELSE pattern
<1>1. parts \in Seq(Piece) /\ WildLast(parts)
  <2>1. parts \in Seq(Piece)
    BY PartsType
  <2> QED
    BY ZenonT(40), <2>1 DEF ValidParamNames, WildLast
<1>2. match \in Seq(Piece)
  BY LowerPathType
<1>3. match = Live!MatchOf(pattern, b)
  <2>1. LowerPath(pattern) = Live!LowerPath(pattern)
    BY DEF LowerPath, Live!LowerPath, LowerPiece, Live!LowerPiece, Kind, Live!Kind,
           Text, Live!Text, Static, Live!Static
  <2> QED
    BY <2>1 DEF Live!MatchOf
<1>4. WildLast(LowerPath(parts))
  <2>1. /\ LowerPath(parts) \in Seq(Piece) /\ Len(LowerPath(parts)) = Len(parts)
        /\ \A i \in 1 .. Len(parts) : LowerPath(parts)[i] = LowerPiece(parts[i])
    BY <1>1, LowerPathType
  <2>2. \A i \in 1 .. Len(parts) : Kind(LowerPiece(parts[i])) = Kind(parts[i])
    BY <1>1, LowerType
  <2> HIDE DEF parts
  <2> QED
    BY <1>1, <2>1, <2>2 DEF WildLast
<1>5. Parts(LowerPath(pattern)) = LowerPath(parts)
  BY PartsLower
<1> QED
  BY <1>1, <1>2, <1>3, <1>4, <1>5

\* The next tables and routes are in order, table by table.
LEMMA TablesNext ==
    ASSUME NEW host \in DOMAIN tables',
           TableOK(tables'[host], {route \in accepted' : route.host = host})
    PROVE  TableOK(tables[host], OfHost(host))'
BY DEF TableOK, OfHost, RootOK, StaticOK, CacheOK

\* The route that a registration makes
NewRoute(host, method, pattern, match) ==
    [host |-> host, method |-> method, pattern |-> match, handler |-> <<host, method, pattern>>]

\* What Register does, in terms of that route
LEMMA RegisterRoute ==
    ASSUME NEW host, NEW method, NEW pattern, Register(host, method, pattern)
    PROVE  LET match == IF IgnoreCaseActive THEN LowerPath(pattern) ELSE pattern
               route == NewRoute(host, method, pattern, match)
               table == IF host \in DOMAIN tables THEN tables[host] ELSE NewTable
               ins   == InsertIn(table, route)
               grown == GrownWith(table, method, ins.trie)
           IN  /\ ignoreCaseSet' = TRUE /\ ignoreCaseEnabled' = IgnoreCaseActive
               /\ setup' = setup /\ IgnoreCase' = IgnoreCase
               /\ tables' = With(tables, host,
                                 IF ins.failed THEN grown
                                 ELSE Recorded(grown, method, match, <<host, method, pattern>>))
               /\ accepted' = IF ins.failed THEN accepted ELSE accepted \cup {route}
BY DEF Register, NewRoute, InsertIn, RootOf, GrownWith, Entry

\* Whatever becomes of it in the trie, a registration keeps the invariant.
LEMMA RegisterKeeps ==
    ASSUME RouterInv, NEW offer \in setup.offers, Acceptable(offer[3]),
           Register(offer[1], offer[2], offer[3])
    PROVE  RouterInv'
<1> DEFINE host    == offer[1]
           method  == offer[2]
           pattern == offer[3]
           match   == IF IgnoreCaseActive THEN LowerPath(pattern) ELSE pattern
           route   == NewRoute(host, method, pattern, match)
           table   == IF host \in DOMAIN tables THEN tables[host] ELSE NewTable
           ins     == InsertIn(table, route)
           grown   == GrownWith(table, method, ins.trie)
           rec     == Recorded(grown, method, match, <<host, method, pattern>>)
<1>1. /\ ignoreCaseSet' = TRUE /\ ignoreCaseEnabled' = IgnoreCaseActive
      /\ setup' = setup /\ IgnoreCase' = IgnoreCase
      /\ tables' = With(tables, host, IF ins.failed THEN grown ELSE rec)
      /\ accepted' = IF ins.failed THEN accepted ELSE accepted \cup {route}
  BY RegisterRoute
<1>2. offer \in Offer /\ host \in STRING /\ method \in STRING /\ pattern \in Seq(Piece)
  <2>1. offer \in Offer
    BY SetupAssumption DEF RouterInv, SetupOK
  <2> QED
    BY <2>1 DEF Offer
<1>3. IgnoreCaseActive \in BOOLEAN
  BY DEF RouterInv, SetupOK, AcceptedOK, IgnoreCaseActive
<1>4. match \in Seq(Piece) /\ match = Live!MatchOf(pattern, IgnoreCaseActive) /\ WildLast(Parts(match))
  BY <1>2, <1>3, MatchPattern DEF Acceptable
<1> HIDE DEF match
<1>5. /\ route \in AcceptedRoute /\ route.host = host /\ route.method = method
      /\ route.pattern = match /\ route.handler = <<host, method, pattern>>
  BY <1>2, <1>4 DEF NewRoute, AcceptedRoute, Offer
<1> HIDE DEF host, method, pattern, route
<1>6. TableOK(table, OfHost(host)) /\ OfHost(host) \in SUBSET AcceptedRoute
  <2>1. OfHost(host) \in SUBSET AcceptedRoute
    BY DEF RouterInv, AcceptedOK, OfHost
  <2>2. CASE host \in DOMAIN tables
    BY <2>1, <2>2 DEF RouterInv, TablesOK
  <2>3. CASE host \notin DOMAIN tables
    <3>1. OfHost(host) = {}
      BY <2>3 DEF RouterInv, TablesOK, OfHost
    <3> QED
      BY <2>1, <2>3, <3>1, NewTableOK
  <2> QED
    BY <2>2, <2>3
<1> HIDE DEF table
<1>7. /\ ins.failed => TableOK(grown, OfHost(host))
      /\ ~ins.failed => TableOK(rec, OfHost(host) \cup {route})
  BY <1>4, <1>5, <1>6, TableKeeps
<1> HIDE DEF ins, grown, rec
<1> DEFINE new  == IF ins.failed THEN grown ELSE rec
           mine == {r \in accepted' : r.host = host}
<1>8. TableOK(new, mine)
  <2>1. CASE ins.failed
    <3>1. mine = OfHost(host)
      BY <1>1, <2>1 DEF OfHost
    <3> QED
      BY <1>7, <2>1, <3>1
  <2>2. CASE ~ins.failed
    <3>1. mine = OfHost(host) \cup {route}
      BY <1>1, <1>5, <2>2 DEF OfHost
    <3> QED
      BY <1>7, <2>2, <3>1
  <2> QED
    BY <2>1, <2>2
<1>9. /\ \A h : h \in DOMAIN tables' <=> h \in DOMAIN tables \/ h = host
      /\ tables'[host] = new
      /\ \A h \in DOMAIN tables : h # host => tables'[h] = tables[h]
  <2>1. tables' = With(tables, host, new)
    BY <1>1
  <2> HIDE DEF new
  <2> QED
    BY <2>1, WithAt, WithDomain
<1>10. TablesOK'
  <2>1. ASSUME NEW h \in DOMAIN tables' PROVE TableOK(tables[h], OfHost(h))'
    <3>1. TableOK(tables'[h], {r \in accepted' : r.host = h})
      <4>1. CASE h = host
        BY <1>8, <1>9, <4>1
      <4>2. CASE h # host
        <5>1. {r \in accepted' : r.host = h} = OfHost(h)
          BY <1>1, <1>5, <4>2 DEF OfHost
        <5>2. h \in DOMAIN tables /\ tables'[h] = tables[h]
          BY <1>9, <4>2
        <5> QED
          BY <5>1, <5>2 DEF RouterInv, TablesOK
      <4> QED
        BY <4>1, <4>2
    <3> QED
      BY <3>1, TablesNext
  <2>2. NoHost \in DOMAIN tables'
    BY <1>9 DEF RouterInv, TablesOK
  <2>3. \A r \in accepted' : r.host \in DOMAIN tables'
    BY <1>1, <1>5, <1>9 DEF RouterInv, TablesOK
  <2> QED
    BY <2>1, <2>2, <2>3 DEF TablesOK
<1>11. AcceptedOK'
  <2>1. accepted' \subseteq AcceptedRoute
    BY <1>1, <1>5 DEF RouterInv, AcceptedOK
  <2>2. accepted # {} => ignoreCaseEnabled' = ignoreCaseEnabled
    BY <1>1 DEF RouterInv, AcceptedOK, IgnoreCaseActive
  <2>3. ASSUME NEW r \in accepted'
        PROVE  /\ r.pattern = Live!MatchOf(r.handler[3], ignoreCaseEnabled')
               /\ r.handler \in setup.offers /\ Acceptable(r.handler[3])
               /\ r.handler = <<r.host, r.method, r.handler[3]>>
    <3>1. CASE r \in accepted
      BY <2>2, <3>1 DEF RouterInv, AcceptedOK, CaseModeUniform
    <3>2. CASE r = route
      <4>1. r.handler[3] = pattern
        BY <1>5, <3>2
      <4>2. offer = <<host, method, pattern>>
        BY <1>2 DEF Offer, host, method, pattern
      <4> QED
        BY <1>1, <1>4, <1>5, <3>2, <4>1, <4>2 DEF pattern
    <3> QED
      BY <1>1, <3>1, <3>2
  <2>4. \A r \in accepted' : Acceptable(r.handler[3])'
    BY <1>1, <2>3 DEF Acceptable
  <2> QED
    BY <1>1, <1>3, <2>1, <2>3, <2>4 DEF AcceptedOK, CaseModeUniform
<1>12. SetupOK'
  BY <1>1 DEF RouterInv, SetupOK
<1> QED
  BY <1>10, <1>11, <1>12 DEF RouterInv

\* The tables stay in order when neither they nor the accepted routes change.
LEMMA SameTables ==
    ASSUME TablesOK, tables' = tables, accepted' = accepted
    PROVE  TablesOK'
<1>1. ASSUME NEW h \in DOMAIN tables' PROVE TableOK(tables[h], OfHost(h))'
  <2>1. TableOK(tables'[h], {r \in accepted' : r.host = h})
    BY DEF TablesOK, OfHost
  <2> QED
    BY <2>1, TablesNext
<1> QED
  BY <1>1 DEF TablesOK

\* A new router is in order.
LEMMA RouterInit == Init => RouterInv
<1> SUFFICES ASSUME Init PROVE RouterInv
  OBVIOUS
<1>1. SetupOK
  BY SetupAssumption DEF Init, SetupOK
<1>2. AcceptedOK
  BY DEF Init, AcceptedOK, CaseModeUniform
<1>3. TablesOK
  <2>1. \A h : OfHost(h) = {}
    BY DEF Init, OfHost
  <2>2. DOMAIN tables = {NoHost} /\ tables[NoHost] = NewTable
    BY DEF Init
  <2> QED
    BY <2>1, <2>2, NewTableOK DEF Init, TablesOK
<1> QED
  BY <1>1, <1>2, <1>3 DEF RouterInv

\* Every step of the router, and every step that is not one of its own, keeps it in order.
LEMMA RouterNext == RouterInv /\ [Next]_vars => RouterInv'
<1> SUFFICES ASSUME RouterInv, [Next]_vars PROVE RouterInv'
  OBVIOUS
<1>1. ASSUME NEW offer \in setup.offers, Handle(offer[1], offer[2], offer[3])
      PROVE  RouterInv'
  BY <1>1, RegisterKeeps DEF Handle
<1>2. ASSUME NEW offer \in setup.offers, HandleNilMiddleware(offer[3])
      PROVE  RouterInv'
  <2>1. TablesOK'
    BY <1>2, SameTables DEF HandleNilMiddleware, RouterInv
  <2>2. /\ ignoreCaseSet' /\ ignoreCaseEnabled' \in BOOLEAN
        /\ accepted # {} => ignoreCaseEnabled' = ignoreCaseEnabled
    BY <1>2 DEF HandleNilMiddleware, IgnoreCaseActive, RouterInv, SetupOK, AcceptedOK
  <2>3. AcceptedOK'
    BY <1>2, <2>2 DEF HandleNilMiddleware, RouterInv, AcceptedOK, CaseModeUniform, Acceptable
  <2> QED
    BY <1>2, <2>1, <2>3 DEF HandleNilMiddleware, RouterInv, SetupOK
<1>3. ASSUME NEW b \in setup.IgnoreCases, SetIgnoreCase(b)
      PROVE  RouterInv'
  <2>1. TablesOK'
    BY <1>3, SameTables DEF SetIgnoreCase, RouterInv
  <2>2. AcceptedOK'
    BY <1>3 DEF SetIgnoreCase, RouterInv, AcceptedOK, CaseModeUniform, Acceptable
  <2>3. SetupOK'
    BY <1>3, SetupAssumption DEF SetIgnoreCase, RouterInv, SetupOK
  <2> QED
    BY <2>1, <2>2, <2>3 DEF RouterInv
<1>4. ASSUME UNCHANGED vars PROVE RouterInv'
  <2>1. TablesOK'
    BY <1>4, SameTables DEF vars, RouterInv
  <2>2. AcceptedOK'
    BY <1>4 DEF vars, RouterInv, AcceptedOK, CaseModeUniform, Acceptable
  <2> QED
    BY <1>4, <2>1, <2>2 DEF vars, RouterInv, SetupOK
<1> QED
  BY <1>1, <1>2, <1>3, <1>4 DEF Next, HandleRejected

\* A frozen copy changes nothing of its router: the router with its copies behaves
\* as the router alone.
THEOREM FrozenIsRouter == FrozenSpec => Spec
<1>1. FrozenInit => Init
  BY DEF FrozenInit
<1>2. [FrozenNext]_frozenVars => [Next]_vars
  BY DEF FrozenNext, Freeze, frozenVars, vars
<1> QED
  BY <1>1, <1>2, PTL DEF FrozenSpec, Spec

\* The invariant holds in every state of a router, with or without frozen copies.
THEOREM Inductive == Spec => []RouterInv
BY RouterInit, RouterNext, PTL DEF Spec

\* The invariant holds of a router that is frozen now and then, too.
THEOREM FrozenInductive == FrozenSpec => []RouterInv
BY FrozenIsRouter, Inductive, PTL

\* Every accepted pattern was normalized in the mode that requests are matched in.
THEOREM OneCaseMode == FrozenSpec => []CaseModeUniform
<1>1. RouterInv => CaseModeUniform
  BY DEF RouterInv, AcceptedOK
<1> QED
  BY <1>1, FrozenInductive, PTL

-----------------------------------------------------------------------------
(* What a 405 says *)

IsServed(answer) == answer.kind = "served" /\ answer # Live!NotFound

\* A method either serves a path or leaves it unanswered.
LEMMA ServeMethod ==
    ASSUME NEW t, NEW method, NEW match, NEW raw
    PROVE  LET answer == Live!serveMethodInTable(t, method, match, raw)
           IN  answer = Live!NotFound \/ IsServed(answer)
<1>1. ASSUME NEW handler, NEW params PROVE IsServed(Live!Served(handler, params))
  BY DEF IsServed, Live!Served, Live!NotFound
<1> QED
  BY <1>1 DEF Live!serveMethodInTable

\* With the fallback of HEAD to GET, too, a path is served or left unanswered.
LEMMA ServeAny ==
    ASSUME NEW t, NEW method, NEW match, NEW raw
    PROVE  LET answer == Live!serveInTable(t, method, match, raw)
           IN  answer = Live!NotFound \/ IsServed(answer)
BY ServeMethod DEF Live!serveInTable, Live!Otherwise

\* The methods a table serves a path with, HEAD as GET apart
Serving(t, match) == Live!StaticMethods(t.static, match)
                     \cup (IF Len(Live!Parts(match)) > setup.MaxDepth THEN {}
                           ELSE {m \in t.hasParams : Search(t.roots[m], match, match).found # {}})

\* Each method that Serving lists serves the path.
LEMMA ServingServes ==
    ASSUME NEW t, NEW routes, TableOK(t, routes), NEW match, NEW raw, NEW m \in Serving(t, match)
    PROVE  IsServed(Live!serveMethodInTable(t, m, match, raw))
<1>1. ASSUME NEW handler, NEW params PROVE IsServed(Live!Served(handler, params))
  BY DEF IsServed, Live!Served, Live!NotFound
<1>2. CASE m \in Live!StaticMethods(t.static, match)
  <2>1. m \in DOMAIN t.static /\ match \in DOMAIN t.static[m]
    BY <1>2 DEF Live!StaticMethods
  <2> QED
    BY <1>1, <2>1 DEF Live!serveMethodInTable
<1>3. CASE /\ ~(Len(Live!Parts(match)) > setup.MaxDepth) /\ m \in t.hasParams
           /\ Search(t.roots[m], match, match).found # {}
  <2>1. TrieOK(t.roots[m])
    BY <1>3 DEF TableOK, RootOK
  <2>2. Search(t.roots[m], match, raw).found # {}
    BY <1>3, <2>1, FoundWithoutRaw
  <2> QED
    BY <1>1, <1>3, <2>2 DEF Live!serveMethodInTable
<1> QED
  BY <1>2, <1>3 DEF Serving

\* Every method of an Allow header, OPTIONS apart, serves the path.
LEMMA AllowedIsServed ==
    ASSUME NEW t, NEW routes, TableOK(t, routes), NEW match, NEW raw,
           NEW m \in Live!allowedMethodsInTable(t, match) \ {"OPTIONS"}
    PROVE  IsServed(Live!serveInTable(t, m, match, raw))
<1>1. PICK S \in SUBSET Serving(t, match) : m \in Live!AllowHeader(S)
  <2>1. CASE Live!AnyParams(t)
    <3> DEFINE S == Live!StaticMethods(t.static, match)
                    \cup {k \in t.hasParams : Search(t.roots[k], match, match).found # {}}
    <3>1. ~(Len(Live!Parts(match)) > setup.MaxDepth) /\ m \in Live!AllowHeader(S)
      BY <2>1 DEF Live!allowedMethodsInTable
    <3>2. S \subseteq Serving(t, match)
      BY <3>1 DEF Serving
    <3> QED
      BY <3>1, <3>2
  <2>2. CASE ~Live!AnyParams(t)
    <3>1. match \in DOMAIN t.staticAllow /\ m \in t.staticAllow[match]
      BY <2>2 DEF Live!allowedMethodsInTable
    <3>2. t.staticAllow[match] = Live!AllowHeader(Live!StaticMethods(t.static, match))
      BY <3>1 DEF TableOK, CacheOK, buildStaticAllowHeader
    <3>3. Live!StaticMethods(t.static, match) \subseteq Serving(t, match)
      BY DEF Serving
    <3> QED
      BY <3>1, <3>2, <3>3
  <2> QED
    BY <2>1, <2>2
<1>2. m \in S \/ (m = "HEAD" /\ "GET" \in S)
  BY <1>1 DEF Live!AllowHeader
<1>3. \A k \in S : IsServed(Live!serveMethodInTable(t, k, match, raw))
  BY <1>1, ServingServes
<1>4. CASE m = "HEAD"
  <2> DEFINE head == Live!serveMethodInTable(t, "HEAD", match, raw)
             get  == Live!serveMethodInTable(t, "GET", match, raw)
  <2>1. Live!serveInTable(t, m, match, raw) = IF head # Live!NotFound THEN head ELSE get
    BY <1>4 DEF Live!serveInTable, Live!Otherwise
  <2>2. head = Live!NotFound \/ IsServed(head)
    BY ServeMethod
  <2>3. IsServed(head) \/ IsServed(get)
    BY <1>2, <1>3, <1>4
  <2>4. IsServed(head) => head # Live!NotFound
    BY DEF IsServed
  <2> HIDE DEF head, get
  <2> QED
    BY <2>1, <2>2, <2>3, <2>4
<1>5. CASE m # "HEAD"
  BY <1>2, <1>3, <1>5 DEF Live!serveInTable
<1> QED
  BY <1>4, <1>5

Denies(answer) == answer.kind \in {"notAllowed", "options"}

\* The request with another method
Other(req, m) == [req EXCEPT !.method = m]

\* The request with another method differs in its method only.
LEMMA OtherFields ==
    ASSUME NEW req \in Request, NEW m
    PROVE  /\ Other(req, m).method = m /\ Other(req, m).host = req.host
           /\ Other(req, m).path = req.path /\ Other(req, m).raw = req.raw
BY DEF Other, Request

\* The answers that are not served: which of them refuse the method, and that all but NotFound
\* are answers.
LEMMA Kinds ==
    /\ ~Denies(Live!NotFound)
    /\ \A path : ~Denies(Live!RedirectTo(path)) /\ Live!RedirectTo(path) # Live!NotFound
    /\ \A answer : IsServed(answer) => ~Denies(answer) /\ answer # Live!NotFound
    /\ \A req, allow : /\ Live!NotAllowed(req, allow).allow = allow
                       /\ Denies(Live!NotAllowed(req, allow))
                       /\ Live!NotAllowed(req, allow) # Live!NotFound
<1>1. ASSUME NEW path
      PROVE  ~Denies(Live!RedirectTo(path)) /\ Live!RedirectTo(path) # Live!NotFound
  <2>1. Live!RedirectTo(path).kind = "redirect" /\ Live!NotFound.kind = "notFound"
    BY DEF Live!RedirectTo, Live!NotFound
  <2> QED
    BY <2>1 DEF Denies
<1>2. ASSUME NEW req, NEW allow
      PROVE  /\ Live!NotAllowed(req, allow).allow = allow
             /\ Denies(Live!NotAllowed(req, allow))
             /\ Live!NotAllowed(req, allow) # Live!NotFound
  <2> DEFINE kind == IF req.method = "OPTIONS" THEN "options" ELSE "notAllowed"
             answer == Live!NotAllowed(req, allow)
  <2>1. kind \in {"notAllowed", "options"} /\ kind # "notFound"
    OBVIOUS
  <2>2. answer = [kind |-> kind, allow |-> allow]
    BY DEF Live!NotAllowed
  <2> HIDE DEF kind, answer
  <2>3. answer.kind = kind /\ answer.allow = allow /\ Live!NotFound.kind = "notFound"
    BY <2>2 DEF Live!NotFound
  <2> QED
    BY <2>1, <2>3 DEF Denies, answer
<1>3. ~Denies(Live!NotFound)
  BY DEF Denies, Live!NotFound
<1>4. \A answer : IsServed(answer) => ~Denies(answer) /\ answer # Live!NotFound
  BY DEF IsServed, Denies
<1> QED
  BY <1>1, <1>2, <1>3, <1>4

\* The three attempts of AnswerOf
Serve1(t, req, match, raw) == Live!serveInTable(t, req.method, match, raw)
Slash1(t, req, match, raw) == Live!tryAlternateSlashInTable(t, req, match, raw)
Deny1(t, req, match)       == Live!handleMethodNotAllowedInTable(t, req, match)

\* A table answers with the first attempt that is not NotFound.
LEMMA Attempts ==
    ASSUME NEW t, NEW req, NEW match, NEW raw
    PROVE  Live!AnswerOf(t, req, match, raw) =
              IF Serve1(t, req, match, raw) # Live!NotFound THEN Serve1(t, req, match, raw)
              ELSE IF Slash1(t, req, match, raw) # Live!NotFound THEN Slash1(t, req, match, raw)
              ELSE Deny1(t, req, match)
BY DEF Live!AnswerOf, Live!Otherwise, Serve1, Slash1, Deny1

\* The alternate form of a path is looked at.
LooksAtSlash(t, match) == ~(Live!NoSlashRoute(t, match) \/ ~Live!HasAlternate(match))

\* What the second attempt answers, with StrictSlash and without it.
LEMMA SlashAttempt ==
    ASSUME NEW t, NEW req, NEW match, NEW raw
    PROVE  LET slash == Slash1(t, req, match, raw)
               allow == Live!allowedMethodsInTable(t, Live!Alternate(match))
           IN  /\ ~LooksAtSlash(t, match) => slash = Live!NotFound
               /\ LooksAtSlash(t, match) /\ setup.StrictSlash =>
                     slash = IF allow # {} THEN Live!RedirectTo(Live!Alternate(raw)) ELSE Live!NotFound
               /\ LooksAtSlash(t, match) /\ ~setup.StrictSlash =>
                     slash = Live!serveInTable(t, req.method, Live!Alternate(match), Live!Alternate(raw))
BY DEF Slash1, Live!tryAlternateSlashInTable, LooksAtSlash

\* What the third attempt answers.
LEMMA DenyAttempt ==
    ASSUME NEW t, NEW req, NEW match
    PROVE  LET allow == Live!allowedMethodsInTable(t, match)
               other == Live!allowedMethodsInTable(t, Live!Alternate(match))
               deny  == Deny1(t, req, match)
           IN  /\ allow # {} => deny = Live!NotAllowed(req, allow)
               /\ allow = {} /\ (setup.StrictSlash \/ ~LooksAtSlash(t, match) \/ other = {})
                     => deny = Live!NotFound
               /\ allow = {} /\ ~(setup.StrictSlash \/ ~LooksAtSlash(t, match) \/ other = {})
                     => deny = Live!NotAllowed(req, other)
BY DEF Deny1, Live!handleMethodNotAllowedInTable, LooksAtSlash

\* A table that has no answer to a request serves it with another method, or has
\* no answer then either.
LEMMA NoAnswerForOther ==
    ASSUME NEW t, NEW req \in Request, NEW m, NEW match, NEW raw,
           Live!AnswerOf(t, req, match, raw) = Live!NotFound
    PROVE  LET answer == Live!AnswerOf(t, Other(req, m), match, raw)
           IN  answer = Live!NotFound \/ IsServed(answer)
<1> DEFINE q == Other(req, m)
           allow == Live!allowedMethodsInTable(t, match)
           other == Live!allowedMethodsInTable(t, Live!Alternate(match))
<1>1. /\ Serve1(t, req, match, raw) = Live!NotFound
      /\ Slash1(t, req, match, raw) = Live!NotFound
      /\ Deny1(t, req, match) = Live!NotFound
  BY Attempts
<1>2. Serve1(t, q, match, raw) = Live!NotFound \/ IsServed(Serve1(t, q, match, raw))
  BY ServeAny DEF Serve1
<1> HIDE DEF q, allow, other
<1>3. Slash1(t, q, match, raw) = Live!NotFound \/ IsServed(Slash1(t, q, match, raw))
  <2>1. CASE ~LooksAtSlash(t, match)
    BY <2>1, SlashAttempt
  <2>2. CASE LooksAtSlash(t, match) /\ setup.StrictSlash
    <3>1. other = {}
      BY <1>1, <2>2, SlashAttempt, Kinds DEF other
    <3> QED
      BY <2>2, <3>1, SlashAttempt DEF other
  <2>3. CASE LooksAtSlash(t, match) /\ ~setup.StrictSlash
    BY <2>3, SlashAttempt, ServeAny
  <2> QED
    BY <2>1, <2>2, <2>3
<1>4. Deny1(t, q, match) = Live!NotFound
  <2>1. allow = {}
    BY <1>1, DenyAttempt, Kinds DEF allow
  <2>2. setup.StrictSlash \/ ~LooksAtSlash(t, match) \/ other = {}
    BY <1>1, <2>1, DenyAttempt, Kinds DEF allow, other
  <2> QED
    BY <2>1, <2>2, DenyAttempt DEF allow, other
<1>5. Live!AnswerOf(t, q, match, raw) =
         IF Serve1(t, q, match, raw) # Live!NotFound THEN Serve1(t, q, match, raw)
         ELSE IF Slash1(t, q, match, raw) # Live!NotFound THEN Slash1(t, q, match, raw)
         ELSE Deny1(t, q, match)
  BY Attempts
<1> QED
  BY <1>2, <1>3, <1>4, <1>5 DEF q

\* A table that refuses a method names only others, and serves each of them.
LEMMA DeniesTruly ==
    ASSUME NEW t, NEW routes, TableOK(t, routes), NEW req \in Request, NEW match, NEW raw,
           Denies(Live!AnswerOf(t, req, match, raw))
    PROVE  LET answer == Live!AnswerOf(t, req, match, raw)
           IN  /\ req.method # "OPTIONS" => req.method \notin answer.allow
               /\ \A m \in answer.allow \ {"OPTIONS"} :
                     IsServed(Live!AnswerOf(t, Other(req, m), match, raw))
<1> DEFINE answer == Live!AnswerOf(t, req, match, raw)
           allow == Live!allowedMethodsInTable(t, match)
           other == Live!allowedMethodsInTable(t, Live!Alternate(match))
<1>1. answer = IF Serve1(t, req, match, raw) # Live!NotFound THEN Serve1(t, req, match, raw)
               ELSE IF Slash1(t, req, match, raw) # Live!NotFound THEN Slash1(t, req, match, raw)
               ELSE Deny1(t, req, match)
  BY Attempts
<1>2. Serve1(t, req, match, raw) = Live!NotFound \/ IsServed(Serve1(t, req, match, raw))
  BY ServeAny DEF Serve1
<1>3. Serve1(t, req, match, raw) = Live!NotFound
  BY <1>1, <1>2, Kinds
<1>4. ASSUME Slash1(t, req, match, raw) # Live!NotFound
      PROVE  ~Denies(Slash1(t, req, match, raw))
  <2>1. LooksAtSlash(t, match)
    BY <1>4, SlashAttempt
  <2>2. CASE setup.StrictSlash
    BY <1>4, <2>1, <2>2, SlashAttempt, Kinds
  <2>3. CASE ~setup.StrictSlash
    BY <1>4, <2>1, <2>3, SlashAttempt, ServeAny, Kinds
  <2> QED
    BY <2>2, <2>3
<1> HIDE DEF answer, allow, other
<1>5. Slash1(t, req, match, raw) = Live!NotFound /\ answer = Deny1(t, req, match)
  BY <1>1, <1>3, <1>4 DEF answer
<1>6. Denies(answer)
  BY DEF answer
<1>7. CASE allow # {}
  <2>1. answer.allow = allow
    BY <1>5, <1>7, DenyAttempt, Kinds DEF allow
  <2>2. ASSUME NEW m \in allow \ {"OPTIONS"}
        PROVE  IsServed(Live!serveInTable(t, m, match, raw))
    BY AllowedIsServed DEF allow
  <2>3. req.method # "OPTIONS" => req.method \notin allow
    BY <1>3, <2>2, Kinds DEF Serve1
  <2>4. ASSUME NEW m \in allow \ {"OPTIONS"}
        PROVE  IsServed(Live!AnswerOf(t, Other(req, m), match, raw))
    <3>1. Serve1(t, Other(req, m), match, raw) = Live!serveInTable(t, m, match, raw)
      BY OtherFields DEF Serve1
    <3> QED
      BY <2>2, <3>1, Attempts, Kinds
  <2> QED
    BY <2>1, <2>3, <2>4 DEF answer
<1>8. CASE allow = {}
  <2>1. ~(setup.StrictSlash \/ ~LooksAtSlash(t, match) \/ other = {})
    BY <1>5, <1>6, <1>8, DenyAttempt, Kinds DEF allow, other
  <2>2. answer.allow = other
    BY <1>5, <1>8, <2>1, DenyAttempt, Kinds DEF allow, other
  <2>3. ASSUME NEW m \in other \ {"OPTIONS"}
        PROVE  IsServed(Live!serveInTable(t, m, Live!Alternate(match), Live!Alternate(raw)))
    BY AllowedIsServed DEF other
  <2>4. Slash1(t, req, match, raw)
           = Live!serveInTable(t, req.method, Live!Alternate(match), Live!Alternate(raw))
    BY <2>1, SlashAttempt
  <2>5. req.method # "OPTIONS" => req.method \notin other
    BY <1>5, <2>3, <2>4, Kinds
  <2>6. ASSUME NEW m \in other \ {"OPTIONS"}
        PROVE  IsServed(Live!AnswerOf(t, Other(req, m), match, raw))
    <3> DEFINE q == Other(req, m)
    <3>1. Slash1(t, q, match, raw)
             = Live!serveInTable(t, m, Live!Alternate(match), Live!Alternate(raw))
      BY <2>1, SlashAttempt, OtherFields
    <3>2. IsServed(Slash1(t, q, match, raw))
      BY <2>3, <3>1
    <3>3. Serve1(t, q, match, raw) = Live!NotFound \/ IsServed(Serve1(t, q, match, raw))
      BY ServeAny DEF Serve1
    <3> HIDE DEF q
    <3>4. IsServed(Live!AnswerOf(t, q, match, raw))
      BY <3>2, <3>3, Attempts, Kinds
    <3> QED
      BY <3>4 DEF q
  <2> QED
    BY <2>2, <2>5, <2>6 DEF answer
<1> QED
  BY <1>7, <1>8

MatchFor(req) == Live!MatchOf(req.path, IgnoreCaseActive)

\* The answer of a host's table, when the host has one
InHost(req) ==
    IF req.host = NoHost \/ req.host \notin DOMAIN tables THEN Live!NotFound
    ELSE Live!AnswerOf(tables[req.host], req, MatchFor(req), req.path)
InDefault(req) == Live!AnswerOf(tables[NoHost], req, MatchFor(req), req.path)

\* The answer to a clean request is that of its host's table or else of the default table.
LEMMA AnswerParts ==
    ASSUME NEW req, Live!Clean(req)
    PROVE  Answer(req) = IF InHost(req) # Live!NotFound THEN InHost(req) ELSE InDefault(req)
BY DEF Answer, Live!Resolve, Live!Otherwise, InHost, InDefault, MatchFor

\* The tables and paths that are looked at do not depend on the method.
LEMMA OtherParts ==
    ASSUME NEW req \in Request, NEW m
    PROVE  /\ Live!Clean(Other(req, m)) <=> Live!Clean(req)
           /\ InDefault(Other(req, m))
                 = Live!AnswerOf(tables[NoHost], Other(req, m), MatchFor(req), req.path)
           /\ InHost(Other(req, m)) =
                 IF req.host = NoHost \/ req.host \notin DOMAIN tables THEN Live!NotFound
                 ELSE Live!AnswerOf(tables[req.host], Other(req, m), MatchFor(req), req.path)
<1> DEFINE q == Other(req, m)
<1>1. q.host = req.host /\ q.path = req.path /\ q.raw = req.raw
  BY OtherFields
<1> HIDE DEF q
<1>2. Live!Clean(q) <=> Live!Clean(req)
  BY <1>1 DEF Live!Clean, Live!UsesRaw
<1>3. MatchFor(q) = MatchFor(req)
  BY <1>1 DEF MatchFor
<1> QED
  BY <1>1, <1>2, <1>3 DEF InDefault, InHost, q

\* A 405 tells the truth in every reachable state.
THEOREM AllowTrue == FrozenSpec => []AllowIsTrue
<1>1. RouterInv => AllowIsTrue
  <2> SUFFICES ASSUME RouterInv, NEW req \in Requests, Live!Clean(req), Denies(Answer(req))
               PROVE  /\ req.method # "OPTIONS" => req.method \notin Answer(req).allow
                      /\ \A m \in Answer(req).allow \ {"OPTIONS"} :
                            Answer([req EXCEPT !.method = m]).kind = "served"
    BY DEF AllowIsTrue, CleanRequests, Denies
  <2>1. req \in Request
    BY SetupAssumption DEF Requests, RouterInv, SetupOK
  <2>2. \A host \in DOMAIN tables : TableOK(tables[host], OfHost(host))
    BY DEF RouterInv, TablesOK
  <2>3. NoHost \in DOMAIN tables
    BY DEF RouterInv, TablesOK
  <2>4. Answer(req) = IF InHost(req) # Live!NotFound THEN InHost(req) ELSE InDefault(req)
    BY AnswerParts
  <2>5. ASSUME NEW m
        PROVE  /\ Answer(Other(req, m)) = IF InHost(Other(req, m)) # Live!NotFound
                                          THEN InHost(Other(req, m)) ELSE InDefault(Other(req, m))
               /\ InDefault(Other(req, m))
                     = Live!AnswerOf(tables[NoHost], Other(req, m), MatchFor(req), req.path)
               /\ InHost(Other(req, m)) =
                     IF req.host = NoHost \/ req.host \notin DOMAIN tables THEN Live!NotFound
                     ELSE Live!AnswerOf(tables[req.host], Other(req, m), MatchFor(req), req.path)
    BY <2>1, OtherParts, AnswerParts
  <2>6. CASE InHost(req) # Live!NotFound
    <3>1. /\ req.host # NoHost /\ req.host \in DOMAIN tables
          /\ Answer(req) = Live!AnswerOf(tables[req.host], req, MatchFor(req), req.path)
      BY <2>4, <2>6 DEF InHost
    <3>2. /\ req.method # "OPTIONS" => req.method \notin Answer(req).allow
          /\ \A m \in Answer(req).allow \ {"OPTIONS"} :
                IsServed(Live!AnswerOf(tables[req.host], Other(req, m), MatchFor(req), req.path))
      BY <2>1, <2>2, <3>1, DeniesTruly
    <3>3. \A m \in Answer(req).allow \ {"OPTIONS"} : IsServed(Answer(Other(req, m)))
      BY <2>5, <3>1, <3>2, Kinds
    <3> QED
      BY <3>2, <3>3 DEF IsServed, Other
  <2>7. CASE InHost(req) = Live!NotFound
    <3>1. Answer(req) = Live!AnswerOf(tables[NoHost], req, MatchFor(req), req.path)
      BY <2>4, <2>7 DEF InDefault
    <3>2. /\ req.method # "OPTIONS" => req.method \notin Answer(req).allow
          /\ \A m \in Answer(req).allow \ {"OPTIONS"} :
                IsServed(Live!AnswerOf(tables[NoHost], Other(req, m), MatchFor(req), req.path))
      BY <2>1, <2>2, <2>3, <3>1, DeniesTruly
    <3>3. ASSUME NEW m
          PROVE  InHost(Other(req, m)) = Live!NotFound \/ IsServed(InHost(Other(req, m)))
      BY <2>1, <2>5, <2>7, NoAnswerForOther DEF InHost
    <3>4. \A m \in Answer(req).allow \ {"OPTIONS"} : IsServed(Answer(Other(req, m)))
      BY <2>5, <3>2, <3>3, Kinds
    <3> QED
      BY <3>2, <3>4 DEF IsServed, Other
  <2> QED
    BY <2>6, <2>7
<1> QED
  BY <1>1, FrozenInductive, PTL

-----------------------------------------------------------------------------
(* What search finds *)

RequestPath == Seq({"static"} \X STRING)

\* A request path is matched as a path of static parts, whatever the case mode.
LEMMA RequestMatch ==
    ASSUME NEW path \in RequestPath, NEW b \in BOOLEAN
    PROVE  /\ Live!MatchOf(path, b) \in RequestPath /\ Live!MatchOf(path, b) \in Seq(Piece)
           /\ Parts(Live!MatchOf(path, b)) \in RequestParts
<1> DEFINE match == Live!MatchOf(path, b)
<1>1. path \in Seq(Piece) /\ Len(path) \in Nat /\ \A i \in 1 .. Len(path) : Kind(path[i]) = "static"
  BY DEF RequestPath, Piece, Kind
<1>2. match = IF b THEN LowerPath(path) ELSE path
  <2>1. LowerPath(path) = Live!LowerPath(path)
    BY DEF LowerPath, Live!LowerPath, LowerPiece, Live!LowerPiece, Kind, Live!Kind,
           Text, Live!Text, Static, Live!Static
  <2> QED
    BY <2>1 DEF Live!MatchOf
<1>3. LowerPath(path) \in RequestPath
  <2>1. /\ LowerPath(path) \in Seq(Piece) /\ Len(LowerPath(path)) = Len(path)
        /\ \A i \in 1 .. Len(path) : LowerPath(path)[i] = LowerPiece(path[i])
    BY <1>1, LowerPathType
  <2>2. \A i \in 1 .. Len(path) : LowerPiece(path[i]) \in Piece /\ Kind(LowerPiece(path[i])) = "static"
    BY <1>1, LowerType
  <2>3. \A x \in Piece : Kind(x) = "static" => x \in {"static"} \X STRING
    BY DEF Piece, Kind
  <2>4. \A i \in 1 .. Len(LowerPath(path)) : LowerPath(path)[i] \in {"static"} \X STRING
    BY <2>1, <2>2, <2>3
  <2> QED
    BY <2>1, <2>4 DEF RequestPath
<1>4. match \in RequestPath
  BY <1>2, <1>3
<1> HIDE DEF match
<1>5. match \in Seq(Piece)
  BY <1>4 DEF RequestPath, Piece
<1>6. Parts(match) \in RequestParts
  BY <1>4, PartsType DEF RequestPath, RequestParts
<1> QED
  BY <1>4, <1>5, <1>6 DEF match

\* The routes that match a path
Matching(routes, path) == {r \in routes : Matches(Parts(r.pattern), Parts(path))}

\* The result of a search is what the best of the matching routes says.
FoundBest(routes, path, result) ==
    IF Matching(routes, path) = {} THEN result.found = {}
    ELSE \E best \in Matching(routes, path) :
            /\ \A r \in Matching(routes, path) \ {best} :
                  Beats(Parts(best.pattern), Parts(r.pattern))
            /\ {r.handler : r \in result.found} = {best.handler}
            /\ result.params = Bindings(Parts(best.pattern), path, path)

\* A search in a trie finds the best of the routes that the trie was made from.
LEMMA RootFindsBest ==
    ASSUME NEW t, NEW routes \in SUBSET AcceptedRoute, RootOK(t, routes),
           \A r1, r2 \in routes : r1.host = r2.host /\ r1.method = r2.method,
           NEW path \in Seq(Piece), Parts(path) \in RequestParts
    PROVE  FoundBest(routes, path, Search(t, path, path))
<1> DEFINE parts  == Parts(path)
           nodes  == MatchingNodes(t, parts)
           result == Search(t, path, path)
<1>1. TrieOK(t) /\ WildsRouted(t)
  BY DEF RootOK, WildsRouted
<1>2. /\ nodes = {} => result = Miss
      /\ nodes # {} =>
           \E best \in nodes :
              /\ \A r \in nodes \ {best} : Beats(best, r)
              /\ result.found = {t[best]}
              /\ result.params = Bindings(best, path, path)
  BY <1>1, SearchBest
<1>3. \A r \in Matching(routes, path) : Parts(r.pattern) \in nodes /\ t[Parts(r.pattern)] = Entry(r)
  BY EntryType DEF Matching, MatchingNodes, RootOK
<1>4. \A n \in nodes : \E r \in Matching(routes, path) : Parts(r.pattern) = n
  BY DEF Matching, MatchingNodes, RootOK
<1> HIDE DEF result, nodes
<1>5. ASSUME NEW r1 \in Matching(routes, path), NEW r2 \in Matching(routes, path),
             Parts(r1.pattern) = Parts(r2.pattern)
      PROVE  r1 = r2
  <2>1. Entry(r1) = Entry(r2)
    BY <1>3, <1>5
  <2>2. r1.pattern = r2.pattern /\ r1.handler = r2.handler
    BY <2>1 DEF Entry
  <2>3. r1 \in routes /\ r2 \in routes
    BY DEF Matching
  <2>4. r1 \in AcceptedRoute /\ r2 \in AcceptedRoute /\ r1.host = r2.host /\ r1.method = r2.method
    BY <2>3
  <2> QED
    BY <2>2, <2>4 DEF AcceptedRoute
<1>6. CASE Matching(routes, path) = {}
  <2>1. result = Miss
    BY <1>2, <1>4, <1>6
  <2> QED
    BY <1>6, <2>1 DEF FoundBest, Miss, result
<1>7. CASE Matching(routes, path) # {}
  <2>1. PICK n \in nodes : /\ \A r \in nodes \ {n} : Beats(n, r)
                           /\ result.found = {t[n]}
                           /\ result.params = Bindings(n, path, path)
    BY <1>2, <1>3, <1>7
  <2>2. PICK best \in Matching(routes, path) : Parts(best.pattern) = n
    BY <1>4
  <2>3. \A r \in Matching(routes, path) \ {best} : Beats(Parts(best.pattern), Parts(r.pattern))
    BY <1>3, <1>5, <2>1, <2>2
  <2>4. {r.handler : r \in result.found} = {best.handler}
    <3>1. result.found = {Entry(best)} /\ Entry(best).handler = best.handler
      BY <1>3, <2>1, <2>2 DEF Entry
    <3> QED
      BY <3>1
  <2> QED
    BY <1>7, <2>1, <2>2, <2>3, <2>4 DEF FoundBest, result
<1> QED
  BY <1>6, <1>7

\* In every state, search finds the registered route that wins by
\* Static > Param > Wild in every trie and for every path that a request is
\* matched with, and binds that route's parameters and nothing else.
THEOREM BestFound == FrozenSpec => []SearchFindsBest
<1>1. ASSUME RouterInv PROVE SearchFindsBest
  <2>1. ASSUME NEW host \in DOMAIN tables, NEW m \in DOMAIN tables[host].roots,
               NEW path \in MatchPaths
        PROVE  FoundBest(RoutesOf(host, m), path, Search(tables[host].roots[m], path, path))
    <3> DEFINE t == tables[host].roots[m]
               routes == RoutesOf(host, m)
    <3>1. PICK req \in CleanRequests : path = Live!MatchOf(req.path, IgnoreCaseActive)
      BY DEF MatchPaths
    <3>2. req.path \in RequestPath
      <4>1. req \in Request
        BY <1>1, SetupAssumption DEF CleanRequests, Requests, RouterInv, SetupOK
      <4> QED
        BY <4>1 DEF Request, RequestPath
    <3>3. IgnoreCaseActive \in BOOLEAN
      BY <1>1 DEF RouterInv, SetupOK, AcceptedOK, IgnoreCaseActive
    <3>4. path \in Seq(Piece) /\ Parts(path) \in RequestParts
      BY <3>1, <3>2, <3>3, RequestMatch
    <3>5. routes = {r \in OfHost(host) : r.method = m}
      BY DEF RoutesOf, OfHost
    <3>6. RootOK(t, routes)
      BY <1>1, <3>5 DEF RouterInv, TablesOK, TableOK
    <3>7. routes \in SUBSET AcceptedRoute
          /\ \A r1, r2 \in routes : r1.host = r2.host /\ r1.method = r2.method
      BY <1>1 DEF RouterInv, AcceptedOK, RoutesOf
    <3> HIDE DEF t, routes
    <3>8. FoundBest(routes, path, Search(t, path, path))
      BY <3>4, <3>6, <3>7, RootFindsBest
    <3> QED
      BY <3>8 DEF t, routes
  <2> QED
    BY <2>1 DEF SearchFindsBest, FoundBest, Matching
<1> QED
  BY <1>1, FrozenInductive, PTL

-----------------------------------------------------------------------------
(* The static map and the trie *)

\* No route beats the static route that a path spells out.
LEMMA StaticWins ==
    ASSUME NEW parts \in RequestParts, NEW n \in Seq(Piece), Matches(n, parts)
    PROVE  ~Beats(n, parts)
<1> SUFFICES ASSUME NEW i \in 1 .. Len(parts), Len(n) >= i - 1,
                    SubSeq(n, 1, i - 1) = SubSeq(parts, 1, i - 1),
                    Len(n) >= i => Rank(Kind(n[i])) < Rank(Kind(parts[i]))
             PROVE  FALSE
  BY DEF Beats
<1>1. /\ Len(n) \in Nat /\ Len(parts) \in Nat
      /\ \A k \in 1 .. Len(parts) : parts[k] \in {"static"} \X STRING
  BY DEF RequestParts
<1>2. \A k \in 1 .. Len(parts) : Kind(parts[k]) = "static"
  BY <1>1 DEF Kind
<1>3. CASE Len(n) >= i
  <2>1. n[i] \in Piece
    BY <1>1, <1>3
  <2>2. Kind(n[i]) \in {"static", "param", "wild"}
    BY <2>1 DEF Piece, Kind
  <2> QED
    BY <1>2, <1>3, <2>2 DEF Rank
<1>4. CASE ~(Len(n) >= i)
  <2>1. Len(n) = i - 1 /\ Len(n) < Len(parts) /\ i - 1 \in 0 .. Len(parts) /\ i - 1 \in 0 .. Len(n)
    BY <1>1, <1>4
  <2>2. \A k \in 1 .. i - 1 : SubSeq(n, 1, i - 1)[k] = n[k]
    BY <2>1, PrefixOf
  <2>3. \A k \in 1 .. i - 1 : SubSeq(parts, 1, i - 1)[k] = parts[k]
    BY <2>1, PrefixOf DEF RequestParts
  <2>4. \A k \in 1 .. Len(n) : Kind(n[k]) = "static"
    BY <1>2, <2>1, <2>2, <2>3
  <2>5. ~IsWild(n)
    BY <1>1, <2>4 DEF IsWild, LastOf
  <2> QED
    BY <2>1, <2>5 DEF Matches
<1> QED
  BY <1>3, <1>4

\* The flat map of static routes answers as the trie does, in every state.
THEOREM MapAgrees == FrozenSpec => []StaticMapAgrees
<1>1. ASSUME RouterInv PROVE StaticMapAgrees
  <2> SUFFICES ASSUME NEW host \in DOMAIN tables, NEW m \in DOMAIN tables[host].static,
                      NEW path \in DOMAIN tables[host].static[m]
               PROVE  {r.handler : r \in Search(tables[host].roots[m], path, path).found}
                         = {tables[host].static[m][path]}
    BY DEF StaticMapAgrees
  <2> DEFINE t      == tables[host].roots[m]
             routes == RoutesOf(host, m)
             parts  == Parts(path)
             result == Search(t, path, path)
  <2>1. TableOK(tables[host], OfHost(host))
    BY <1>1 DEF RouterInv, TablesOK
  <2>2. PICK mine \in OfHost(host) : /\ mine.method = m /\ mine.pattern = path
                                     /\ mine.handler = tables[host].static[m][path]
                                     /\ ~HasParams(parts)
    BY <2>1 DEF TableOK, StaticOK
  <2>3. mine \in routes /\ routes = {r \in OfHost(host) : r.method = m}
    BY <2>2 DEF RoutesOf, OfHost
  <2>4. m \in DOMAIN tables[host].roots
    BY <2>1, <2>2 DEF TableOK
  <2>5. RootOK(t, routes)
    BY <2>1, <2>3, <2>4 DEF TableOK
  <2>6. routes \in SUBSET AcceptedRoute
        /\ \A r1, r2 \in routes : r1.host = r2.host /\ r1.method = r2.method
    BY <1>1 DEF RouterInv, AcceptedOK, RoutesOf
  <2>7. path \in Seq(Piece)
    BY <2>2, <2>3, <2>6 DEF AcceptedRoute
  <2>8. parts \in Seq(Piece)
    BY <2>7, PartsType
  <2>9. parts \in RequestParts
    <3>1. \A i \in 1 .. Len(parts) : Kind(parts[i]) = "static" /\ parts[i] \in Piece
      BY <2>2, <2>8 DEF HasParams
    <3>2. \A x \in Piece : Kind(x) = "static" => x \in {"static"} \X STRING
      BY DEF Piece, Kind
    <3> HIDE DEF parts
    <3> QED
      BY <2>8, <3>1, <3>2 DEF RequestParts
  <2> HIDE DEF t, routes, result
  <2>10. FoundBest(routes, path, result)
    BY <2>5, <2>6, <2>7, <2>9, RootFindsBest DEF result
  <2>11. mine \in Matching(routes, path)
    <3>1. \A i \in 1 .. Len(parts) : Kind(parts[i]) = "static"
      BY <2>2 DEF HasParams
    <3>2. Len(parts) \in Nat
      BY <2>8
    <3>3. ~IsWild(parts)
      BY <2>8, <3>1, <3>2 DEF IsWild, LastOf
    <3>4. Matches(parts, parts)
      BY <3>3 DEF Matches
    <3> QED
      BY <2>2, <2>3, <3>4 DEF Matching
  <2>12. PICK best \in Matching(routes, path) :
            /\ \A r \in Matching(routes, path) \ {best} : Beats(Parts(best.pattern), Parts(r.pattern))
            /\ {r.handler : r \in result.found} = {best.handler}
    BY <2>10, <2>11 DEF FoundBest
  <2>13. best = mine
    <3>1. best.pattern \in Seq(Piece) /\ Matches(Parts(best.pattern), parts)
      BY <2>6, <2>12 DEF Matching, AcceptedRoute
    <3>2. Parts(best.pattern) \in Seq(Piece)
      BY <3>1, PartsType
    <3>3. ~Beats(Parts(best.pattern), parts)
      BY <2>9, <3>1, <3>2, StaticWins
    <3> QED
      BY <2>2, <2>11, <2>12, <3>3
  <2> QED
    BY <2>2, <2>12, <2>13 DEF result, t
<1> QED
  BY <1>1, FrozenInductive, PTL

-----------------------------------------------------------------------------
(* The request made from a pattern *)

\* A pattern that could have been registered: clean, without the fresh text, and
\* its own lower-case form when case is ignored.
FillsWell(p) ==
    /\ CleanForm(p) /\ \A i \in 1 .. Len(p) : p[i] # Static(Fresh)

\* The request's path is clean and has the pattern's static parts.
LEMMA FilledPath ==
    ASSUME NEW p, FillsWell(p)
    PROVE  /\ Filled(p) \in RequestPath /\ Len(Filled(p)) = Len(p) /\ CleanForm(Filled(p))
           /\ \A i \in 1 .. Len(p) :
                Filled(p)[i] = IF Kind(p[i]) = "static" THEN p[i] ELSE Static(Fresh)
           /\ LastOf(Filled(p)) = Empty <=> LastOf(p) = Empty
<1> DEFINE q == Filled(p)
<1>1. p \in Seq(Piece) /\ Len(p) > 0 /\ Len(p) \in Nat
  BY DEF FillsWell, CleanForm
<1>2. /\ Static(Fresh) \in {"static"} \X STRING /\ Static(Fresh) \in Piece
      /\ Static(Fresh) # Empty /\ Static(Fresh) # Dot /\ Static(Fresh) # Up
      /\ Kind(Static(Fresh)) = "static"
  <2>1. Static(Fresh) \in Piece \ {Empty, Dot, Up}
    BY FreshAssumption
  <2>2. Kind(Static(Fresh)) = "static"
    BY DEF Static, Kind
  <2>3. \A x \in Piece : Kind(x) = "static" => x \in {"static"} \X STRING
    BY DEF Piece, Kind
  <2> QED
    BY <2>1, <2>2, <2>3
<1>3. Kind(Empty) = "static" /\ Kind(Dot) = "static" /\ Kind(Up) = "static"
  BY DEF Kind, Empty, Dot, Up, Static
<1>4. \A x \in Piece : Kind(x) = "static" => x \in {"static"} \X STRING
  BY DEF Piece, Kind
<1>5. /\ Len(q) = Len(p) /\ q \in Seq({"static"} \X STRING)
      /\ \A i \in 1 .. Len(p) :
            q[i] = IF Kind(p[i]) = "static" THEN p[i] ELSE Static(Fresh)
  <2>1. \A i \in 1 .. Len(p) : (IF Kind(p[i]) = "static" THEN p[i] ELSE Static(Fresh))
                                  \in {"static"} \X STRING
    BY <1>1, <1>2, <1>4
  <2> QED
    BY <1>1, <2>1 DEF Filled
<1> HIDE DEF q
<1>6. q \in Seq(Piece)
  BY <1>5 DEF Piece
<1>7. CleanForm(q)
  BY <1>1, <1>2, <1>5, <1>6 DEF FillsWell, CleanForm
<1>8. LastOf(q) = Empty <=> LastOf(p) = Empty
  BY <1>1, <1>2, <1>3, <1>5 DEF LastOf
<1> QED
  BY <1>5, <1>7, <1>8 DEF q, RequestPath

\* Its parts are the pattern's, filled in the same way.
LEMMA FilledParts ==
    ASSUME NEW p, FillsWell(p)
    PROVE  /\ Parts(p) \in Seq(Piece) /\ Len(Parts(p)) <= Len(p)
           /\ \A i \in 1 .. Len(Parts(p)) : Parts(p)[i] = p[i]
           /\ Parts(Filled(p)) \in RequestParts /\ Len(Parts(Filled(p))) = Len(Parts(p))
           /\ \A i \in 1 .. Len(Parts(p)) :
                Parts(Filled(p))[i] = IF Kind(Parts(p)[i]) = "static" THEN Parts(p)[i]
                                      ELSE Static(Fresh)
<1> DEFINE q == Filled(p)
<1>1. /\ q \in RequestPath /\ Len(q) = Len(p) /\ CleanForm(q) /\ CleanForm(p)
      /\ \A i \in 1 .. Len(p) : q[i] = IF Kind(p[i]) = "static" THEN p[i] ELSE Static(Fresh)
      /\ LastOf(q) = Empty <=> LastOf(p) = Empty
  BY FilledPath DEF FillsWell
<1> HIDE DEF q
<1>2. ASSUME NEW r, CleanForm(r)
      PROVE  /\ Parts(r) \in Seq(Piece)
             /\ Len(Parts(r)) = IF LastOf(r) = Empty THEN Len(r) - 1 ELSE Len(r)
             /\ \A i \in 1 .. Len(Parts(r)) : Parts(r)[i] = r[i]
  <2>1. Parts(r) = Body(r) /\ r \in Seq(Piece) /\ Len(r) \in Nat /\ Len(r) > 0
    BY <1>2, CleanParts DEF CleanForm
  <2>2. Len(r) - 1 \in 0 .. Len(r)
    BY <2>1
  <2>3. /\ FrontOf(r) \in Seq(Piece) /\ Len(FrontOf(r)) = Len(r) - 1
        /\ \A i \in 1 .. Len(r) - 1 : FrontOf(r)[i] = r[i]
    BY <2>1, <2>2, PrefixOf DEF FrontOf
  <2> QED
    BY <2>1, <2>3 DEF Body
<1>3. /\ Parts(p) \in Seq(Piece)
      /\ Len(Parts(p)) = (IF LastOf(p) = Empty THEN Len(p) - 1 ELSE Len(p))
      /\ \A i \in 1 .. Len(Parts(p)) : Parts(p)[i] = p[i]
  BY <1>1, <1>2
<1>4. /\ Len(Parts(q)) = (IF LastOf(q) = Empty THEN Len(q) - 1 ELSE Len(q))
      /\ \A i \in 1 .. Len(Parts(q)) : Parts(q)[i] = q[i]
  BY <1>1, <1>2
<1>5. Parts(q) \in RequestParts
  BY <1>1, PartsType DEF RequestPath, RequestParts
<1>6. Len(p) \in Nat /\ Len(Parts(p)) \in Nat /\ Len(Parts(q)) = Len(Parts(p))
  BY <1>1, <1>3, <1>4 DEF CleanForm
<1>7. ASSUME NEW i \in 1 .. Len(Parts(p))
      PROVE  Parts(q)[i] = IF Kind(Parts(p)[i]) = "static" THEN Parts(p)[i] ELSE Static(Fresh)
  <2>1. i \in 1 .. Len(p) /\ Parts(q)[i] = q[i] /\ Parts(p)[i] = p[i]
    BY <1>3, <1>4, <1>6
  <2> QED
    BY <1>1, <2>1
<1>8. Len(Parts(p)) <= Len(p)
  BY <1>3, <1>6
<1> QED
  BY <1>3, <1>5, <1>6, <1>7, <1>8 DEF q

\* No node beats the pattern for the request made from it: where the pattern has a
\* parameter or a wildcard, a static part would have to spell the fresh text and a
\* parameter next to a wildcard is not there.
LEMMA FilledWins ==
    ASSUME NEW t, TrieOK(t), NEW n \in DOMAIN t, NEW q \in DOMAIN t, NEW parts,
           Len(parts) = Len(n),
           \A i \in 1 .. Len(n) : parts[i] = IF Kind(n[i]) = "static" THEN n[i] ELSE Static(Fresh),
           \A i \in 1 .. Len(q) : q[i] # Static(Fresh),
           Matches(q, parts)
    PROVE  ~Beats(q, n)
<1> SUFFICES ASSUME NEW i \in 1 .. Len(n), Len(q) >= i - 1,
                    SubSeq(q, 1, i - 1) = SubSeq(n, 1, i - 1),
                    Len(q) >= i => Rank(Kind(q[i])) < Rank(Kind(n[i]))
             PROVE  FALSE
  BY DEF Beats
<1>1. /\ n \in Seq(Piece) /\ q \in Seq(Piece) /\ Len(n) \in Nat /\ Len(q) \in Nat
      /\ WildLast(n) /\ WildLast(q)
  BY DEF TrieOK, WellFormed
<1>2. CASE Len(q) >= i
  <2>1. q[i] \in Piece /\ n[i] \in Piece
    BY <1>1, <1>2
  <2>2. Kind(q[i]) \in {"static", "param", "wild"} /\ Kind(n[i]) \in {"static", "param", "wild"}
    BY <2>1 DEF Piece, Kind
  <2>3. Kind(n[i]) # "static" /\ Kind(q[i]) # "wild"
    BY <1>2, <2>2 DEF Rank
  <2>4. CASE Kind(q[i]) = "static"
    <3>1. parts[i] = Static(Fresh)
      BY <2>3
    <3>2. IsWild(q) => i <= Len(q) - 1
      BY <1>1, <1>2, <2>3 DEF IsWild, LastOf
    <3>3. q[i] = parts[i]
      BY <1>1, <1>2, <2>4, <3>2 DEF Matches
    <3> QED
      BY <1>2, <3>1, <3>3
  <2>5. CASE Kind(q[i]) = "param"
    <3> DEFINE c == SubSeq(q, 1, i)
               d == SubSeq(n, 1, i)
    <3>1. i \in 0 .. Len(q) /\ i \in 0 .. Len(n) /\ i - 1 \in 0 .. i /\ i \in 1 .. i
      BY <1>1, <1>2
    <3>2. c \in DOMAIN t /\ d \in DOMAIN t
      BY <3>1 DEF TrieOK, WellFormed
    <3>3. /\ Len(c) = i /\ c[i] = q[i] /\ SubSeq(c, 1, i - 1) = SubSeq(q, 1, i - 1)
      BY <1>1, <3>1, PrefixOf
    <3>4. /\ Len(d) = i /\ d[i] = n[i] /\ SubSeq(d, 1, i - 1) = SubSeq(n, 1, i - 1)
      BY <1>1, <3>1, PrefixOf
    <3> HIDE DEF c, d
    <3>5. Siblings(c, d)
      BY <2>3, <2>5, <3>3, <3>4 DEF Siblings, LastOf
    <3>6. c = d
      BY <3>2, <3>5 DEF TrieOK, WellFormed
    <3> QED
      BY <1>2, <2>5, <3>3, <3>4, <3>6 DEF Rank
  <2> QED
    BY <2>2, <2>3, <2>4, <2>5
<1>3. CASE ~(Len(q) >= i)
  <2>1. Len(q) = i - 1 /\ i - 1 \in 0 .. Len(n) /\ i - 1 \in 0 .. Len(q) /\ Len(q) < Len(n)
    BY <1>1, <1>3
  <2>2. \A k \in 1 .. i - 1 : SubSeq(q, 1, i - 1)[k] = q[k]
    BY <1>1, <2>1, PrefixOf
  <2>3. \A k \in 1 .. i - 1 : SubSeq(n, 1, i - 1)[k] = n[k]
    BY <1>1, <2>1, PrefixOf
  <2>4. ~IsWild(q)
    <3>1. \A k \in 1 .. Len(q) : q[k] = n[k]
      BY <2>1, <2>2, <2>3
    <3>2. \A k \in 1 .. Len(q) : Kind(n[k]) # "wild"
      BY <1>1, <2>1 DEF WildLast
    <3> QED
      BY <1>1, <3>1, <3>2 DEF IsWild, LastOf
  <2> QED
    BY <1>1, <2>1, <2>4 DEF Matches
<1> QED
  BY <1>2, <1>3

\* The fresh text is in no pattern, in lower case or not, and has no other
\* lower-case form.
LEMMA FreshPieces ==
    ASSUME NEW s \in Setups, NEW offer \in s.offers
    PROVE  /\ \A i \in 1 .. Len(offer[3]) : /\ offer[3][i] # Static(Fresh)
                                            /\ LowerPiece(offer[3][i]) # Static(Fresh)
           /\ LowerPiece(Static(Fresh)) = Static(Fresh)
<1>1. ASSUME NEW x, x # Static(Fresh) PROVE LowerPiece(x) # Static(Fresh)
  <2>1. CASE Kind(x) = "static" /\ Text(x) \in DOMAIN Lower
    <3>1. LowerPiece(x) = Static(Lower[Text(x)]) /\ Fresh # Lower[Text(x)]
      BY <2>1, FreshAssumption DEF LowerPiece
    <3>2. \A l : Static(l)[2] = l
      BY DEF Static
    <3>3. Static(Lower[Text(x)])[2] = Lower[Text(x)] /\ Static(Fresh)[2] = Fresh
      BY <3>2
    <3> QED
      BY <3>1, <3>3
  <2>2. CASE ~(Kind(x) = "static" /\ Text(x) \in DOMAIN Lower)
    BY <1>1, <2>2 DEF LowerPiece
  <2> QED
    BY <2>1, <2>2
<1>2. \A i \in 1 .. Len(offer[3]) : offer[3][i] # Static(Fresh)
  BY FreshAssumption
<1>3. LowerPiece(Static(Fresh)) = Static(Fresh)
  <2>1. Text(Static(Fresh)) = Fresh /\ Fresh \notin DOMAIN Lower
    BY FreshAssumption DEF Text, Static
  <2> QED
    BY <2>1 DEF LowerPiece
<1> QED
  BY <1>1, <1>2, <1>3

\* The request made from an accepted pattern is matched as it is.
LEMMA AcceptedFills ==
    ASSUME RouterInv, NEW route \in accepted
    PROVE  LET p == route.pattern
           IN  /\ FillsWell(p) /\ Len(Parts(p)) <= setup.MaxDepth
               /\ Live!MatchOf(Filled(p), IgnoreCaseActive) = Filled(p)
<1> DEFINE h == route.handler[3]
           b == ignoreCaseEnabled
           p == route.pattern
<1>1. /\ route \in AcceptedRoute /\ route.handler \in setup.offers /\ Acceptable(h)
      /\ b \in BOOLEAN /\ b = IgnoreCaseActive /\ p = Live!MatchOf(h, b)
  BY DEF RouterInv, AcceptedOK, CaseModeUniform, IgnoreCaseActive
<1>2. h \in Seq(Piece) /\ CleanForm(h) /\ Len(Parts(h)) <= setup.MaxDepth
  <2>1. h \in Seq(Piece)
    BY <1>1 DEF AcceptedRoute, Offer
  <2> QED
    BY <1>1, <2>1, CleanIsClean DEF Acceptable
<1>3. /\ \A i \in 1 .. Len(h) : h[i] # Static(Fresh) /\ LowerPiece(h[i]) # Static(Fresh)
      /\ LowerPiece(Static(Fresh)) = Static(Fresh)
  BY <1>1, FreshPieces DEF RouterInv, SetupOK
<1>4. \A x \in Seq(Piece) : Live!MatchOf(x, b) = IF b THEN LowerPath(x) ELSE x
  <2>1. \A x : LowerPath(x) = Live!LowerPath(x)
    BY DEF LowerPath, Live!LowerPath, LowerPiece, Live!LowerPiece, Kind, Live!Kind,
           Text, Live!Text, Static, Live!Static
  <2> QED
    BY <2>1 DEF Live!MatchOf
<1> HIDE DEF h, b, p
<1>5. CASE ~b
  <2>1. p = h
    BY <1>1, <1>2, <1>4, <1>5
  <2>2. FillsWell(p)
    BY <1>2, <1>3, <2>1 DEF FillsWell
  <2>3. Filled(p) \in Seq(Piece)
    <3>1. CleanForm(Filled(p))
      BY <2>2, FilledPath
    <3> QED
      BY <3>1 DEF CleanForm
  <2> QED
    BY <1>1, <1>2, <1>4, <1>5, <2>1, <2>2, <2>3 DEF p
<1>6. CASE b
  <2>1. p = LowerPath(h)
    BY <1>1, <1>2, <1>4, <1>6
  <2>2. /\ p \in Seq(Piece) /\ Len(p) = Len(h) /\ \A i \in 1 .. Len(h) : p[i] = LowerPiece(h[i])
    BY <1>2, <2>1, LowerPathType
  <2>3. CleanForm(p)
    BY <1>2, <2>1, LowerClean
  <2>4. FillsWell(p)
    BY <1>3, <2>2, <2>3 DEF FillsWell
  <2>5. Len(Parts(p)) <= setup.MaxDepth
    <3>1. Parts(p) = LowerPath(Parts(h))
      BY <1>2, <2>1, PartsLower
    <3>2. Parts(h) \in Seq(Piece)
      BY <1>2, PartsType
    <3>3. Len(Parts(p)) = Len(Parts(h))
      BY <3>1, <3>2, LowerPathType
    <3> QED
      BY <1>2, <3>3
  <2>6. LowerPath(Filled(p)) = Filled(p)
    <3> DEFINE q == Filled(p)
    <3>1. /\ CleanForm(q) /\ Len(q) = Len(p)
          /\ \A i \in 1 .. Len(p) : q[i] = IF Kind(p[i]) = "static" THEN p[i] ELSE Static(Fresh)
      BY <2>4, FilledPath
    <3>2. q \in Seq(Piece)
      BY <3>1 DEF CleanForm
    <3> HIDE DEF q
    <3>3. \A i \in 1 .. Len(p) : LowerPiece(p[i]) = p[i]
      BY <1>2, <2>1, LowerTwice
    <3>4. /\ LowerPath(q) \in Seq(Piece) /\ Len(LowerPath(q)) = Len(q)
          /\ \A i \in 1 .. Len(q) : LowerPath(q)[i] = LowerPiece(q[i])
      BY <3>2, LowerPathType
    <3>5. \A i \in 1 .. Len(q) : LowerPath(q)[i] = q[i]
      BY <1>3, <3>1, <3>3, <3>4
    <3>6. LowerPath(q) = q
      BY <3>2, <3>4, <3>5, SeqEqual
    <3> QED
      BY <3>6 DEF q
  <2>7. Filled(p) \in Seq(Piece)
    <3>1. CleanForm(Filled(p))
      BY <2>4, FilledPath
    <3> QED
      BY <3>1 DEF CleanForm
  <2> QED
    BY <1>1, <1>4, <1>6, <2>4, <2>5, <2>6, <2>7 DEF p
<1> QED
  BY <1>1, <1>5, <1>6

\* Serve's own copies of the path operators are those of Paths.
LEMMA SameParts == \A p : Live!Parts(p) = Parts(p)
BY DEF Live!Parts, Parts, Live!Empty, Empty, Live!Static, Static

\* Serve's copy of path.Clean is that of Paths.
LEMMA SameResolved == \A p : Live!Resolved(p) = Resolved(p)
BY DEF Live!Resolved, Resolved, Live!Empty, Empty, Live!Dot, Dot, Live!Up, Up, Live!Static, Static,
       Live!FrontOf, FrontOf

\* Serve's copy of cleanPath is that of Paths.
LEMMA SameCleanPath == \A p : Live!CleanPath(p) = CleanPath(p)
BY SameResolved, Zenon DEF Live!CleanPath, CleanPath, Live!Root, Root, Live!LastOf, LastOf, Live!Empty, Empty,
       Live!Static, Static

\* What a method's trie finds is served, when the static map has no answer.
LEMMA FoundIsServed ==
    ASSUME NEW t, NEW method, NEW match, NEW raw,
           ~(method \in DOMAIN t.static /\ match \in DOMAIN t.static[method]),
           method \in t.hasParams, ~(Len(Live!Parts(match)) > setup.MaxDepth),
           Search(t.roots[method], match, raw).found # {}
    PROVE  \E params :
              Live!serveMethodInTable(t, method, match, raw)
                = Live!Served((CHOOSE r \in Search(t.roots[method], match, raw).found : TRUE).handler,
                              params)
<1> DEFINE result == Search(t.roots[method], match, raw)
           route  == CHOOSE r \in result.found : TRUE
           params == IF route.hasParams THEN result.params ELSE <<>>
<1>1. Live!serveMethodInTable(t, method, match, raw) = Live!Served(route.handler, params)
  BY DEF Live!serveMethodInTable
<1> HIDE DEF params
<1> QED
  BY <1>1

\* In the table that has the route, the request made from the pattern is served
\* by it.
LEMMA ServesFilled ==
    ASSUME RouterInv, NEW route \in accepted, NEW raw
    PROVE  LET answer == Live!serveMethodInTable(tables[route.host], route.method,
                                                 Filled(route.pattern), raw)
           IN  IsServed(answer) /\ answer.handler = route.handler
<1> DEFINE t      == tables[route.host]
           m      == route.method
           p      == route.pattern
           match  == Filled(p)
           routes == RoutesOf(route.host, m)
           trie   == t.roots[m]
           answer == Live!serveMethodInTable(t, m, match, raw)
<1>1. TableOK(t, OfHost(route.host)) /\ route \in OfHost(route.host)
  BY DEF RouterInv, TablesOK, OfHost
<1>2. /\ FillsWell(p) /\ Len(Parts(p)) <= setup.MaxDepth
      /\ Len(Parts(p)) \in Nat /\ setup.MaxDepth \in Nat
  <2>1. FillsWell(p) /\ Len(Parts(p)) <= setup.MaxDepth
    BY AcceptedFills
  <2>2. p \in Seq(Piece)
    BY <2>1 DEF FillsWell, CleanForm
  <2>3. Len(Parts(p)) \in Nat
    BY <2>2, PartsType
  <2> QED
    BY <2>1, <2>3, SetupAssumption DEF RouterInv, SetupOK
<1>3. /\ match \in RequestPath /\ Len(match) = Len(p)
      /\ \A i \in 1 .. Len(p) :
            match[i] = IF Kind(p[i]) = "static" THEN p[i] ELSE Static(Fresh)
  BY <1>2, FilledPath
<1>4. /\ Parts(p) \in Seq(Piece) /\ Len(Parts(p)) <= Len(p)
      /\ \A i \in 1 .. Len(Parts(p)) : Parts(p)[i] = p[i]
      /\ Parts(match) \in RequestParts /\ Len(Parts(match)) = Len(Parts(p))
      /\ \A i \in 1 .. Len(Parts(p)) :
            Parts(match)[i] = IF Kind(Parts(p)[i]) = "static" THEN Parts(p)[i] ELSE Static(Fresh)
  BY <1>2, FilledParts
<1>5. \A handler, params : /\ IsServed(Live!Served(handler, params))
                           /\ Live!Served(handler, params).handler = handler
  BY DEF IsServed, Live!Served, Live!NotFound
<1> HIDE DEF match
<1>6. CASE ~HasParams(Parts(p))
  <2>1. m \in DOMAIN t.static /\ p \in DOMAIN t.static[m] /\ t.static[m][p] = route.handler
    BY <1>1, <1>6 DEF TableOK, StaticOK
  <2>2. match = p
    <3>1. \A i \in 1 .. Len(p) : Kind(p[i]) = "static"
      <4>1. SUFFICES ASSUME NEW i \in 1 .. Len(p) PROVE Kind(p[i]) = "static"
        OBVIOUS
      <4>2. CASE i \in 1 .. Len(Parts(p))
        BY <1>4, <1>6, <4>2 DEF HasParams
      <4>3. CASE i \notin 1 .. Len(Parts(p))
        <5>1. Parts(p) = Body(p) /\ p = (IF LastOf(p) = Empty THEN Append(Body(p), Empty) ELSE Body(p))
          BY <1>2, CleanParts DEF FillsWell
        <5>2. p = Append(Parts(p), Empty)
          BY <1>2, <4>3, <5>1
        <5>3. p[i] = Empty
          BY <1>4, <4>3, <5>2
        <5>4. Kind(Empty) = "static"
          BY DEF Kind, Empty, Static
        <5> QED
          BY <5>3, <5>4
      <4> QED
        BY <4>2, <4>3
    <3>2. \A i \in 1 .. Len(p) : match[i] = p[i]
      BY <1>3, <3>1
    <3>3. p \in Seq(Piece) /\ match \in Seq(Piece)
      BY <1>2, <1>3 DEF FillsWell, CleanForm, RequestPath, Piece
    <3> QED
      BY <1>3, <3>2, <3>3, SeqEqual
  <2>3. answer = Live!Served(route.handler, <<>>)
    BY <2>1, <2>2 DEF Live!serveMethodInTable
  <2> QED
    BY <1>5, <2>3 DEF match
<1>7. CASE HasParams(Parts(p))
  <2>1. m \in t.hasParams /\ m \in DOMAIN t.roots
    BY <1>1, <1>7 DEF TableOK
  <2>2. ~(m \in DOMAIN t.static /\ match \in DOMAIN t.static[m])
    <3> SUFFICES ASSUME m \in DOMAIN t.static, match \in DOMAIN t.static[m]
                 PROVE  FALSE
      OBVIOUS
    <3>1. PICK r \in OfHost(route.host) : r.pattern = match
      BY <1>1 DEF TableOK, StaticOK
    <3>2. FillsWell(match)
      BY <3>1, AcceptedFills DEF OfHost
    <3>3. PICK i \in 1 .. Len(Parts(p)) : Kind(Parts(p)[i]) # "static"
      BY <1>7 DEF HasParams
    <3>4. i \in 1 .. Len(p) /\ match[i] = Static(Fresh)
      BY <1>2, <1>3, <1>4, <3>3 DEF FillsWell, CleanForm
    <3> QED
      BY <1>3, <3>2, <3>4 DEF FillsWell
  <2>3. ~(Len(Live!Parts(match)) > setup.MaxDepth)
    BY <1>2, <1>4, SameParts
  <2>4. routes = {r \in OfHost(route.host) : r.method = m} /\ route \in routes
    BY <1>1 DEF RoutesOf, OfHost
  <2>5. RootOK(trie, routes) /\ TrieOK(trie)
    BY SMTT(30), <1>1, <2>1, <2>4 DEF TableOK, RootOK
  <2>6. routes \in SUBSET AcceptedRoute
        /\ \A r1, r2 \in routes : r1.host = r2.host /\ r1.method = r2.method
    BY DEF RouterInv, AcceptedOK, RoutesOf
  <2> DEFINE result == Search(trie, match, raw)
             plain  == Search(trie, match, match)
  <2>7. match \in Seq(Piece)
    BY <1>3 DEF RequestPath, Piece
  <2> HIDE DEF routes, trie
  <2>8. FoundBest(routes, match, plain)
    BY <1>4, <2>5, <2>6, <2>7, RootFindsBest
  <2>9. result.found = plain.found
    BY <2>5, FoundWithoutRaw
  <2>10. route \in Matching(routes, match)
    <3>1. ASSUME NEW i \in 1 .. Len(Parts(p)), Kind(Parts(p)[i]) # "wild"
          PROVE  Kind(Parts(p)[i]) = "param" \/ Parts(p)[i] = Parts(match)[i]
      <4>1. Parts(p)[i] \in Piece
        BY <1>4
      <4>2. Kind(Parts(p)[i]) \in {"static", "param", "wild"}
        BY <4>1 DEF Piece, Kind
      <4> QED
        BY <1>4, <3>1, <4>2
    <3>2. Parts(p) \in DOMAIN trie
      BY <2>4, <2>5 DEF RootOK
    <3>3. WildLast(Parts(p))
      BY <2>5, <3>2 DEF TrieOK, WellFormed
    <3>4. \A i \in 1 .. Len(Parts(p)) : Kind(Parts(p)[i]) = "wild" => i = Len(Parts(p))
      BY <3>3 DEF WildLast
    <3>5. ASSUME IsWild(Parts(p)) PROVE Matches(Parts(p), Parts(match))
      <4>1. \A i \in 1 .. Len(Parts(p)) - 1 : i \in 1 .. Len(Parts(p)) /\ i # Len(Parts(p))
        BY <1>2
      <4>2. \A i \in 1 .. Len(Parts(p)) - 1 :
               Kind(Parts(p)[i]) = "param" \/ Parts(p)[i] = Parts(match)[i]
        BY <3>1, <3>4, <4>1
      <4>3. Len(Parts(match)) >= Len(Parts(p)) - 1
        BY <1>2, <1>4
      <4> QED
        BY <3>5, <4>2, <4>3 DEF Matches
    <3>6. ASSUME ~IsWild(Parts(p)) PROVE Matches(Parts(p), Parts(match))
      <4>1. \A i \in 1 .. Len(Parts(p)) : Kind(Parts(p)[i]) # "wild"
        BY <1>2, <3>4, <3>6 DEF IsWild, LastOf
      <4> QED
        BY <1>2, <1>4, <3>1, <3>6, <4>1 DEF Matches
    <3>7. Matches(Parts(p), Parts(match))
      BY <3>5, <3>6
    <3> QED
      BY <2>4, <3>7 DEF Matching
  <2>11. PICK best \in Matching(routes, match) :
            /\ \A r \in Matching(routes, match) \ {best} : Beats(Parts(best.pattern), Parts(r.pattern))
            /\ {r.handler : r \in plain.found} = {best.handler}
    BY <2>8, <2>10 DEF FoundBest
  <2>12. best = route
    <3>1. best \in routes /\ Matches(Parts(best.pattern), Parts(match))
      BY <2>11 DEF Matching
    <3>2. Parts(best.pattern) \in DOMAIN trie /\ Parts(p) \in DOMAIN trie
      BY <2>4, <2>5, <3>1 DEF RootOK
    <3>3. FillsWell(best.pattern)
      BY <2>4, <3>1, AcceptedFills DEF OfHost
    <3>4. /\ Len(Parts(best.pattern)) <= Len(best.pattern)
          /\ \A i \in 1 .. Len(Parts(best.pattern)) : Parts(best.pattern)[i] = best.pattern[i]
          /\ Parts(best.pattern) \in Seq(Piece)
      BY <3>3, FilledParts
    <3>5. best.pattern \in Seq(Piece) /\ Len(best.pattern) \in Nat /\ Len(Parts(best.pattern)) \in Nat
      BY <3>3, <3>4 DEF FillsWell, CleanForm
    <3>6. \A i \in 1 .. Len(Parts(best.pattern)) : Parts(best.pattern)[i] # Static(Fresh)
      <4>1. \A i \in 1 .. Len(Parts(best.pattern)) : i \in 1 .. Len(best.pattern)
        BY <3>4, <3>5
      <4> QED
        BY <3>3, <3>4, <4>1 DEF FillsWell
    <3> DEFINE q == Parts(best.pattern)
               n == Parts(p)
               parts == Parts(match)
    <3>7. q \in DOMAIN trie /\ n \in DOMAIN trie /\ Len(parts) = Len(n) /\ Matches(q, parts)
      BY <1>4, <3>1, <3>2
    <3>8. \A i \in 1 .. Len(n) : parts[i] = IF Kind(n[i]) = "static" THEN n[i] ELSE Static(Fresh)
      BY <1>4
    <3>9. \A i \in 1 .. Len(q) : q[i] # Static(Fresh)
      BY <3>6
    <3> HIDE DEF q, n, parts
    <3>10. ~Beats(q, n)
      BY <2>5, <3>7, <3>8, <3>9, FilledWins
    <3> QED
      BY <2>10, <2>11, <3>10 DEF q, n
  <2>13. result.found # {} /\ (CHOOSE r \in result.found : TRUE).handler = route.handler
    BY <2>9, <2>11, <2>12
  <2>14. \E params : answer = Live!Served((CHOOSE r \in result.found : TRUE).handler, params)
    BY ZenonT(40), <2>1, <2>2, <2>3, <2>13, FoundIsServed DEF trie
  <2> QED
    BY <1>5, <2>13, <2>14 DEF match
<1> QED
  BY <1>6, <1>7

\* Every accepted route is reached by the request made from its pattern, whatever
\* else is registered.
LEMMA RoutesReached ==
    ASSUME RouterInv PROVE AcceptedIsReachable
<1> SUFFICES ASSUME NEW route \in accepted
             PROVE  LET answer == Answer(RequestFor(route))
                    IN  answer.kind = "served" /\ answer.handler = route.handler
  BY DEF AcceptedIsReachable
<1> DEFINE req    == RequestFor(route)
           path   == Filled(route.pattern)
           method == Live!serveMethodInTable(tables[route.host], route.method, path, path)
           answer == Live!AnswerOf(tables[route.host], req, path, path)
<1>1. /\ req.method = route.method /\ req.host = route.host
      /\ req.path = path
  BY DEF RequestFor
<1>2. FillsWell(route.pattern) /\ Live!MatchOf(path, IgnoreCaseActive) = path
  BY AcceptedFills
<1>3. IsServed(method) /\ method.handler = route.handler
  BY ServesFilled
<1>4. route.host \in DOMAIN tables
  BY DEF RouterInv, TablesOK
<1>5. CleanForm(path)
  BY <1>2, FilledPath
<1>6. path \in Seq(Piece)
  BY <1>5 DEF CleanForm
<1>7. CleanPath(path) = path
  BY <1>5, <1>6, CleanIsClean
<1> HIDE DEF req, path, method
<1>8. Live!Clean(req)
  BY <1>1, <1>7, SameCleanPath DEF Live!Clean
<1>9. Serve1(tables[route.host], req, path, path) = method
  <2>1. method # Live!NotFound
    BY <1>3 DEF IsServed
  <2> QED
    BY <1>1, <2>1 DEF Serve1, Live!serveInTable, Live!Otherwise, method
<1>10. answer = method /\ method # Live!NotFound
  BY <1>3, <1>9, Attempts DEF IsServed
<1>11. MatchFor(req) = path
  BY <1>1, <1>2 DEF MatchFor
<1> HIDE DEF answer
<1>12. Answer(req) = IF InHost(req) # Live!NotFound THEN InHost(req) ELSE InDefault(req)
  BY <1>8, AnswerParts
<1>13. ASSUME route.host = NoHost PROVE Answer(req) = method
  BY <1>1, <1>10, <1>11, <1>12, <1>13 DEF InHost, InDefault, answer
<1>14. ASSUME route.host # NoHost PROVE Answer(req) = method
  BY <1>1, <1>4, <1>10, <1>11, <1>12, <1>14 DEF InHost, answer
<1>15. Answer(req) = method
  <2>1. CASE route.host = NoHost
    BY <1>13, <2>1
  <2>2. CASE route.host # NoHost
    BY <1>14, <2>2
  <2> QED
    BY <2>1, <2>2
<1> QED
  BY <1>3, <1>15 DEF IsServed, req

\* Every accepted route is reached by the request made from its pattern, in
\* every state and whatever else is registered.
THEOREM Reachable == FrozenSpec => []AcceptedIsReachable
BY RoutesReached, FrozenInductive, PTL

-----------------------------------------------------------------------------
(* What a registration does to the answers *)

\* Serving a table depends on the variable setup, not on the others.
LEMMA TableAnswerNext ==
    ASSUME setup' = setup, NEW t, NEW req, NEW match, NEW raw
    PROVE  Live!AnswerOf(t, req, match, raw)' = Live!AnswerOf(t, req, match, raw)
<1>1. \A m, p, q : Live!serveMethodInTable(t, m, p, q)' = Live!serveMethodInTable(t, m, p, q)
  BY DEF Live!serveMethodInTable
<1>2. \A m, p, q : Live!serveInTable(t, m, p, q)' = Live!serveInTable(t, m, p, q)
  BY <1>1 DEF Live!serveInTable
<1>3. \A p : Live!allowedMethodsInTable(t, p)' = Live!allowedMethodsInTable(t, p)
  BY DEF Live!allowedMethodsInTable
<1>4. Live!tryAlternateSlashInTable(t, req, match, raw)' = Live!tryAlternateSlashInTable(t, req, match, raw)
  BY <1>2, <1>3 DEF Live!tryAlternateSlashInTable
<1>5. Live!handleMethodNotAllowedInTable(t, req, match)' = Live!handleMethodNotAllowedInTable(t, req, match)
  BY <1>3 DEF Live!handleMethodNotAllowedInTable
<1> QED
  BY <1>2, <1>4, <1>5 DEF Live!AnswerOf

\* The answers after a step are those of the tables it has left, the setup being
\* as before.
LEMMA AnswerNext ==
    ASSUME setup' = setup, NEW req
    PROVE  Answer(req)' = Live!Resolve(tables', IgnoreCaseActive', req)
<1>1. \A t, match : Live!AnswerOf(t, req, match, req.path)' = Live!AnswerOf(t, req, match, req.path)
  BY TableAnswerNext
<1>2. Live!Clean(req)' = Live!Clean(req)
  BY DEF Live!Clean, Live!UsesRaw
<1> QED
  BY <1>1, <1>2 DEF Answer, Live!Resolve

\* Two tables that differ in their roots alone, where no search can tell, are one
\* to a request.
SameFields(t, u) ==
    /\ u.static = t.static /\ u.staticAllow = t.staticAllow
    /\ u.hasParams = t.hasParams /\ u.hasTrailing = t.hasTrailing

\* Tables with the same fields and the same searches give the same answers.
LEMMA SameTable ==
    ASSUME NEW t, NEW u, SameFields(t, u),
           \A m \in t.hasParams : \A match, raw :
              Search(u.roots[m], match, raw) = Search(t.roots[m], match, raw),
           NEW req, NEW match, NEW raw
    PROVE  Live!AnswerOf(u, req, match, raw) = Live!AnswerOf(t, req, match, raw)
<1>1. ASSUME NEW m, NEW a, NEW b
      PROVE  Live!serveMethodInTable(u, m, a, b) = Live!serveMethodInTable(t, m, a, b)
  <2>1. CASE m \in t.hasParams
    <3>1. Search(u.roots[m], a, b) = Search(t.roots[m], a, b)
      BY <2>1
    <3> QED
      BY <2>1, <3>1 DEF SameFields, Live!serveMethodInTable
  <2>2. CASE m \notin t.hasParams
    BY <2>2 DEF SameFields, Live!serveMethodInTable
  <2> QED
    BY <2>1, <2>2
<1>2. ASSUME NEW m, NEW a, NEW b
      PROVE  Live!serveInTable(u, m, a, b) = Live!serveInTable(t, m, a, b)
  BY <1>1 DEF Live!serveInTable
<1>3. ASSUME NEW a
      PROVE  Live!allowedMethodsInTable(u, a) = Live!allowedMethodsInTable(t, a)
  <2>1. {m \in u.hasParams : Search(u.roots[m], a, a).found # {}}
           = {m \in t.hasParams : Search(t.roots[m], a, a).found # {}}
    BY DEF SameFields
  <2> QED
    BY <2>1 DEF SameFields, Live!allowedMethodsInTable, Live!AnyParams
<1>5. Serve1(u, req, match, raw) = Serve1(t, req, match, raw)
  BY <1>2 DEF Serve1
<1>6. Slash1(u, req, match, raw) = Slash1(t, req, match, raw)
  BY <1>2, <1>3 DEF Slash1, Live!tryAlternateSlashInTable, SameFields, Live!NoSlashRoute
<1>7. Deny1(u, req, match) = Deny1(t, req, match)
  BY <1>3 DEF Deny1, Live!handleMethodNotAllowedInTable, SameFields, Live!NoSlashRoute
<1> QED
  BY <1>5, <1>6, <1>7, Attempts

\* A table without routes answers nothing.
LEMMA BareTable ==
    ASSUME NEW t, SameFields(NewTable, t), NEW req, NEW match, NEW raw
    PROVE  Live!AnswerOf(t, req, match, raw) = Live!NotFound
<1>1. t.static = <<>> /\ t.staticAllow = <<>> /\ t.hasParams = {}
  BY DEF SameFields, NewTable
<1>2. DOMAIN <<>> = {}
  OBVIOUS
<1>3. \A m, a, b : Live!serveMethodInTable(t, m, a, b) = Live!NotFound
  BY <1>1, <1>2 DEF Live!serveMethodInTable
<1>4. \A m, a, b : Live!serveInTable(t, m, a, b) = Live!NotFound
  BY <1>3 DEF Live!serveInTable, Live!Otherwise
<1>5. \A a : Live!allowedMethodsInTable(t, a) = {}
  BY <1>1, <1>2 DEF Live!allowedMethodsInTable, Live!AnyParams
<1>6. Slash1(t, req, match, raw) = Live!NotFound
  BY <1>4, <1>5 DEF Slash1, Live!tryAlternateSlashInTable
<1>7. Deny1(t, req, match) = Live!NotFound
  BY <1>5 DEF Deny1, Live!handleMethodNotAllowedInTable
<1>8. Serve1(t, req, match, raw) = Live!NotFound
  BY <1>4 DEF Serve1
<1> QED
  BY <1>6, <1>7, <1>8, Attempts

\* The table that a registration starts from, what it makes of it, and the
\* registration as a whole, route being what it registers.
TableOf(host) == IF host \in DOMAIN tables THEN tables[host] ELSE NewTable
GrownOf(t, route)    == GrownWith(t, route.method, InsertIn(t, route).trie)
RecordedIn(t, route) == Recorded(GrownOf(t, route), route.method, route.pattern, route.handler)
Registers(route) ==
    /\ route \in AcceptedRoute /\ WildLast(Parts(route.pattern))
    /\ TableOK(TableOf(route.host), OfHost(route.host))
    /\ setup' = setup /\ IgnoreCaseActive' = IgnoreCaseActive
    /\ LET t == TableOf(route.host)
       IN  IF InsertIn(t, route).failed
           THEN tables' = With(tables, route.host, GrownOf(t, route)) /\ accepted' = accepted
           ELSE /\ tables' = With(tables, route.host, RecordedIn(t, route))
                /\ accepted' = accepted \cup {route}

\* Every call of handle that passes the checks registers some route.
LEMMA RegisterMade ==
    ASSUME RouterInv, NEW offer \in setup.offers, Acceptable(offer[3]),
           Register(offer[1], offer[2], offer[3])
    PROVE  \E route : Registers(route)
<1> DEFINE host    == offer[1]
           method  == offer[2]
           pattern == offer[3]
           match   == IF IgnoreCaseActive THEN LowerPath(pattern) ELSE pattern
           route   == NewRoute(host, method, pattern, match)
           table   == IF host \in DOMAIN tables THEN tables[host] ELSE NewTable
           ins     == InsertIn(table, route)
           grown   == GrownWith(table, method, ins.trie)
           rec     == Recorded(grown, method, match, <<host, method, pattern>>)
<1>1. /\ ignoreCaseSet' = TRUE /\ ignoreCaseEnabled' = IgnoreCaseActive
      /\ setup' = setup /\ IgnoreCase' = IgnoreCase
      /\ tables' = With(tables, host, IF ins.failed THEN grown ELSE rec)
      /\ accepted' = IF ins.failed THEN accepted ELSE accepted \cup {route}
  BY RegisterRoute
<1>2. offer \in Offer /\ host \in STRING /\ method \in STRING /\ pattern \in Seq(Piece)
  <2>1. offer \in Offer
    BY SetupAssumption DEF RouterInv, SetupOK
  <2> QED
    BY <2>1 DEF Offer
<1>3. IgnoreCaseActive \in BOOLEAN
  BY DEF RouterInv, SetupOK, AcceptedOK, IgnoreCaseActive
<1>4. match \in Seq(Piece) /\ match = Live!MatchOf(pattern, IgnoreCaseActive) /\ WildLast(Parts(match))
  BY <1>2, <1>3, MatchPattern DEF Acceptable
<1> HIDE DEF match
<1>5. /\ route \in AcceptedRoute /\ route.host = host /\ route.method = method
      /\ route.pattern = match /\ route.handler = <<host, method, pattern>>
  BY <1>2, <1>4 DEF NewRoute, AcceptedRoute, Offer
<1> HIDE DEF host, method, pattern, route
<1>6. TableOK(table, OfHost(host))
  <2>1. CASE host \in DOMAIN tables
    BY <2>1 DEF RouterInv, TablesOK
  <2>2. CASE host \notin DOMAIN tables
    <3>1. OfHost(host) = {}
      BY <2>2 DEF RouterInv, TablesOK, OfHost
    <3> QED
      BY <2>2, <3>1, NewTableOK
  <2> QED
    BY <2>1, <2>2
<1>7. table = TableOf(host)
  BY DEF TableOf
<1> HIDE DEF table, ins
<1>8. IgnoreCaseActive' = IgnoreCaseActive
  BY <1>1 DEF IgnoreCaseActive
<1>9. ins = InsertIn(TableOf(route.host), route) /\ grown = GrownOf(TableOf(route.host), route)
      /\ rec = RecordedIn(TableOf(route.host), route)
  BY <1>5, <1>7 DEF ins, GrownOf, RecordedIn
<1> HIDE DEF grown, rec
<1>10. Registers(route)
  BY <1>1, <1>4, <1>5, <1>6, <1>7, <1>8, <1>9 DEF Registers
<1> QED
  BY <1>10

\* A registration that accepts nothing has failed in the trie: a route that is
\* accepted already has its node.
LEMMA NothingAccepted ==
    ASSUME RouterInv, NEW route, Registers(route), accepted' = accepted
    PROVE  InsertIn(TableOf(route.host), route).failed
<1> DEFINE t == TableOf(route.host)
           ins == InsertIn(t, route)
           parts == Parts(route.pattern)
           entry == Entry(route)
           root == RootOf(t, route.method)
<1>1. SUFFICES ASSUME ~ins.failed PROVE FALSE
  OBVIOUS
<1>2. route \in accepted
  BY <1>1 DEF Registers
<1>3. route \in OfHost(route.host) /\ t = tables[route.host]
  BY <1>2 DEF OfHost, RouterInv, TablesOK, TableOf
<1>4. RootOK(root, {r \in OfHost(route.host) : r.method = route.method})
  BY <1>3 DEF Registers, TableOK, RootOf
<1>5. parts \in DOMAIN root /\ root[parts] = entry
  BY <1>3, <1>4 DEF RootOK
<1>6. entry # NoRoute /\ parts \in Seq(Piece)
  BY EntryType DEF Registers
<1>7. TrieOK(root) /\ WildLast(parts)
  BY <1>4 DEF RootOK, Registers
<1> HIDE DEF root, entry, parts
<1>8. PICK more : Inserted(Insert(root, parts, entry), root, more, parts, entry)
  BY <1>6, <1>7, InsertResult
<1>9. ins = Insert(root, parts, entry)
  BY DEF InsertIn, root, parts, entry
<1>10. ins = Halted(root, more)
  BY <1>5, <1>6, <1>8, <1>9 DEF Inserted
<1>11. ins.failed
  BY <1>10 DEF Halted
<1> QED
  BY <1>1, <1>11

\* Whatever a failed registration has done to the trie, no search can tell.
LEMMA FailedSearch ==
    ASSUME RouterInv, NEW route, Registers(route), InsertIn(TableOf(route.host), route).failed
    PROVE  LET t == TableOf(route.host)
               u == GrownOf(t, route)
           IN  /\ SameFields(t, u)
               /\ \A m \in t.hasParams : \A match, raw :
                     Search(u.roots[m], match, raw) = Search(t.roots[m], match, raw)
<1> DEFINE t == TableOf(route.host)
           u == GrownOf(t, route)
           ins == InsertIn(t, route)
           method == route.method
           parts == Parts(route.pattern)
           entry == Entry(route)
           root == RootOf(t, method)
           routes == OfMethod(OfHost(route.host), method)
<1>1. TableOK(t, OfHost(route.host))
  BY DEF Registers
<1> HIDE DEF t
<1>2. t = Table(t.roots, t.static, t.staticAllow, t.hasParams, t.hasTrailing)
  BY <1>1 DEF TableOK
<1> HIDE DEF ins
<1>3. u = Table(With(t.roots, method, ins.trie), t.static, t.staticAllow, t.hasParams, t.hasTrailing)
  BY <1>2, GrownTable DEF GrownOf, ins
<1> HIDE DEF u
<1>4. SameFields(t, u) /\ u.roots = With(t.roots, method, ins.trie)
  BY <1>3 DEF Table, SameFields
<1>5. RootOK(root, routes)
  <2>1. CASE method \in DOMAIN t.roots
    BY <1>1, <2>1 DEF TableOK, RootOf, OfMethod
  <2>2. CASE method \notin DOMAIN t.roots
    <3>1. routes = {}
      BY <1>1, <2>2 DEF TableOK, OfMethod
    <3> QED
      BY <2>2, <3>1, EmptyRootOK DEF RootOf
  <2> QED
    BY <2>1, <2>2
<1>6. parts \in Seq(Piece) /\ entry # NoRoute /\ WildLast(parts) /\ TrieOK(root)
  BY <1>5, EntryType DEF RootOK, Registers
<1>7. ins = Insert(root, parts, entry) /\ ins.failed
  BY DEF InsertIn, ins, t
<1> HIDE DEF root, parts, entry, routes
<1>8. PICK more : Inserted(ins, root, more, parts, entry)
  BY <1>6, <1>7, InsertResult
<1>9. ins = Halted(root, more) /\ (parts \in more => parts \in DOMAIN root)
  <2>1. ~Placed(root, more, parts, entry).failed
    BY DEF Placed
  <2> QED
    BY <1>7, <1>8, <2>1 DEF Inserted
<1>10. ins.trie = Extended(root, more)
  BY <1>9 DEF Halted
<1>11. \A n \in more : IsWild(n) => n \in DOMAIN root
  BY <1>6, <1>8, <1>9, WildPrefix DEF Inserted
<1>12. ASSUME NEW m \in t.hasParams, NEW match, NEW raw
       PROVE  Search(u.roots[m], match, raw) = Search(t.roots[m], match, raw)
  <2>1. m \in DOMAIN t.roots
    BY <1>1 DEF TableOK
  <2>2. CASE m # method
    BY <1>4, <2>1, <2>2, WithAt
  <2>3. CASE m = method
    <3>1. u.roots[m] = ins.trie /\ t.roots[m] = root
      BY <1>4, <2>1, <2>3, WithAt DEF root, RootOf
    <3>2. WellFormed(DOMAIN root \cup more)
      BY <1>8 DEF Inserted
    <3>3. Search(Extended(root, more), match, raw) = Search(root, match, raw)
      BY <1>6, <1>11, <3>2, SearchExtended
    <3> QED
      BY <1>10, <3>1, <3>3
  <2> QED
    BY <2>2, <2>3
<1> QED
  BY <1>4, <1>12 DEF t, u

\* What is answered depends on the tables of the request's host and of the default
\* host, a host without a table and a table that answers nothing being the same.
LEMMA ResolveSame ==
    ASSUME NEW before, NEW after, NEW b, NEW req,
           LET match == Live!MatchOf(req.path, b)
               in(ts, h) == Live!AnswerOf(ts[h], req, match, req.path)
           IN  /\ in(after, NoHost) = in(before, NoHost)
               /\ req.host # NoHost =>
                     (IF req.host \in DOMAIN after THEN in(after, req.host) ELSE Live!NotFound)
                       = (IF req.host \in DOMAIN before THEN in(before, req.host) ELSE Live!NotFound)
    PROVE  Live!Resolve(after, b, req) = Live!Resolve(before, b, req)
BY DEF Live!Resolve

\* A registration that accepts nothing changes the answer to no request.
LEMMA FailedAnswer ==
    ASSUME RouterInv, NEW route, Registers(route), accepted' = accepted, NEW b, NEW req
    PROVE  Live!Resolve(tables', b, req) = Live!Resolve(tables, b, req)
<1> DEFINE host == route.host
           t == TableOf(host)
           u == GrownOf(t, route)
<1>1. InsertIn(t, route).failed
  BY NothingAccepted
<1>2. tables' = With(tables, host, u)
  BY <1>1 DEF Registers
<1>3. SameFields(t, u) /\ \A m \in t.hasParams : \A match, raw :
         Search(u.roots[m], match, raw) = Search(t.roots[m], match, raw)
  BY <1>1, FailedSearch
<1> HIDE DEF u
<1>4. /\ \A h : h \in DOMAIN tables' <=> h \in DOMAIN tables \/ h = host
      /\ tables'[host] = u
      /\ \A h \in DOMAIN tables : h # host => tables'[h] = tables[h]
  BY <1>2, WithAt, WithDomain
<1> HIDE DEF t
<1>5. \A match, raw : Live!AnswerOf(u, req, match, raw) = Live!AnswerOf(t, req, match, raw)
  BY <1>3, SameTable
<1>6. host \in DOMAIN tables => t = tables[host]
  BY DEF t, TableOf
<1>7. ASSUME host \notin DOMAIN tables, NEW match, NEW raw
      PROVE  Live!AnswerOf(u, req, match, raw) = Live!NotFound
  <2>1. t = NewTable
    BY <1>7 DEF t, TableOf
  <2> QED
    BY <1>3, <2>1, BareTable
<1>8. NoHost \in DOMAIN tables
  BY DEF RouterInv, TablesOK
<1> DEFINE match == Live!MatchOf(req.path, b)
           in(ts, h) == Live!AnswerOf(ts[h], req, match, req.path)
<1>9. \A h \in DOMAIN tables : in(tables', h) = in(tables, h)
  BY <1>4, <1>5, <1>6
<1>10. host \notin DOMAIN tables => in(tables', host) = Live!NotFound
  BY <1>4, <1>7
<1> HIDE DEF match
<1>11. in(tables', NoHost) = in(tables, NoHost)
  BY <1>8, <1>9
<1>12. (IF req.host \in DOMAIN tables' THEN in(tables', req.host) ELSE Live!NotFound)
         = (IF req.host \in DOMAIN tables THEN in(tables, req.host) ELSE Live!NotFound)
  BY <1>4, <1>9, <1>10
<1> QED
  BY <1>11, <1>12, ResolveSame DEF match

\* A registration that fails, by whatever check, changes no answer.
THEOREM FailedInvisible == FrozenSpec => FailedRegistrationInvisible
<1>1. RouterInv /\ [Next]_vars =>
         [vars' # vars /\ accepted' = accepted /\ IgnoreCase' = IgnoreCase =>
             \A req \in Requests : Answer(req)' = Answer(req)]_vars
  <2> SUFFICES ASSUME RouterInv, Next, accepted' = accepted, IgnoreCase' = IgnoreCase, vars' # vars,
                      NEW req \in Requests
               PROVE  Answer(req)' = Answer(req)
    OBVIOUS
  <2>1. ASSUME NEW offer \in setup.offers, Handle(offer[1], offer[2], offer[3])
        PROVE  Answer(req)' = Answer(req)
    <3>1. PICK route : Registers(route)
      BY <2>1, RegisterMade DEF Handle
    <3>2. setup' = setup /\ IgnoreCaseActive' = IgnoreCaseActive
      BY <3>1 DEF Registers
    <3>3. Answer(req)' = Live!Resolve(tables', IgnoreCaseActive', req)
      BY <3>2, AnswerNext
    <3>4. Live!Resolve(tables', IgnoreCaseActive, req) = Live!Resolve(tables, IgnoreCaseActive, req)
      BY <3>1, FailedAnswer
    <3> QED
      BY <3>2, <3>3, <3>4 DEF Answer
  <2>2. ASSUME NEW offer \in setup.offers, HandleNilMiddleware(offer[3])
        PROVE  Answer(req)' = Answer(req)
    <3>1. setup' = setup /\ tables' = tables /\ IgnoreCaseActive' = IgnoreCaseActive
      BY <2>2 DEF HandleNilMiddleware, IgnoreCaseActive
    <3>2. Answer(req)' = Live!Resolve(tables', IgnoreCaseActive', req)
      BY <3>1, AnswerNext
    <3> QED
      BY <3>1, <3>2 DEF Answer
  <2>3. ASSUME NEW b \in setup.IgnoreCases, SetIgnoreCase(b) PROVE FALSE
    BY <2>3 DEF SetIgnoreCase, vars
  <2> QED
    BY <2>1, <2>2, <2>3 DEF Next, HandleRejected
<1> QED
  BY <1>1, Inductive, FrozenIsRouter, PTL DEF FailedRegistrationInvisible, Spec

-----------------------------------------------------------------------------
(* A registration never takes away *)

\* What a successful registration leaves of a table: more routes, and no shortcut
\* that was not there before.
Grows(t, routes, u, more) ==
    /\ TableOK(t, routes) /\ TableOK(u, more)
    /\ more \in SUBSET AcceptedRoute /\ routes \subseteq more
    /\ \A r1, r2 \in more : r1.host = r2.host
    /\ t.hasParams \subseteq u.hasParams
    /\ t.hasTrailing => u.hasTrailing

\* The path with its slash toggled is a path of static pieces again.
LEMMA OtherForm ==
    ASSUME NEW match \in RequestPath
    PROVE  Live!Alternate(match) \in RequestPath
<1>1. Empty \in {"static"} \X STRING
  BY ZenonT(40), EmptyAssumption DEF Empty, Static, Piece
<1>2. Append(match, Empty) \in RequestPath
  BY <1>1 DEF RequestPath
<1>3. SubSeq(match, 1, Len(match) - 1) \in RequestPath
  <2>1. CASE match = <<>>
    <3>1. SubSeq(match, 1, Len(match) - 1) = <<>>
      BY <2>1
    <3> QED
      BY <3>1 DEF RequestPath
  <2>2. CASE match # <<>>
    <3>1. Len(match) - 1 \in 0 .. Len(match)
      BY <2>2 DEF RequestPath
    <3> QED
      BY <3>1, PrefixOf DEF RequestPath
  <2> QED
    BY <2>1, <2>2
<1> QED
  BY <1>2, <1>3, Zenon DEF Live!Alternate, Live!FrontOf, Live!LastOf, Live!Empty, Live!Static, Empty, Static

\* A method that serves a path serves it after more routes have been registered:
\* whatever the search met before, a route matches.
LEMMA ServesMore ==
    ASSUME NEW t, NEW routes, NEW u, NEW more, Grows(t, routes, u, more),
           NEW m, NEW match \in RequestPath, NEW raw,
           IsServed(Live!serveMethodInTable(t, m, match, raw))
    PROVE  IsServed(Live!serveMethodInTable(u, m, match, raw))
<1>1. \A handler, params : IsServed(Live!Served(handler, params))
  BY DEF IsServed, Live!Served, Live!NotFound
<1>2. ~IsServed(Live!NotFound)
  BY DEF IsServed
<1>3. CASE m \in DOMAIN t.static /\ match \in DOMAIN t.static[m]
  <2>1. PICK r \in routes : r.method = m /\ r.pattern = match /\ ~HasParams(Parts(r.pattern))
    BY <1>3 DEF Grows, TableOK, StaticOK
  <2>2. r \in more
    BY DEF Grows
  <2>3. m \in DOMAIN u.static /\ match \in DOMAIN u.static[m]
    BY <2>1, <2>2 DEF Grows, TableOK, StaticOK
  <2> QED
    BY <1>1, <2>3 DEF Live!serveMethodInTable
<1>4. CASE ~(m \in DOMAIN t.static /\ match \in DOMAIN t.static[m])
  <2>1. m \in t.hasParams /\ ~(Len(Live!Parts(match)) > setup.MaxDepth)
    BY <1>2, <1>4 DEF Live!serveMethodInTable
  <2>2. Search(t.roots[m], match, raw).found # {}
    BY <1>2, <1>4, <2>1 DEF Live!serveMethodInTable
  <2> DEFINE old == {r \in routes : r.method = m}
             new == {r \in more : r.method = m}
  <2>3. m \in u.hasParams /\ RootOK(t.roots[m], old) /\ RootOK(u.roots[m], new)
    BY <2>1 DEF Grows, TableOK
  <2>4. match \in Seq(Piece) /\ Parts(match) \in RequestParts
    <3>1. match \in Seq(Piece)
      BY DEF RequestPath, Piece
    <3>2. Parts(match) \in RequestParts
      BY PartsType DEF RequestPath, RequestParts
    <3> QED
      BY <3>1, <3>2
  <2>5. old \in SUBSET AcceptedRoute /\ new \in SUBSET AcceptedRoute /\ old \subseteq new
    BY DEF Grows
  <2>6. \A r1, r2 \in new : r1.host = r2.host /\ r1.method = r2.method
    BY DEF Grows
  <2>7. \A r1, r2 \in old : r1.host = r2.host /\ r1.method = r2.method
    BY <2>5, <2>6
  <2>8. TrieOK(t.roots[m]) /\ TrieOK(u.roots[m])
    BY <2>3 DEF RootOK
  <2> HIDE DEF old, new
  <2>9. FoundBest(old, match, Search(t.roots[m], match, match))
    BY <2>3, <2>4, <2>5, <2>7, RootFindsBest
  <2>10. FoundBest(new, match, Search(u.roots[m], match, match))
    BY <2>3, <2>4, <2>5, <2>6, RootFindsBest
  <2>11. Search(t.roots[m], match, match).found # {}
    <3>1. Search(t.roots[m], match, raw).found = Search(t.roots[m], match, match).found
      BY <2>8, FoundWithoutRaw
    <3> QED
      BY <2>2, <3>1
  <2>12. Matching(new, match) # {}
    <3>1. Matching(old, match) # {}
      BY <2>9, <2>11 DEF FoundBest
    <3> QED
      BY <2>5, <3>1 DEF Matching
  <2>13. Search(u.roots[m], match, match).found # {}
    BY <2>10, <2>12 DEF FoundBest
  <2>14. Search(u.roots[m], match, raw).found # {}
    <3>1. Search(u.roots[m], match, raw).found = Search(u.roots[m], match, match).found
      BY <2>8, FoundWithoutRaw
    <3> QED
      BY <2>13, <3>1
  <2>15. CASE m \in DOMAIN u.static /\ match \in DOMAIN u.static[m]
    BY <1>1, <2>15 DEF Live!serveMethodInTable
  <2>16. CASE ~(m \in DOMAIN u.static /\ match \in DOMAIN u.static[m])
    <3>1. \E params : Live!serveMethodInTable(u, m, match, raw)
             = Live!Served((CHOOSE r \in Search(u.roots[m], match, raw).found : TRUE).handler, params)
      BY <2>1, <2>3, <2>14, <2>16, FoundIsServed
    <3> QED
      BY <1>1, <3>1
  <2> QED
    BY <2>15, <2>16
<1> QED
  BY <1>3, <1>4

\* A request that a method serves, HEAD with its fallback to GET included, is served
\* after more routes have been registered.
LEMMA ServesMoreAny ==
    ASSUME NEW t, NEW routes, NEW u, NEW more, Grows(t, routes, u, more),
           NEW m, NEW match \in RequestPath, NEW raw,
           IsServed(Live!serveInTable(t, m, match, raw))
    PROVE  IsServed(Live!serveInTable(u, m, match, raw))
<1>1. CASE m # "HEAD"
  BY <1>1, ServesMore DEF Live!serveInTable
<1>2. CASE m = "HEAD"
  <2> DEFINE head(x) == Live!serveMethodInTable(x, "HEAD", match, raw)
             get(x)  == Live!serveMethodInTable(x, "GET", match, raw)
  <2>1. \A x : Live!serveInTable(x, m, match, raw)
                  = IF head(x) # Live!NotFound THEN head(x) ELSE get(x)
    BY <1>2 DEF Live!serveInTable, Live!Otherwise
  <2>2. IsServed(head(t)) \/ IsServed(get(t))
    BY <2>1
  <2>3. IsServed(head(t)) => IsServed(head(u))
    BY ServesMore
  <2>4. IsServed(get(t)) => IsServed(get(u))
    BY ServesMore
  <2>5. head(u) = Live!NotFound \/ IsServed(head(u))
    BY ServeMethod
  <2>6. IsServed(head(u)) => head(u) # Live!NotFound
    BY DEF IsServed
  <2> HIDE DEF head, get
  <2> QED
    BY <2>1, <2>2, <2>3, <2>4, <2>5, <2>6
<1> QED
  BY <1>1, <1>2

\* A request that a table serves, at its own path or at the other slash form, is
\* served after more routes have been registered.
LEMMA AnswersMore ==
    ASSUME NEW t, NEW routes, NEW u, NEW more, Grows(t, routes, u, more),
           NEW req, NEW match \in RequestPath, NEW raw,
           IsServed(Live!AnswerOf(t, req, match, raw))
    PROVE  IsServed(Live!AnswerOf(u, req, match, raw))
<1>1. Serve1(u, req, match, raw) = Live!NotFound \/ IsServed(Serve1(u, req, match, raw))
  BY ServeAny DEF Serve1
<1>2. CASE IsServed(Serve1(t, req, match, raw))
  <2>1. IsServed(Serve1(u, req, match, raw))
    BY <1>2, ServesMoreAny DEF Serve1
  <2> QED
    BY <2>1, Attempts DEF IsServed
<1>3. CASE ~IsServed(Serve1(t, req, match, raw))
  <2>1. Serve1(t, req, match, raw) = Live!NotFound
    BY <1>3, ServeAny DEF Serve1
  <2>2. ~IsServed(Deny1(t, req, match))
    <3>1. Denies(Deny1(t, req, match)) \/ Deny1(t, req, match) = Live!NotFound
      BY DenyAttempt, Kinds
    <3> QED
      BY <3>1, Kinds DEF IsServed
  <2>3. IsServed(Slash1(t, req, match, raw))
    BY <2>1, <2>2, Attempts
  <2>4. Slash1(t, req, match, raw) # Live!NotFound
    BY <2>3 DEF IsServed
  <2>5. LooksAtSlash(t, match)
    BY <2>4, SlashAttempt
  <2>6. ~setup.StrictSlash
    <3>1. ~IsServed(Live!RedirectTo(Live!Alternate(raw)))
      BY DEF IsServed, Live!RedirectTo
    <3> QED
      BY <2>3, <2>4, <2>5, <3>1, SlashAttempt
  <2>7. IsServed(Live!serveInTable(t, req.method, Live!Alternate(match), Live!Alternate(raw)))
    BY <2>3, <2>5, <2>6, SlashAttempt
  <2>8. IsServed(Live!serveInTable(u, req.method, Live!Alternate(match), Live!Alternate(raw)))
    BY <2>7, OtherForm, ServesMoreAny
  <2>9. LooksAtSlash(u, match)
    BY <2>5 DEF LooksAtSlash, Live!NoSlashRoute, Grows
  <2>10. IsServed(Slash1(u, req, match, raw))
    BY <2>6, <2>8, <2>9, SlashAttempt
  <2> QED
    BY <1>1, <2>10, Attempts DEF IsServed
<1> QED
  BY <1>2, <1>3

\* A route recorded in a table makes it grow.
LEMMA RecordedGrows ==
    ASSUME RouterInv, NEW route, Registers(route), ~InsertIn(TableOf(route.host), route).failed
    PROVE  LET t == TableOf(route.host)
           IN  Grows(t, OfHost(route.host), RecordedIn(t, route), OfHost(route.host) \cup {route})
<1> DEFINE t == TableOf(route.host)
           u == RecordedIn(t, route)
           routes == OfHost(route.host)
           more == routes \cup {route}
           ins == InsertIn(t, route)
           new == StaticWith(t.static, route.method, route.pattern, route.handler)
           allows == With(t.staticAllow, route.pattern, buildStaticAllowHeader(new, route.pattern))
           slash == AnyTrailing(t.hasTrailing, route.pattern)
           roots == With(t.roots, route.method, ins.trie)
<1>1. /\ TableOK(t, routes) /\ route \in AcceptedRoute /\ WildLast(Parts(route.pattern))
      /\ ~ins.failed
  BY DEF Registers
<1>2. routes \in SUBSET AcceptedRoute /\ \A r \in routes : r.host = route.host
  BY DEF RouterInv, AcceptedOK, OfHost
<1> HIDE DEF t, routes
<1>3. TableOK(Recorded(GrownWith(t, route.method, InsertIn(t, route).trie),
                       route.method, route.pattern, route.handler), routes \cup {route})
  BY <1>1, <1>2, TableKeeps
<1>4. TableOK(u, more)
  BY <1>3 DEF RecordedIn, GrownOf
<1>5. t = Table(t.roots, t.static, t.staticAllow, t.hasParams, t.hasTrailing)
  BY <1>1 DEF TableOK
<1> HIDE DEF ins
<1>6. GrownOf(t, route) = Table(roots, t.static, t.staticAllow, t.hasParams, t.hasTrailing)
  BY <1>5, GrownTable DEF GrownOf, ins
<1> HIDE DEF roots
<1>7. u = IF HasParams(Parts(route.pattern))
          THEN Table(roots, t.static, t.staticAllow, t.hasParams \cup {route.method}, slash)
          ELSE Table(roots, new, allows, t.hasParams, slash)
  BY <1>6, RecordedTable DEF RecordedIn
<1> HIDE DEF u, new, allows, slash
<1>8. t.hasParams \subseteq u.hasParams /\ u.hasTrailing = slash
  <2>1. CASE HasParams(Parts(route.pattern))
    BY <1>7, <2>1 DEF Table
  <2>2. CASE ~HasParams(Parts(route.pattern))
    BY <1>7, <2>2 DEF Table
  <2> QED
    BY <2>1, <2>2
<1>9. t.hasTrailing => u.hasTrailing
  BY <1>8 DEF slash, AnyTrailing
<1>10. \A r1, r2 \in more : r1.host = r2.host
  BY <1>2
<1>11. more \in SUBSET AcceptedRoute /\ routes \subseteq more
  BY <1>1, <1>2
<1> HIDE DEF more
<1>12. Grows(t, routes, u, more)
  BY <1>1, <1>4, <1>8, <1>9, <1>10, <1>11 DEF Grows
<1> QED
  BY <1>12 DEF t, routes, u, more

\* What is answered to a request of the default host
LEMMA ResolveDefault ==
    ASSUME NEW ts, NEW b, NEW req, req.host = NoHost
    PROVE  Live!Resolve(ts, b, req) =
              IF Live!Clean(req)
              THEN Live!AnswerOf(ts[NoHost], req, Live!MatchOf(req.path, b), req.path)
              ELSE Live!RedirectTo(Live!CleanPath(req.path))
BY DEF Live!Resolve, Live!Otherwise

\* The other slash form of a path has its parts.
LEMMA AlternateParts ==
    ASSUME NEW match \in RequestPath
    PROVE  Parts(Live!Alternate(match)) = Parts(match)
<1> DEFINE S == {"static"} \X STRING
           longer == Append(match, Empty)
           front == SubSeq(match, 1, Len(match) - 1)
<1>1. match \in Seq(S) /\ Len(match) \in Nat
  BY DEF RequestPath
<1>2. Empty \in S
  BY ZenonT(40), EmptyAssumption DEF Empty, Static, Piece
<1> HIDE DEF S
<1>3. Parts(longer) = Parts(match)
  <2>1. /\ longer \in Seq(S) /\ Len(longer) = Len(match) + 1 /\ longer[Len(longer)] = Empty
        /\ \A i \in 1 .. Len(match) : longer[i] = match[i]
    BY <1>1, <1>2
  <2> HIDE DEF longer
  <2>2. PICK f : ListsParts(f, longer, S) /\ Parts(longer) = f[Len(longer)]
    BY <2>1, PartsListed
  <2>3. Parts(longer) = f[Len(match)]
    BY <1>1, <2>1, <2>2 DEF ListsParts
  <2>4. Len(match) \in 0 .. Len(longer)
    BY <1>1, <2>1
  <2>5. Parts(SubSeq(longer, 1, Len(match))) = f[Len(match)]
    BY <2>1, <2>2, <2>4, PartsOfPrefix
  <2>6. SubSeq(longer, 1, Len(match)) = match
    <3>1. /\ SubSeq(longer, 1, Len(match)) \in Seq(S) /\ Len(SubSeq(longer, 1, Len(match))) = Len(match)
          /\ \A i \in 1 .. Len(match) : SubSeq(longer, 1, Len(match))[i] = longer[i]
      BY <2>1, <2>4, PrefixOf
    <3> QED
      BY <1>1, <2>1, <3>1, SeqEqual
  <2> QED
    BY <2>3, <2>5, <2>6
<1>4. ASSUME LastOf(match) = Empty PROVE Parts(front) = Parts(match)
  <2>1. CASE match = <<>>
    <3>1. front = match
      BY <2>1
    <3> QED
      BY <3>1
  <2>2. CASE match # <<>>
    <3>1. Len(match) - 1 \in 0 .. Len(match) /\ Len(match) \in 1 .. Len(match)
      BY <1>1, <2>2
    <3>2. PICK f : ListsParts(f, match, S) /\ Parts(match) = f[Len(match)]
      BY <1>1, PartsListed
    <3>3. Parts(match) = f[Len(match) - 1]
      BY <1>4, <3>1, <3>2 DEF ListsParts, LastOf
    <3>4. Parts(front) = f[Len(match) - 1]
      BY <1>1, <3>1, <3>2, PartsOfPrefix
    <3> QED
      BY <3>3, <3>4
  <2> QED
    BY <2>1, <2>2
<1> QED
  BY <1>3, <1>4, Zenon DEF Live!Alternate, Live!FrontOf, Live!LastOf, LastOf, Live!Empty, Live!Static,
     Empty, Static

\* Of two routes only one beats the other.
LEMMA BeatsOnce ==
    ASSUME NEW r1 \in Seq(Piece), NEW r2 \in Seq(Piece), Beats(r1, r2)
    PROVE  ~Beats(r2, r1)
<1>1. PICK i \in 1 .. Len(r2) :
         /\ Len(r1) >= i - 1 /\ SubSeq(r1, 1, i - 1) = SubSeq(r2, 1, i - 1)
         /\ Len(r1) >= i => Rank(Kind(r1[i])) < Rank(Kind(r2[i]))
  BY DEF Beats
<1>2. SUFFICES ASSUME NEW j \in 1 .. Len(r1),
                      Len(r2) >= j - 1, SubSeq(r2, 1, j - 1) = SubSeq(r1, 1, j - 1),
                      Len(r2) >= j => Rank(Kind(r2[j])) < Rank(Kind(r1[j]))
               PROVE  FALSE
  BY DEF Beats
<1>3. Len(r1) \in Nat /\ Len(r2) \in Nat
  OBVIOUS
<1>4. \A k \in Nat : k <= Len(r1) /\ k <= Len(r2) /\ SubSeq(r1, 1, k) = SubSeq(r2, 1, k) =>
         \A n \in 1 .. k : r1[n] = r2[n]
  <2> SUFFICES ASSUME NEW k \in Nat, k <= Len(r1), k <= Len(r2), SubSeq(r1, 1, k) = SubSeq(r2, 1, k),
                      NEW n \in 1 .. k
               PROVE  r1[n] = r2[n]
    OBVIOUS
  <2>1. k \in 0 .. Len(r1) /\ k \in 0 .. Len(r2)
    BY <1>3
  <2>2. SubSeq(r1, 1, k)[n] = r1[n] /\ SubSeq(r2, 1, k)[n] = r2[n]
    BY <2>1, PrefixOf
  <2> QED
    BY <2>2
<1>5. \A n \in 1 .. Len(r1) : Rank(Kind(r1[n])) \in Nat
  <2>1. \A x \in Piece : Rank(Kind(x)) \in Nat
    <3>1. \A x \in Piece : Kind(x) \in {"static", "param", "wild"}
      BY DEF Piece, Kind
    <3>2. Rank("static") \in Nat /\ Rank("param") \in Nat /\ Rank("wild") \in Nat
      BY DEF Rank
    <3> QED
      BY <3>1, <3>2
  <2> QED
    BY <2>1
<1>6. \A n \in 1 .. Len(r2) : Rank(Kind(r2[n])) \in Nat
  <2>1. \A x \in Piece : Rank(Kind(x)) \in Nat
    <3>1. \A x \in Piece : Kind(x) \in {"static", "param", "wild"}
      BY DEF Piece, Kind
    <3>2. Rank("static") \in Nat /\ Rank("param") \in Nat /\ Rank("wild") \in Nat
      BY DEF Rank
    <3> QED
      BY <3>1, <3>2
  <2> QED
    BY <2>1
<1>7. CASE i = j
  <2>1. i \in 1 .. Len(r1) /\ i \in 1 .. Len(r2) /\ Len(r1) >= i /\ Len(r2) >= i
    BY <1>3, <1>7
  <2> QED
    BY <1>1, <1>2, <1>5, <1>6, <1>7, <2>1
<1>8. CASE i < j
  <2>1. i \in 1 .. j - 1 /\ j - 1 \in Nat /\ j - 1 <= Len(r1) /\ j - 1 <= Len(r2) /\ Len(r1) >= i
    BY <1>2, <1>3, <1>8
  <2>2. r1[i] = r2[i]
    BY <1>2, <1>4, <2>1
  <2>3. Rank(Kind(r1[i])) < Rank(Kind(r2[i]))
    BY <1>1, <2>1
  <2>4. Rank(Kind(r1[i])) = Rank(Kind(r2[i])) /\ Rank(Kind(r2[i])) \in Nat
    BY <1>6, <2>2
  <2> QED
    BY <2>3, <2>4
<1>9. CASE j < i
  <2>1. j \in 1 .. i - 1 /\ i - 1 \in Nat /\ i - 1 <= Len(r1) /\ i - 1 <= Len(r2) /\ Len(r2) >= j
    BY <1>1, <1>3, <1>9
  <2>2. r1[j] = r2[j]
    BY <1>1, <1>4, <2>1
  <2>3. Rank(Kind(r2[j])) < Rank(Kind(r1[j]))
    BY <1>2, <2>1
  <2>4. Rank(Kind(r2[j])) = Rank(Kind(r1[j])) /\ Rank(Kind(r1[j])) \in Nat
    BY <1>5, <2>2
  <2> QED
    BY <2>3, <2>4
<1> QED
  BY <1>7, <1>8, <1>9

\* The best of a method's routes for the parts of a path, and that it is the one
\* which handles the request
BestRoute(best, routes, m, parts) ==
    /\ best \in routes /\ best.method = m /\ Matches(Parts(best.pattern), parts)
    /\ \A r \in routes : r.method = m /\ Matches(Parts(r.pattern), parts) /\ r # best =>
          Beats(Parts(best.pattern), Parts(r.pattern))
ServedByBest(routes, m, parts, handler) ==
    \E best : BestRoute(best, routes, m, parts) /\ best.handler = handler

\* A search for a path finds the best route of the method.
FindsRoute(routes, m, path, result) ==
    \E best : /\ BestRoute(best, routes, m, Parts(path))
              /\ {r.handler : r \in result.found} = {best.handler}

\* The best of the matching routes is the best of its method's.
LEMMA BestOfMethod ==
    ASSUME NEW routes, NEW m, NEW path, NEW result,
           FoundBest({r \in routes : r.method = m}, path, result),
           Matching({r \in routes : r.method = m}, path) # {}
    PROVE  FindsRoute(routes, m, path, result)
<1> DEFINE mine == {r \in routes : r.method = m}
<1>1. \A r : r \in mine <=> r \in routes /\ r.method = m
  OBVIOUS
<1> HIDE DEF mine
<1>2. PICK best \in Matching(mine, path) :
         /\ \A r \in Matching(mine, path) \ {best} : Beats(Parts(best.pattern), Parts(r.pattern))
         /\ {r.handler : r \in result.found} = {best.handler}
  BY DEF FoundBest, mine
<1>3. \A r : r \in Matching(mine, path) <=> r \in mine /\ Matches(Parts(r.pattern), Parts(path))
  BY DEF Matching
<1>4. BestRoute(best, routes, m, Parts(path))
  BY <1>1, <1>2, <1>3 DEF BestRoute
<1> QED
  BY <1>2, <1>4 DEF FindsRoute

\* What a method answers a path with, by its static map or its trie, is the handler
\* of its best route.
LEMMA MethodServesBest ==
    ASSUME NEW t, NEW routes \in SUBSET AcceptedRoute, TableOK(t, routes),
           \A r1, r2 \in routes : r1.host = r2.host,
           NEW m, NEW match \in RequestPath, NEW raw,
           IsServed(Live!serveMethodInTable(t, m, match, raw))
    PROVE  ServedByBest(routes, m, Parts(match), Live!serveMethodInTable(t, m, match, raw).handler)
<1> DEFINE mine == {r \in routes : r.method = m}
           found(path) == Search(t.roots[m], match, path).found
           answer == Live!serveMethodInTable(t, m, match, raw)
<1>1. \A handler, params : Live!Served(handler, params).handler = handler
  BY DEF Live!Served
<1>2. match \in Seq(Piece) /\ Parts(match) \in RequestParts
  <2>1. match \in Seq(Piece)
    BY DEF RequestPath, Piece
  <2>2. Parts(match) \in RequestParts
    BY PartsType DEF RequestPath, RequestParts
  <2> QED
    BY <2>1, <2>2
<1>3. mine \in SUBSET AcceptedRoute
      /\ \A r1, r2 \in mine : r1.host = r2.host /\ r1.method = r2.method
  OBVIOUS
<1>4. ASSUME m \in DOMAIN t.roots
      PROVE  TrieOK(t.roots[m]) /\ FoundBest(mine, match, Search(t.roots[m], match, match))
  <2>1. RootOK(t.roots[m], mine)
    BY <1>4 DEF TableOK
  <2>2. TrieOK(t.roots[m])
    BY <2>1 DEF RootOK
  <2> HIDE DEF mine
  <2>3. FoundBest(mine, match, Search(t.roots[m], match, match))
    BY <1>2, <1>3, <2>1, RootFindsBest
  <2> QED
    BY <2>2, <2>3
<1>5. CASE m \in DOMAIN t.static /\ match \in DOMAIN t.static[m]
  <2>1. PICK r \in routes : /\ r.method = m /\ r.pattern = match /\ ~HasParams(Parts(match))
                            /\ r.handler = t.static[m][match]
    BY <1>5 DEF TableOK, StaticOK
  <2>2. m \in DOMAIN t.roots
    BY <2>1 DEF TableOK
  <2>3. Matches(Parts(match), Parts(match))
    <3>1. Parts(match) \in Seq(Piece)
      BY <1>2, PartsType
    <3>2. \A i \in 1 .. Len(Parts(match)) : Kind(Parts(match)[i]) = "static"
      BY <2>1 DEF HasParams
    <3>3. ~IsWild(Parts(match))
      BY <3>1, <3>2 DEF IsWild, LastOf
    <3> QED
      BY <3>3 DEF Matches
  <2>4. r \in Matching(mine, match)
    BY <2>1, <2>3 DEF Matching
  <2>5. PICK best : BestRoute(best, routes, m, Parts(match))
    <3>1. FoundBest(mine, match, Search(t.roots[m], match, match)) /\ Matching(mine, match) # {}
      BY <1>4, <2>2, <2>4
    <3>2. FindsRoute(routes, m, match, Search(t.roots[m], match, match))
      BY <3>1, BestOfMethod, Zenon
    <3> QED
      BY <3>2 DEF FindsRoute
  <2>6. best = r
    <3>1. Parts(best.pattern) \in Seq(Piece) /\ Matches(Parts(best.pattern), Parts(match))
      <4>1. best \in AcceptedRoute /\ Matches(Parts(best.pattern), Parts(match))
        BY <2>5 DEF BestRoute
      <4> QED
        BY <4>1, PartsType DEF AcceptedRoute
    <3>2. ~Beats(Parts(best.pattern), Parts(match))
      BY <1>2, <3>1, StaticWins
    <3> QED
      BY <2>1, <2>3, <2>5, <3>2 DEF BestRoute
  <2>7. answer.handler = r.handler
    BY <1>1, <1>5, <2>1 DEF Live!serveMethodInTable
  <2> QED
    BY <2>5, <2>6, <2>7 DEF ServedByBest
<1>6. CASE ~(m \in DOMAIN t.static /\ match \in DOMAIN t.static[m])
  <2>1. m \in t.hasParams /\ ~(Len(Live!Parts(match)) > setup.MaxDepth) /\ found(raw) # {}
    BY <1>6 DEF Live!serveMethodInTable, IsServed
  <2>2. answer.handler = (CHOOSE r \in found(raw) : TRUE).handler
    <3>1. \E params : answer = Live!Served((CHOOSE r \in found(raw) : TRUE).handler, params)
      BY <1>6, <2>1, FoundIsServed
    <3> QED
      BY <1>1, <3>1
  <2>3. m \in DOMAIN t.roots
    BY <2>1 DEF TableOK
  <2>4. found(raw) = found(match)
    BY <1>4, <2>3, FoundWithoutRaw
  <2>5. FoundBest(mine, match, Search(t.roots[m], match, match)) /\ Matching(mine, match) # {}
    <3>1. FoundBest(mine, match, Search(t.roots[m], match, match))
      BY <1>4, <2>3
    <3> QED
      BY <2>1, <2>4, <3>1 DEF FoundBest
  <2>6. PICK best : /\ BestRoute(best, routes, m, Parts(match))
                    /\ {r.handler : r \in found(match)} = {best.handler}
    <3>1. FindsRoute(routes, m, match, Search(t.roots[m], match, match))
      BY <2>5, BestOfMethod, Zenon
    <3> QED
      BY <3>1, Zenon DEF FindsRoute
  <2> HIDE DEF found, answer
  <2>7. (CHOOSE r \in found(raw) : TRUE) \in found(match)
    BY <2>1, <2>4
  <2>8. answer.handler = best.handler
    BY <2>2, <2>6, <2>7
  <2> QED
    BY <2>6, <2>8 DEF ServedByBest, answer
<1> QED
  BY <1>5, <1>6

\* What serves a request, HEAD by GET's routes too, is the best route of its method.
LEMMA AnyServesBest ==
    ASSUME NEW t, NEW routes \in SUBSET AcceptedRoute, TableOK(t, routes),
           \A r1, r2 \in routes : r1.host = r2.host,
           NEW method, NEW match \in RequestPath, NEW raw,
           IsServed(Live!serveInTable(t, method, match, raw))
    PROVE  \E m \in MethodsFor(method) :
              ServedByBest(routes, m, Parts(match), Live!serveInTable(t, method, match, raw).handler)
<1>1. \E m \in MethodsFor(method) :
         Live!serveInTable(t, method, match, raw) = Live!serveMethodInTable(t, m, match, raw)
  BY DEF MethodsFor, Live!serveInTable, Live!Otherwise
<1> QED
  BY <1>1, MethodServesBest

\* A request that a table serves, in either slash form, is served by the best route
\* of its method.
LEMMA AnswersBest ==
    ASSUME NEW t, NEW routes \in SUBSET AcceptedRoute, TableOK(t, routes),
           \A r1, r2 \in routes : r1.host = r2.host,
           NEW req, NEW match \in RequestPath, NEW raw,
           IsServed(Live!AnswerOf(t, req, match, raw))
    PROVE  \E m \in MethodsFor(req.method) :
              ServedByBest(routes, m, Parts(match), Live!AnswerOf(t, req, match, raw).handler)
<1> DEFINE other == Live!Alternate(match)
<1>1. CASE Serve1(t, req, match, raw) # Live!NotFound
  <2>1. Live!AnswerOf(t, req, match, raw) = Live!serveInTable(t, req.method, match, raw)
    BY <1>1, Attempts DEF Serve1
  <2> QED
    BY <2>1, AnyServesBest
<1>2. CASE Serve1(t, req, match, raw) = Live!NotFound
  <2>1. ~IsServed(Deny1(t, req, match))
    <3>1. Denies(Deny1(t, req, match)) \/ Deny1(t, req, match) = Live!NotFound
      BY DenyAttempt, Kinds
    <3> QED
      BY <3>1, Kinds DEF IsServed
  <2>2. Live!AnswerOf(t, req, match, raw) = Slash1(t, req, match, raw) /\ IsServed(Slash1(t, req, match, raw))
    BY <1>2, <2>1, Attempts
  <2>3. ~IsServed(Live!RedirectTo(Live!Alternate(raw)))
    BY DEF IsServed, Live!RedirectTo
  <2>4. ~IsServed(Live!NotFound)
    BY DEF IsServed
  <2>5. Slash1(t, req, match, raw) = Live!serveInTable(t, req.method, other, Live!Alternate(raw))
    BY <2>2, <2>3, <2>4, SlashAttempt
  <2>6. other \in RequestPath /\ Parts(other) = Parts(match)
    BY OtherForm, AlternateParts
  <2> HIDE DEF other
  <2>7. \E m \in MethodsFor(req.method) :
           ServedByBest(routes, m, Parts(other),
                        Live!serveInTable(t, req.method, other, Live!Alternate(raw)).handler)
    BY <2>2, <2>5, <2>6, AnyServesBest
  <2> QED
    BY <2>2, <2>5, <2>6, <2>7
<1> QED
  BY <1>1, <1>2

\* Of the best routes before and after a registration, the second is the first or
\* a new one that beats it, when they have one method.
LEMMA BestTakesOver ==
    ASSUME NEW routes, NEW more \in SUBSET AcceptedRoute, routes \subseteq more,
           NEW m, NEW n, NEW parts, NEW old, BestRoute(old, routes, m, parts),
           NEW new, BestRoute(new, more, n, parts), new # old, m = n
    PROVE  new \notin routes /\ Beats(Parts(new.pattern), Parts(old.pattern))
<1>1. /\ old \in routes /\ old \in more /\ new \in more /\ old.method = m /\ new.method = m
      /\ Matches(Parts(old.pattern), parts) /\ Matches(Parts(new.pattern), parts)
  BY DEF BestRoute
<1>2. Beats(Parts(new.pattern), Parts(old.pattern))
  BY <1>1 DEF BestRoute
<1>3. new \in routes => Beats(Parts(old.pattern), Parts(new.pattern))
  BY <1>1 DEF BestRoute
<1>4. Parts(new.pattern) \in Seq(Piece) /\ Parts(old.pattern) \in Seq(Piece)
  <2>1. old \in AcceptedRoute /\ new \in AcceptedRoute
    BY <1>1
  <2> QED
    BY <2>1, PartsType DEF AcceptedRoute
<1> QED
  BY <1>2, <1>3, <1>4, BeatsOnce

\* A request is still served, and by a route that may do so.
StaysServedBy(req) ==
    /\ Answer(req)'.kind = "served"
    /\ \E m, n \in MethodsFor(req.method) :
          \E old \in RoutesOf(NoHost, m) : \E new \in RoutesOf(NoHost, n)' :
              /\ old.handler = Answer(req).handler
              /\ new.handler = Answer(req)'.handler
              /\ new # old /\ m = n =>
                    /\ new \notin accepted
                    /\ Beats(Parts(new.pattern), Parts(old.pattern))

\* A request that is answered as before by the routes there were stays served.
LEMMA StaysTheSame ==
    ASSUME NEW req, Answer(req).kind = "served", Answer(req)' = Answer(req), accepted \subseteq accepted',
           NEW m \in MethodsFor(req.method), NEW parts,
           ServedByBest(OfHost(NoHost), m, parts, Answer(req).handler)
    PROVE  StaysServedBy(req)
<1>1. PICK old : BestRoute(old, OfHost(NoHost), m, parts) /\ old.handler = Answer(req).handler
  BY DEF ServedByBest
<1>2. old \in RoutesOf(NoHost, m) /\ old \in RoutesOf(NoHost, m)'
  BY <1>1 DEF BestRoute, OfHost, RoutesOf
<1> QED
  BY <1>1, <1>2, Zenon DEF StaysServedBy

\* A request whose best route is looked for among more routes stays served.
LEMMA StaysWithMore ==
    ASSUME NEW req, Answer(req)'.kind = "served",
           NEW more \in SUBSET AcceptedRoute, OfHost(NoHost) \subseteq more,
           \A r \in more : r \in accepted' /\ r.host = NoHost,
           NEW m \in MethodsFor(req.method), NEW n \in MethodsFor(req.method), NEW parts,
           ServedByBest(OfHost(NoHost), m, parts, Answer(req).handler),
           ServedByBest(more, n, parts, Answer(req)'.handler)
    PROVE  StaysServedBy(req)
<1>1. PICK old : BestRoute(old, OfHost(NoHost), m, parts) /\ old.handler = Answer(req).handler
  BY DEF ServedByBest
<1>2. PICK new : BestRoute(new, more, n, parts) /\ new.handler = Answer(req)'.handler
  BY DEF ServedByBest
<1>3. old \in RoutesOf(NoHost, m) /\ new \in RoutesOf(NoHost, n)'
  BY <1>1, <1>2 DEF BestRoute, OfHost, RoutesOf
<1>4. ASSUME new # old, m = n
      PROVE  new \notin accepted /\ Beats(Parts(new.pattern), Parts(old.pattern))
  <2>1. new \notin OfHost(NoHost) /\ Beats(Parts(new.pattern), Parts(old.pattern))
    BY <1>1, <1>2, <1>4, BestTakesOver
  <2>2. new.host = NoHost
    BY <1>2 DEF BestRoute
  <2> QED
    BY <2>1, <2>2 DEF OfHost
<1> QED
  BY <1>1, <1>2, <1>3, <1>4, Zenon DEF StaysServedBy

\* A registration never takes away: a request to the default host that was served
\* is served after it, by the same route, or by the new one when that one beats it,
\* or, if it is a HEAD request, by a route of the other of HEAD and GET.
THEOREM StaysServed == FrozenSpec => ServedStaysServed
<1>1. RouterInv /\ [Next]_vars =>
         [vars' # vars /\ IgnoreCase' = IgnoreCase =>
             \A req \in Requests : req.host = NoHost /\ Answer(req).kind = "served" =>
                 StaysServedBy(req)]_vars
  <2> SUFFICES ASSUME RouterInv, Next, IgnoreCase' = IgnoreCase, vars' # vars,
                      NEW req \in Requests, req.host = NoHost, Answer(req).kind = "served"
               PROVE  StaysServedBy(req)
    OBVIOUS
  <2> DEFINE b == IgnoreCaseActive
             match == Live!MatchOf(req.path, b)
             mine == OfHost(NoHost)
             before == Live!AnswerOf(tables[NoHost], req, match, req.path)
  <2>1. match \in RequestPath
    <3>1. req \in Request
      BY SetupAssumption DEF Requests, RouterInv, SetupOK
    <3>2. req.path \in RequestPath
      BY <3>1 DEF Request, RequestPath
    <3>3. b \in BOOLEAN
      BY DEF RouterInv, SetupOK, AcceptedOK, IgnoreCaseActive
    <3> QED
      BY <3>2, <3>3, RequestMatch
  <2>2. Live!Clean(req) /\ Answer(req) = before
    <3>1. Answer(req) = Live!Resolve(tables, b, req)
      BY DEF Answer
    <3>2. Live!RedirectTo(Live!CleanPath(req.path)).kind # "served"
      BY DEF Live!RedirectTo
    <3> QED
      BY <3>1, <3>2, ResolveDefault
  <2>3. IsServed(before)
    BY <2>2 DEF IsServed, Live!NotFound
  <2>4. /\ NoHost \in DOMAIN tables /\ TableOK(tables[NoHost], mine)
        /\ mine \in SUBSET AcceptedRoute /\ \A r \in mine : r.host = NoHost
    BY DEF RouterInv, TablesOK, AcceptedOK, OfHost
  <2> HIDE DEF match, mine, before
  <2>5. PICK m \in MethodsFor(req.method) : ServedByBest(mine, m, Parts(match), Answer(req).handler)
    <3>1. \E m \in MethodsFor(req.method) :
             ServedByBest(mine, m, Parts(match),
                          Live!AnswerOf(tables[NoHost], req, match, req.path).handler)
      BY <2>1, <2>3, <2>4, AnswersBest DEF before
    <3> QED
      BY <2>2, <3>1 DEF before
  <2>6. ASSUME Answer(req)' = Answer(req), accepted \subseteq accepted' PROVE StaysServedBy(req)
    BY <2>5, <2>6, StaysTheSame DEF mine
  <2>7. ASSUME NEW offer \in setup.offers, Handle(offer[1], offer[2], offer[3])
        PROVE  StaysServedBy(req)
    <3>1. PICK route : Registers(route)
      BY <2>7, RegisterMade DEF Handle
    <3> DEFINE host == route.host
               after == Live!AnswerOf(tables'[NoHost], req, match, req.path)
               more == mine \cup {route}
    <3>2. setup' = setup /\ IgnoreCaseActive' = b
      BY <3>1 DEF Registers
    <3>3. Answer(req)' = Live!Resolve(tables', b, req)
      BY <3>2, AnswerNext
    <3>4. Answer(req) = Live!Resolve(tables, b, req)
      BY DEF Answer
    <3>5. ASSUME InsertIn(TableOf(host), route).failed PROVE StaysServedBy(req)
      <4>1. accepted' = accepted
        BY <3>1, <3>5 DEF Registers
      <4>2. Live!Resolve(tables', b, req) = Live!Resolve(tables, b, req)
        BY <3>1, <4>1, FailedAnswer
      <4> QED
        BY <2>6, <3>3, <3>4, <4>1, <4>2
    <3>6. ASSUME ~InsertIn(TableOf(host), route).failed PROVE StaysServedBy(req)
      <4>1. tables' = With(tables, host, RecordedIn(TableOf(host), route))
            /\ accepted' = accepted \cup {route}
        BY <3>1, <3>6 DEF Registers
      <4>2. Answer(req)' = after
        BY <2>2, <3>3, ResolveDefault DEF match
      <4>3. CASE host # NoHost
        <5>1. tables'[NoHost] = tables[NoHost]
          BY <2>4, <4>1, <4>3, WithAt
        <5> QED
          BY <2>2, <2>6, <4>1, <4>2, <5>1 DEF before
      <4>4. CASE host = NoHost
        <5>1. TableOf(host) = tables[NoHost]
          BY <2>4, <4>4 DEF TableOf
        <5>2. tables'[NoHost] = RecordedIn(TableOf(host), route)
          BY <4>1, <4>4, WithAt
        <5>3. Grows(TableOf(host), OfHost(host), RecordedIn(TableOf(host), route),
                    OfHost(host) \cup {route})
          BY <3>1, <3>6, RecordedGrows
        <5>4. Grows(tables[NoHost], mine, tables'[NoHost], more)
          BY <4>4, <5>1, <5>2, <5>3 DEF mine
        <5>5. IsServed(after)
          BY <2>1, <2>3, <5>4, AnswersMore DEF before
        <5>6. TableOK(tables'[NoHost], more) /\ more \in SUBSET AcceptedRoute
              /\ \A r1, r2 \in more : r1.host = r2.host
          BY <5>4 DEF Grows
        <5>7. mine \subseteq more /\ \A r \in more : r \in accepted' /\ r.host = NoHost
          BY <2>4, <4>1, <4>4 DEF mine, OfHost
        <5> HIDE DEF more
        <5>8. PICK n \in MethodsFor(req.method) :
                 ServedByBest(more, n, Parts(match), Answer(req)'.handler)
          <6>1. \E n \in MethodsFor(req.method) :
                   ServedByBest(more, n, Parts(match),
                                Live!AnswerOf(tables'[NoHost], req, match, req.path).handler)
            BY <2>1, <5>5, <5>6, AnswersBest
          <6> QED
            BY <4>2, <6>1
        <5>9. Answer(req)'.kind = "served"
          BY <4>2, <5>5 DEF IsServed
        <5> QED
          BY <2>5, <5>6, <5>7, <5>8, <5>9, StaysWithMore DEF mine
      <4> QED
        BY <4>3, <4>4
    <3> QED
      BY <3>5, <3>6
  <2>8. ASSUME NEW offer \in setup.offers, HandleNilMiddleware(offer[3])
        PROVE  StaysServedBy(req)
    <3>1. setup' = setup /\ tables' = tables /\ IgnoreCaseActive' = IgnoreCaseActive
          /\ accepted' = accepted
      BY <2>8 DEF HandleNilMiddleware, IgnoreCaseActive
    <3>2. Answer(req)' = Live!Resolve(tables', IgnoreCaseActive', req)
      BY <3>1, AnswerNext
    <3>3. Answer(req)' = Answer(req)
      BY <3>1, <3>2 DEF Answer
    <3> QED
      BY <2>6, <3>1, <3>3
  <2>9. ASSUME NEW c \in setup.IgnoreCases, SetIgnoreCase(c) PROVE FALSE
    BY <2>9 DEF SetIgnoreCase, vars
  <2> QED
    BY <2>7, <2>8, <2>9 DEF Next, HandleRejected
<1>2. RouterInv /\ [Next]_vars =>
         [vars' # vars /\ IgnoreCase' = IgnoreCase =>
             \A req \in {r \in Requests : r.host = NoHost} : \A before \in {Answer(req)} :
                 before.kind = "served" => \E after \in {Answer(req)'} :
                     /\ after.kind = "served"
                     /\ \E m, n \in MethodsFor(req.method) :
                           \E old \in RoutesOf(NoHost, m) : \E new \in RoutesOf(NoHost, n)' :
                               /\ old.handler = before.handler
                               /\ new.handler = after.handler
                               /\ new # old /\ m = n =>
                                     /\ new \notin accepted
                                     /\ Beats(Parts(new.pattern), Parts(old.pattern))]_vars
  BY <1>1, Zenon DEF StaysServedBy
<1> QED
  BY <1>2, Inductive, FrozenIsRouter, PTL DEF ServedStaysServed, Spec

-----------------------------------------------------------------------------
(* A registered route is served *)

\* Serve's copy of Alternate is that of Paths.
LEMMA SameAlternate == \A p : Live!Alternate(p) = Alternate(p)
BY Zenon DEF Live!Alternate, Alternate, Live!FrontOf, FrontOf, Live!LastOf, LastOf, Live!Empty, Empty,
   Live!Static, Static

\* A method that serves a path serves the requests that may be answered by it.
LEMMA MethodServes ==
    ASSUME NEW t, NEW match, NEW raw, NEW method, NEW m \in MethodsFor(method),
           IsServed(Live!serveMethodInTable(t, m, match, raw))
    PROVE  IsServed(Live!serveInTable(t, method, match, raw))
<1>1. CASE method # "HEAD"
  BY <1>1 DEF MethodsFor, Live!serveInTable
<1>2. CASE method = "HEAD"
  <2> DEFINE head == Live!serveMethodInTable(t, "HEAD", match, raw)
             get  == Live!serveMethodInTable(t, "GET", match, raw)
  <2>1. Live!serveInTable(t, method, match, raw) = IF head # Live!NotFound THEN head ELSE get
    BY <1>2 DEF Live!serveInTable, Live!Otherwise
  <2>2. IsServed(head) \/ IsServed(get)
    BY <1>2 DEF MethodsFor
  <2>3. head = Live!NotFound \/ IsServed(head)
    BY ServeMethod
  <2>4. IsServed(head) => head # Live!NotFound
    BY DEF IsServed
  <2> HIDE DEF head, get
  <2> QED
    BY <2>1, <2>2, <2>3, <2>4
<1> QED
  BY <1>1, <1>2

\* A static route that matches a path has the path's parts.
LEMMA StaticMatch ==
    ASSUME NEW n \in Seq(Piece), NEW parts \in RequestParts, ~HasParams(n), Matches(n, parts)
    PROVE  n = parts
<1>1. \A i \in 1 .. Len(n) : Kind(n[i]) = "static"
  BY DEF HasParams
<1>2. Len(n) \in Nat /\ parts \in Seq(Piece)
  BY DEF RequestParts, Piece
<1>3. ~IsWild(n)
  BY <1>1, <1>2 DEF IsWild, LastOf
<1>4. Len(parts) = Len(n) /\ \A i \in 1 .. Len(n) : Kind(n[i]) = "param" \/ n[i] = parts[i]
  BY <1>3 DEF Matches
<1>5. \A i \in 1 .. Len(n) : n[i] = parts[i]
  BY <1>1, <1>4
<1> QED
  BY <1>2, <1>4, <1>5, SeqEqual

\* Where a route matches a path, the table serves the path with the route's
\* method, or the route is static and has the other slash form.
LEMMA MatchServes ==
    ASSUME NEW t, NEW routes \in SUBSET AcceptedRoute, TableOK(t, routes),
           \A r1, r2 \in routes : r1.host = r2.host,
           NEW match \in RequestPath, ~(Len(Live!Parts(match)) > setup.MaxDepth), NEW raw,
           NEW route \in routes, Matches(Parts(route.pattern), Parts(match))
    PROVE  \/ IsServed(Live!serveMethodInTable(t, route.method, match, raw))
           \/ /\ ~HasParams(Parts(route.pattern)) /\ Parts(route.pattern) = Parts(match)
              /\ route.pattern # match
<1> DEFINE m == route.method
           mine == {r \in routes : r.method = m}
<1>1. \A handler, params : IsServed(Live!Served(handler, params))
  BY DEF IsServed, Live!Served, Live!NotFound
<1>2. match \in Seq(Piece) /\ Parts(match) \in RequestParts
  <2>1. match \in Seq(Piece)
    BY DEF RequestPath, Piece
  <2>2. Parts(match) \in RequestParts
    BY PartsType DEF RequestPath, RequestParts
  <2> QED
    BY <2>1, <2>2
<1>3. CASE m \in DOMAIN t.static /\ match \in DOMAIN t.static[m]
  BY <1>1, <1>3 DEF Live!serveMethodInTable
<1>4. CASE ~(m \in DOMAIN t.static /\ match \in DOMAIN t.static[m]) /\ m \in t.hasParams
  <2>1. RootOK(t.roots[m], mine) /\ TrieOK(t.roots[m])
    BY <1>4 DEF TableOK, RootOK
  <2>2. mine \in SUBSET AcceptedRoute
        /\ \A r1, r2 \in mine : r1.host = r2.host /\ r1.method = r2.method
    OBVIOUS
  <2>3. route \in Matching(mine, match)
    BY DEF Matching
  <2> HIDE DEF mine
  <2>4. FoundBest(mine, match, Search(t.roots[m], match, match))
    BY <1>2, <2>1, <2>2, RootFindsBest
  <2>5. Search(t.roots[m], match, match).found # {}
    BY <2>3, <2>4 DEF FoundBest
  <2>6. Search(t.roots[m], match, raw).found = Search(t.roots[m], match, match).found
    BY <2>1, FoundWithoutRaw
  <2>7. \E params : Live!serveMethodInTable(t, m, match, raw)
           = Live!Served((CHOOSE r \in Search(t.roots[m], match, raw).found : TRUE).handler, params)
    BY <1>4, <2>5, <2>6, FoundIsServed
  <2> QED
    BY <1>1, <2>7
<1>5. CASE ~(m \in DOMAIN t.static /\ match \in DOMAIN t.static[m]) /\ m \notin t.hasParams
  <2>1. ~HasParams(Parts(route.pattern))
    BY <1>5 DEF TableOK
  <2>2. route.pattern \in Seq(Piece)
    BY DEF AcceptedRoute
  <2>3. Parts(route.pattern) = Parts(match)
    BY <1>2, <2>1, <2>2, PartsType, StaticMatch
  <2>4. route.pattern # match
    BY <1>5, <2>1 DEF TableOK, StaticOK
  <2> QED
    BY <2>1, <2>3, <2>4
<1> QED
  BY <1>3, <1>4, <1>5

\* The answer of a table that has the other slash form of a path it does not
\* serve: a redirect to that form, or what is served there.
LEMMA OtherFormAnswers ==
    ASSUME NEW t, NEW routes, TableOK(t, routes), NEW req, NEW match, NEW raw,
           NEW route \in routes, route.method \in MethodsFor(req.method),
           ~HasParams(Parts(route.pattern)), route.pattern = Live!Alternate(match),
           ~(Len(Live!Parts(Live!Alternate(match))) > setup.MaxDepth),
           Live!HasAlternate(match), Live!LastOf(match) # Live!Empty => Slashed(route.pattern),
           Serve1(t, req, match, raw) = Live!NotFound
    PROVE  /\ setup.StrictSlash => Live!AnswerOf(t, req, match, raw) = Live!RedirectTo(Live!Alternate(raw))
           /\ ~setup.StrictSlash => IsServed(Live!AnswerOf(t, req, match, raw))
<1> DEFINE m == route.method
           other == Live!Alternate(match)
           allow == Live!allowedMethodsInTable(t, other)
           methods == Live!StaticMethods(t.static, other)
<1>1. /\ m \in DOMAIN t.static /\ other \in DOMAIN t.static[m]
      /\ other \in DOMAIN t.staticAllow
      /\ t.staticAllow[other] = Live!AllowHeader(methods)
  <2>1. m \in DOMAIN t.static /\ other \in DOMAIN t.static[m]
    BY DEF TableOK, StaticOK
  <2>2. other \in DOMAIN t.staticAllow
    BY <2>1 DEF TableOK, CacheOK
  <2> QED
    BY <2>1, <2>2 DEF TableOK, CacheOK, buildStaticAllowHeader
<1>2. m \in methods
  BY <1>1 DEF Live!StaticMethods
<1>3. LooksAtSlash(t, match)
  BY DEF LooksAtSlash, Live!NoSlashRoute, TableOK
<1>4. allow # {}
  <2>1. \A S : m \in S => Live!AllowHeader(S) # {}
    BY DEF Live!AllowHeader
  <2> HIDE DEF methods, other
  <2>2. CASE Live!AnyParams(t)
    <3>1. allow = Live!AllowHeader(methods \cup
                     {k \in t.hasParams : Search(t.roots[k], other, other).found # {}})
      BY <2>2 DEF Live!allowedMethodsInTable, methods, other
    <3> QED
      BY <1>2, <2>1, <3>1
  <2>3. CASE ~Live!AnyParams(t)
    <3>1. allow = Live!AllowHeader(methods)
      BY <1>1, <2>3 DEF Live!allowedMethodsInTable
    <3> QED
      BY <1>2, <2>1, <3>1
  <2> QED
    BY <2>2, <2>3
<1>5. ASSUME setup.StrictSlash
      PROVE  Live!AnswerOf(t, req, match, raw) = Live!RedirectTo(Live!Alternate(raw))
  <2>1. Slash1(t, req, match, raw) = Live!RedirectTo(Live!Alternate(raw))
    BY <1>3, <1>4, <1>5, SlashAttempt
  <2> QED
    BY <2>1, Attempts, Kinds
<1>6. ASSUME ~setup.StrictSlash PROVE IsServed(Live!AnswerOf(t, req, match, raw))
  <2>1. \A handler, params : IsServed(Live!Served(handler, params))
    BY DEF IsServed, Live!Served, Live!NotFound
  <2>2. IsServed(Live!serveMethodInTable(t, m, other, Live!Alternate(raw)))
    BY <1>1, <2>1 DEF Live!serveMethodInTable
  <2>3. IsServed(Live!serveInTable(t, req.method, other, Live!Alternate(raw)))
    BY <2>2, MethodServes
  <2>4. IsServed(Slash1(t, req, match, raw))
    BY <1>3, <1>6, <2>3, SlashAttempt
  <2> QED
    BY <2>4, Attempts DEF IsServed
<1> QED
  BY <1>5, <1>6

\* The host whose table a request is looked up in first
FirstHost(req) == IF req.host \in DOMAIN tables THEN req.host ELSE NoHost

\* What that table answers is the answer, when it answers.
LEMMA FirstAnswer ==
    ASSUME TablesOK, NEW req, Live!Clean(req),
           Live!AnswerOf(tables[FirstHost(req)], req, MatchFor(req), req.path) # Live!NotFound
    PROVE  Answer(req) = Live!AnswerOf(tables[FirstHost(req)], req, MatchFor(req), req.path)
<1> DEFINE ans(h) == Live!AnswerOf(tables[h], req, MatchFor(req), req.path)
<1>1. Answer(req) = IF InHost(req) # Live!NotFound THEN InHost(req) ELSE ans(NoHost)
  BY AnswerParts DEF InDefault
<1>2. InHost(req) = IF req.host = NoHost \/ req.host \notin DOMAIN tables THEN Live!NotFound
                    ELSE ans(req.host)
  BY DEF InHost
<1>3. ans(FirstHost(req)) # Live!NotFound
  OBVIOUS
<1>4. NoHost \in DOMAIN tables
  BY DEF TablesOK
<1> HIDE DEF ans
<1>5. Answer(req) = ans(FirstHost(req))
  <2>1. CASE req.host = NoHost
    BY <1>1, <1>2, <1>3, <1>4, <2>1 DEF FirstHost
  <2>2. CASE req.host # NoHost /\ req.host \in DOMAIN tables
    BY <1>1, <1>2, <1>3, <2>2 DEF FirstHost
  <2>3. CASE req.host # NoHost /\ req.host \notin DOMAIN tables
    BY <1>1, <1>2, <1>3, <2>3 DEF FirstHost
  <2> QED
    BY <2>1, <2>2, <2>3
<1> QED
  BY <1>5 DEF ans

\* The request with another path
At(req, path) == [req EXCEPT !.path = path]

\* The request with another path differs in its path only.
LEMMA AtFields ==
    ASSUME NEW req \in Request, NEW path \in RequestPath
    PROVE  /\ At(req, path) \in Request
           /\ At(req, path).method = req.method /\ At(req, path).host = req.host
           /\ At(req, path).path = path /\ At(req, path).raw = req.raw
BY DEF At, Request, RequestPath

\* The request has a route in the table it is looked up in first.
HasRoute(req, route) ==
    /\ route \in accepted /\ route.host = FirstHost(req) /\ route.method \in MethodsFor(req.method)
    /\ Len(Parts(MatchFor(req))) <= setup.MaxDepth
    /\ Matches(Parts(route.pattern), Parts(MatchFor(req)))

\* A clean path is matched in its own form, and so is its other slash form.
LEMMA CleanMatch ==
    ASSUME NEW p, CleanForm(p), NEW b \in BOOLEAN
    PROVE  /\ CleanForm(Live!MatchOf(p, b))
           /\ Live!LastOf(Live!MatchOf(p, b)) = Live!Empty <=> LastOf(p) = Empty
           /\ HasAlternate(p) =>
                 /\ Live!MatchOf(Alternate(p), b) = Alternate(Live!MatchOf(p, b))
                 /\ CleanForm(Alternate(p))
<1>1. \A x : Live!MatchOf(x, b) = IF b THEN LowerPath(x) ELSE x
  <2>1. \A x : LowerPath(x) = Live!LowerPath(x)
    BY DEF LowerPath, Live!LowerPath, LowerPiece, Live!LowerPiece, Kind, Live!Kind,
           Text, Live!Text, Static, Live!Static
  <2> QED
    BY <2>1 DEF Live!MatchOf
<1>2. /\ CleanForm(LowerPath(p))
      /\ LastOf(LowerPath(p)) = Empty <=> LastOf(p) = Empty
  BY LowerClean
<1>3. HasAlternate(p) => CleanForm(Alternate(p)) /\ LowerPath(Alternate(p)) = Alternate(LowerPath(p))
  BY AlternateLower
<1>4. \A x : Live!LastOf(x) = LastOf(x) /\ Live!Empty = Empty
  BY DEF Live!LastOf, LastOf, Live!Empty, Empty, Live!Static, Static
<1> QED
  BY <1>1, <1>2, <1>3, <1>4

\* A request with a clean path that has a route is served, or sent to the other
\* slash form and served there.
LEMMA CleanServed ==
    ASSUME RouterInv, NEW req \in Request, CleanForm(req.path), NEW route, HasRoute(req, route)
    PROVE  \/ IsServed(Answer(req))
           \/ /\ Answer(req) = Live!RedirectTo(Alternate(req.path))
              /\ Alternate(req.path) \in RequestPath
              /\ IsServed(Answer(At(req, Alternate(req.path))))
<1> DEFINE b == IgnoreCaseActive
           path == req.path
           match == MatchFor(req)
           host == FirstHost(req)
           t == tables[host]
           routes == OfHost(host)
           m == route.method
           alt == Alternate(path)
           next == At(req, alt)
           ans == Live!AnswerOf(t, req, match, path)
<1>1. b \in BOOLEAN /\ path \in RequestPath /\ match = Live!MatchOf(path, b)
  BY DEF RouterInv, SetupOK, AcceptedOK, IgnoreCaseActive, Request, RequestPath, MatchFor
<1>2. match \in RequestPath /\ match \in Seq(Piece) /\ Parts(match) \in RequestParts
  BY <1>1, RequestMatch
<1>3. /\ CleanForm(match)
      /\ Live!LastOf(match) = Live!Empty <=> LastOf(path) = Empty
      /\ HasAlternate(path) => Live!MatchOf(alt, b) = Alternate(match) /\ CleanForm(alt)
  BY <1>1, CleanMatch
<1>4. TableOK(t, routes) /\ TablesOK /\ setup.MaxDepth \in Nat
  BY SetupAssumption DEF RouterInv, TablesOK, FirstHost, SetupOK
<1>5. /\ route \in routes /\ m \in MethodsFor(req.method)
      /\ Matches(Parts(route.pattern), Parts(match))
      /\ Len(Parts(match)) <= setup.MaxDepth /\ Len(Parts(match)) \in Nat
  BY <1>2 DEF HasRoute, OfHost, RequestParts
<1>6. routes \in SUBSET AcceptedRoute /\ \A r1, r2 \in routes : r1.host = r2.host
  BY DEF RouterInv, AcceptedOK, OfHost
<1>7. CleanForm(route.pattern)
  <2>1. route \in accepted
    BY DEF HasRoute
  <2> QED
    BY <2>1, AcceptedFills DEF FillsWell
<1>8. ASSUME NEW q \in RequestPath, CleanForm(q) PROVE Live!Clean(At(req, q))
  <2>1. q \in Seq(Piece) /\ At(req, q).path = q
    BY <1>8, AtFields DEF CleanForm
  <2>2. CleanPath(q) = q
    BY <1>8, <2>1, CleanIsClean
  <2> QED
    BY <2>1, <2>2, SameCleanPath DEF Live!Clean
<1>9. Live!Clean(req)
  <2>1. CleanPath(path) = path
    <3>1. path \in Seq(Piece)
      BY DEF CleanForm
    <3> QED
      BY <3>1, CleanIsClean
  <2> QED
    BY <2>1, SameCleanPath DEF Live!Clean
<1> HIDE DEF b, match, host, routes
<1>10. ASSUME IsServed(ans) PROVE IsServed(Answer(req))
  <2>1. ans # Live!NotFound
    BY <1>10 DEF IsServed
  <2>2. Answer(req) = ans
    BY <1>4, <1>9, <2>1, FirstAnswer DEF match, host
  <2> QED
    BY <1>10, <2>2
<1>11. CASE IsServed(Serve1(t, req, match, path))
  <2>1. IsServed(ans)
    BY <1>11, Attempts DEF IsServed
  <2> QED
    BY <1>10, <2>1
<1>12. CASE ~IsServed(Serve1(t, req, match, path))
  <2>1. Serve1(t, req, match, path) = Live!NotFound
    BY <1>12, ServeAny DEF Serve1
  <2>2. ~(Len(Live!Parts(match)) > setup.MaxDepth)
    BY <1>4, <1>5, SameParts
  <2>3. ~IsServed(Live!serveMethodInTable(t, m, match, path))
    BY <1>5, <1>12, MethodServes DEF Serve1
  <2>4. /\ ~HasParams(Parts(route.pattern)) /\ Parts(route.pattern) = Parts(match)
        /\ route.pattern # match
    BY <1>2, <1>4, <1>5, <1>6, <2>2, <2>3, MatchServes
  <2>5. /\ route.pattern = Alternate(match) /\ HasAlternate(match)
        /\ LastOf(match) # Empty => Slashed(route.pattern)
    BY <1>3, <1>7, <2>4, OtherSlash
  <2>6. /\ Live!Alternate(match) = Alternate(match) /\ Live!HasAlternate(match)
        /\ Live!LastOf(match) = LastOf(match) /\ Live!Empty = Empty
    BY ZenonT(40), <2>5, SameAlternate DEF Live!LastOf, LastOf, Live!Empty, Empty, Live!Static, Static,
       Live!HasAlternate, HasAlternate, Live!Root, Root
  <2>7. ~(Len(Live!Parts(Live!Alternate(match))) > setup.MaxDepth)
    BY <2>2, <2>4, <2>5, <2>6, SameParts
  <2>8. /\ setup.StrictSlash => ans = Live!RedirectTo(Live!Alternate(path))
        /\ ~setup.StrictSlash => IsServed(ans)
    BY <1>4, <1>5, <2>1, <2>4, <2>5, <2>6, <2>7, OtherFormAnswers
  <2>9. CASE ~setup.StrictSlash
    BY <1>10, <2>8, <2>9
  <2>10. CASE setup.StrictSlash
    <3>1. ans = Live!RedirectTo(alt) /\ ans # Live!NotFound
      BY <2>8, <2>10, SameAlternate, Kinds
    <3>2. Answer(req) = Live!RedirectTo(alt)
      BY <1>4, <1>9, <3>1, FirstAnswer DEF match, host
    <3>3. alt \in RequestPath
      BY <1>1, OtherForm, SameAlternate
    <3>4. HasAlternate(path)
      <4>1. ASSUME path = Root PROVE FALSE
        <5>1. LowerPath(Root) = Root
          <6>1. Len(Root) = 1 /\ Root[1] = Empty /\ LowerPiece(Empty) = Empty /\ Root \in Seq(Piece)
            BY EmptyAssumption, LowerType DEF Root
          <6>2. /\ LowerPath(Root) \in Seq(Piece) /\ Len(LowerPath(Root)) = 1
                /\ \A i \in 1 .. 1 : LowerPath(Root)[i] = LowerPiece(Root[i])
            BY <6>1, LowerPathType
          <6>3. \A i \in 1 .. 1 : LowerPath(Root)[i] = Root[i]
            BY <6>1, <6>2
          <6> QED
            BY <6>1, <6>2, <6>3, SeqEqual
        <5>2. match = Root
          <6>1. LowerPath(path) = Live!LowerPath(path)
            BY DEF LowerPath, Live!LowerPath, LowerPiece, Live!LowerPiece, Kind, Live!Kind,
                   Text, Live!Text, Static, Live!Static
          <6> QED
            BY ZenonT(40), <1>1, <4>1, <5>1, <6>1 DEF Live!MatchOf
        <5> QED
          BY <2>5, <5>2 DEF HasAlternate
      <4> QED
        BY <4>1 DEF HasAlternate
    <3>5. /\ next \in Request /\ next.method = req.method /\ next.host = req.host
          /\ next.path = alt
      BY <3>3, AtFields
    <3>6. Live!Clean(next)
      BY <1>3, <1>8, <3>3, <3>4
    <3> HIDE DEF next, alt
    <3>7. MatchFor(next) = route.pattern
      BY <1>3, <2>5, <3>4, <3>5 DEF MatchFor, b
    <3>8. FirstHost(next) = host
      BY <3>5 DEF FirstHost, host
    <3>9. \A handler, params : IsServed(Live!Served(handler, params))
      BY DEF IsServed, Live!Served, Live!NotFound
    <3>10. IsServed(Live!serveMethodInTable(t, m, route.pattern, alt))
      <4>1. m \in DOMAIN t.static /\ route.pattern \in DOMAIN t.static[m]
        BY <1>4, <1>5, <2>4 DEF TableOK, StaticOK
      <4> QED
        BY <3>9, <4>1 DEF Live!serveMethodInTable
    <3>11. IsServed(Serve1(t, next, route.pattern, alt))
      BY <1>5, <3>5, <3>10, MethodServes DEF Serve1
    <3>12. IsServed(Live!AnswerOf(t, next, route.pattern, alt))
      BY <3>11, Attempts DEF IsServed
    <3>13. Answer(next) = Live!AnswerOf(t, next, route.pattern, alt)
      <4>1. Live!AnswerOf(tables[FirstHost(next)], next, MatchFor(next), next.path) # Live!NotFound
        BY <3>5, <3>7, <3>8, <3>12 DEF IsServed
      <4>2. Answer(next) = Live!AnswerOf(tables[FirstHost(next)], next, MatchFor(next), next.path)
        BY <1>4, <3>6, <4>1, FirstAnswer
      <4> QED
        BY <3>5, <3>7, <3>8, <4>2
    <3> QED
      BY <3>2, <3>3, <3>12, <3>13 DEF next, alt
  <2> QED
    BY <2>9, <2>10
<1> QED
  BY <1>11, <1>12

\* What a client that follows redirects asks next
LEMMA RedirectedTo ==
    ASSUME NEW req, NEW path, Answer(req) = Live!RedirectTo(path)
    PROVE  Redirected(req) = At(req, path)
<1>1. Live!RedirectTo(path).kind = "redirect" /\ Live!RedirectTo(path).path = path
  BY DEF Live!RedirectTo
<1> QED
  BY <1>1 DEF Redirected, At

\* One redirect at most is between a request with a clean path and the route it has.
LEMMA CleanReached ==
    ASSUME RouterInv, NEW req \in Request, CleanForm(req.path), NEW route, HasRoute(req, route)
    PROVE  /\ IsServed(Answer(Redirected(req)))
           /\ Redirected(Redirected(req)) = Redirected(req)
<1>1. ASSUME NEW r, IsServed(Answer(r)) PROVE Redirected(r) = r
  BY <1>1 DEF IsServed, Redirected
<1>2. CASE IsServed(Answer(req))
  BY <1>1, <1>2
<1>3. CASE ~IsServed(Answer(req))
  <2>1. /\ Answer(req) = Live!RedirectTo(Alternate(req.path))
        /\ IsServed(Answer(At(req, Alternate(req.path))))
    BY <1>3, CleanServed
  <2>2. Redirected(req) = At(req, Alternate(req.path))
    BY <2>1, RedirectedTo
  <2> QED
    BY <1>1, <2>1, <2>2
<1> QED
  BY <1>2, <1>3

\* Slashes and unclean paths never hide a route: a request that has a route of its
\* own method in the first table it is looked up in is served after at most two
\* redirects.
THEOREM Registered == FrozenSpec => []RegisteredIsServed
<1>1. ASSUME RouterInv PROVE RegisteredIsServed
  <2> DEFINE Wanted(req) == Parts(Live!MatchOf(CleanPath(req.path), IgnoreCaseActive))
  <2> SUFFICES ASSUME NEW req \in Requests,
                      Live!UsesRaw(req) => CleanPath(req.path) = req.path,
                      Len(Wanted(req)) <= setup.MaxDepth,
                      NEW m \in MethodsFor(req.method), NEW route \in RoutesOf(FirstHost(req), m),
                      Matches(Parts(route.pattern), Wanted(req))
               PROVE  Answer(Redirected(Redirected(req))).kind = "served"
    BY DEF RegisteredIsServed, FirstHost
  <2>1. req \in Request /\ req.path \in RequestPath /\ req.path \in Seq(Piece)
    <3>1. req \in Request
      BY <1>1, SetupAssumption DEF Requests, RouterInv, SetupOK
    <3> QED
      BY <3>1 DEF Request, RequestPath, Piece
  <2>2. CleanForm(CleanPath(req.path)) /\ (CleanPath(req.path) = req.path <=> CleanForm(req.path))
    BY <2>1, CleanIsClean
  <2>3. CASE Live!Clean(req)
    <3>1. CleanPath(req.path) = req.path /\ CleanForm(req.path)
      BY <2>2, <2>3, SameCleanPath DEF Live!Clean
    <3>2. HasRoute(req, route)
      BY <3>1 DEF HasRoute, RoutesOf, MatchFor
    <3>3. /\ IsServed(Answer(Redirected(req)))
          /\ Redirected(Redirected(req)) = Redirected(req)
      BY <1>1, <2>1, <3>1, <3>2, CleanReached
    <3> QED
      BY <3>3 DEF IsServed
  <2>4. CASE ~Live!Clean(req)
    <3> DEFINE path == CleanPath(req.path)
               next == At(req, path)
    <3>1. path \in RequestPath
      BY <2>1, CleanStatic DEF RequestPath
    <3>2. /\ next \in Request /\ next.method = req.method /\ next.host = req.host
          /\ next.path = path
      BY <2>1, <3>1, AtFields
    <3>3. Answer(req) = Live!RedirectTo(path)
      BY <2>4, SameCleanPath DEF Answer, Live!Resolve
    <3>4. Redirected(req) = next
      BY <3>3, RedirectedTo
    <3> HIDE DEF next
    <3>5. CleanForm(next.path)
      BY <2>2, <3>2
    <3>6. HasRoute(next, route)
      BY <3>2 DEF HasRoute, RoutesOf, MatchFor, FirstHost
    <3>7. IsServed(Answer(Redirected(next)))
      BY <1>1, <3>2, <3>5, <3>6, CleanReached
    <3> QED
      BY <3>4, <3>7 DEF IsServed
  <2> QED
    BY <2>3, <2>4
<1> QED
  BY <1>1, FrozenInductive, PTL

-----------------------------------------------------------------------------
(* Results of a search *)

\* A search that finds nothing leaves no parameters behind.
ResultOK(r) == IsResult(r) /\ (r.found = {} => r = Miss)

\* So do branches.
LEMMA BranchesOK ==
    ASSUME NEW static, ResultOK(static), NEW hasParam, NEW bound, NEW param,
           hasParam => ResultOK(param), NEW wild, ResultOK(wild)
    PROVE  ResultOK(Branches(static, hasParam, bound, param, wild))
<1> DEFINE r == Branches(static, hasParam, bound, param, wild)
<1>1. /\ IsResult(r)
      /\ r.found = IF static.found # {} THEN static.found
                   ELSE IF hasParam /\ param.found # {} THEN param.found
                   ELSE wild.found
  BY BranchesFound DEF ResultOK
<1>2. ASSUME r.found = {} PROVE r = Miss
  <2>1. static = Miss /\ wild = Miss /\ (hasParam => param = Miss)
    <3> HIDE DEF r
    <3> QED
      BY <1>1, <1>2 DEF ResultOK
  <2>2. CASE hasParam
    <3>1. Branches(Miss, hasParam, bound, Miss, Miss) = Miss
      BY MissedBranches
    <3> QED
      BY ZenonT(40), <2>1, <2>2, <3>1
  <2>3. CASE ~hasParam
    <3>1. Branches(Miss, hasParam, bound, Miss, Miss) = Miss
      BY MissedBranches
    <3>2. Branches(Miss, hasParam, bound, param, Miss) = Branches(Miss, hasParam, bound, Miss, Miss)
      BY <2>3 DEF Branches
    <3> QED
      BY <2>1, <3>1, <3>2
  <2> QED
    BY <2>2, <2>3
<1> HIDE DEF r
<1>3. ResultOK(r)
  BY <1>1, <1>2 DEF ResultOK
<1> QED
  BY <1>3 DEF r

\* Where there is a static branch only, its result is the result.
LEMMA StaticOnly ==
    ASSUME NEW static, ResultOK(static), NEW bound, NEW param
    PROVE  Branches(static, FALSE, bound, param, Miss) = static
<1>1. CASE static.found # {}
  BY <1>1 DEF Branches
<1>2. CASE static.found = {}
  <2>1. static = Miss /\ Miss.found = {}
    BY <1>2 DEF ResultOK, Miss
  <2>2. Branches(Miss, FALSE, bound, Miss, Miss) = Miss
    BY MissedBranches
  <2>3. Branches(Miss, FALSE, bound, param, Miss) = Branches(Miss, FALSE, bound, Miss, Miss)
    BY DEF Branches
  <2> QED
    BY <2>1, <2>2, <2>3
<1> QED
  BY <1>1, <1>2

\* What search computes below any node is a result.
LEMMA ResultsBelow ==
    ASSUME NEW t, TrieOK(t), NEW match, NEW raw, NEW g, Computes(g, t, match, raw)
    PROVE  \A n \in DOMAIN t : ResultOK(g[n])
<1> DEFINE Q == {n \in DOMAIN t : ResultOK(g[n])}
<1>1. \A n \in DOMAIN t : g[n] = SearchBelow(t, match, raw, g, n)
  BY DEF Computes
<1>2. ResultOK(Miss) /\ \A route, params : ResultOK(Hit(route, params))
  BY DEF ResultOK, IsResult, Miss, Hit
<1>3. ASSUME NEW n \in DOMAIN t, \A c \in DOMAIN t : Len(c) = Len(n) + 1 => ResultOK(g[c])
      PROVE  ResultOK(g[n])
  <2> DEFINE static == ViaStatic(t, match, g, n)
             param  == g[ParamChild(t, n)]
             wild   == ViaWild(t, match, raw, n)
             there  == ChildrenOf(t, n, "param") # {}
             bound  == Bound(ParamChild(t, n), Value(match, raw, Len(n)))
  <2>1. n \in Seq(Piece)
    BY DEF TrieOK, WellFormed
  <2>2. ResultOK(static)
    BY <1>2, <1>3, <2>1, OneLonger DEF ViaStatic
  <2>3. there => ResultOK(param)
    <3>1. there => ParamChild(t, n) \in ChildrenOf(t, n, "param")
      BY DEF ParamChild
    <3> QED
      BY <1>3, <3>1 DEF ChildrenOf, Children
  <2>4. ResultOK(wild)
    BY <1>2 DEF ViaWild
  <2>5. CASE Len(n) = Len(Parts(match))
    <3> HIDE DEF wild
    <3>1. g[n] = IF t[n] # NoRoute THEN Hit(t[n], <<>>) ELSE wild
      BY <1>1, <2>5 DEF SearchBelow, wild
    <3> QED
      BY <1>2, <2>4, <3>1
  <2>6. CASE Len(n) # Len(Parts(match))
    <3>1. g[n] = Branches(static, there, bound, param, wild)
      BY <1>1, <2>6 DEF SearchBelow
    <3> HIDE DEF static, there, bound, param, wild
    <3> QED
      BY <2>2, <2>3, <2>4, <3>1, BranchesOK
  <2> QED
    BY <2>5, <2>6
<1>4. \A n \in DOMAIN t : (\A c \in DOMAIN t : Len(c) = Len(n) + 1 => c \in Q) => n \in Q
  <2> HIDE DEF Q
  <2>1. \A n \in DOMAIN t : n \in Q <=> ResultOK(g[n])
    BY DEF Q
  <2> QED
    BY <1>3, <2>1
<1>5. DOMAIN t \subseteq Q
  <2> HIDE DEF Q
  <2> QED
    BY <1>4, Downward
<1> QED
  BY <1>5

-----------------------------------------------------------------------------
(* Chains *)

Kept(t) == {n \in DOMAIN t : IsStatic(n) => EndsChain(t, n)}

\* Where the span of a kept node starts
StartOf(t, n, k) ==
    /\ k \in 0 .. Len(n) - 1 /\ SubSeq(n, 1, k) \in Kept(t)
    /\ \A j \in k + 1 .. Len(n) - 1 : SubSeq(n, 1, j) \notin Kept(t)
Start(t, n) == CHOOSE k \in 0 .. Len(n) - 1 :
                  /\ SubSeq(n, 1, k) \in Kept(t)
                  /\ \A j \in k + 1 .. Len(n) - 1 : SubSeq(n, 1, j) \notin Kept(t)

\* What freezeRoot makes of a trie.
LEMMA FrozenNodes ==
    ASSUME NEW t
    PROVE  /\ DOMAIN freezeRoot(t) = Kept(t)
           /\ \A n \in Kept(t) : /\ freezeRoot(t)[n].route = t[n]
                                 /\ freezeRoot(t)[n].span =
                                       IF IsStatic(n) THEN Len(n) - Start(t, n) ELSE 0
<1>1. freezeRoot(t) = [n \in Kept(t) |-> [route |-> t[n],
                          span |-> IF IsStatic(n) THEN Len(n) - Start(t, n) ELSE 0]]
  BY DEF freezeRoot, Kept, Start
<1> QED
  BY <1>1

\* Every node but the root has one nearest kept node above it.
LEMMA StartFound ==
    ASSUME NEW t, TrieOK(t), NEW n \in DOMAIN t, Len(n) > 0
    PROVE  /\ StartOf(t, n, Start(t, n))
           /\ \A k : StartOf(t, n, k) => k = Start(t, n)
<1>1. n \in Seq(Piece) /\ Len(n) \in Nat /\ <<>> \in DOMAIN t /\ SubSeq(n, 1, 0) = <<>>
  BY DEF TrieOK, WellFormed
<1>2. <<>> \in Kept(t)
  BY <1>1 DEF Kept, IsStatic
<1> DEFINE N == Len(n)
           T == {i \in 0 .. N - 1 : SubSeq(n, 1, (N - 1) - i) \in Kept(t)}
<1>3. N - 1 \in T
  <2>1. (N - 1) - (N - 1) = 0 /\ N - 1 \in 0 .. N - 1
    BY <1>1
  <2> QED
    BY <1>1, <1>2, <2>1
<1>4. PICK i \in T : \A j \in T : i <= j
  <2>1. T \subseteq Nat
    BY <1>1
  <2>2. T # {}
    BY <1>3
  <2> HIDE DEF T
  <2> QED
    BY <2>1, <2>2, LeastElement
<1> DEFINE k == (N - 1) - i
<1>5. /\ i \in 0 .. N - 1 /\ k \in 0 .. N - 1 /\ SubSeq(n, 1, k) \in Kept(t)
      /\ \A j \in 0 .. N - 1 : SubSeq(n, 1, (N - 1) - j) \in Kept(t) => i <= j
  <2>1. i \in 0 .. N - 1 /\ SubSeq(n, 1, k) \in Kept(t)
    OBVIOUS
  <2>2. k \in 0 .. N - 1
    <3>1. i \in 0 .. N - 1 /\ N \in Nat
      BY <1>1
    <3> QED
      BY <3>1
  <2>3. \A j : j \in T <=> j \in 0 .. N - 1 /\ SubSeq(n, 1, (N - 1) - j) \in Kept(t)
    OBVIOUS
  <2> HIDE DEF T, k
  <2> QED
    BY <1>4, <2>1, <2>2, <2>3
<1> HIDE DEF T
<1>8. StartOf(t, n, k)
  <2>1. ASSUME NEW j \in k + 1 .. N - 1 PROVE SubSeq(n, 1, j) \notin Kept(t)
    <3>1. (N - 1) - j \in 0 .. N - 1 /\ ~(i <= (N - 1) - j) /\ (N - 1) - ((N - 1) - j) = j
      BY <1>1, <1>5 DEF k
    <3> QED
      BY <1>5, <3>1
  <2> QED
    BY <1>5, <2>1 DEF StartOf
<1> HIDE DEF k
<1>6. ASSUME NEW x, NEW y, StartOf(t, n, x), StartOf(t, n, y) PROVE x = y
  <2>1. x \in Int /\ y \in Int /\ ~(x < y) /\ ~(y < x)
    BY <1>1, <1>6 DEF StartOf
  <2> QED
    BY <2>1
<1>7. StartOf(t, n, Start(t, n))
  <2>1. \E x \in 0 .. Len(n) - 1 :
           /\ SubSeq(n, 1, x) \in Kept(t)
           /\ \A j \in x + 1 .. Len(n) - 1 : SubSeq(n, 1, j) \notin Kept(t)
    BY <1>8 DEF StartOf
  <2> QED
    BY <2>1 DEF StartOf, Start
<1> QED
  BY <1>6, <1>7

Extends(d, s) == Len(d) >= Len(s) /\ SubSeq(d, 1, Len(s)) = s

\* c is the end of the chain that s is on.
ChainEnd(t, s, c) ==
    /\ c \in Kept(t) /\ IsStatic(c) /\ Extends(c, s)
    /\ \A j \in Len(s) .. Len(c) - 1 : SubSeq(c, 1, j) \notin Kept(t)
    /\ \A d \in Kept(t) : Extends(d, s) => Extends(d, c)

\* The path goes along the span that ends with c.
OnSpan(c, from, parts) ==
    Len(c) <= Len(parts) /\ \A i \in from + 1 .. Len(c) : c[i] = parts[i]

\* A node that ends a chain is the end of its own.
LEMMA EndHere ==
    ASSUME NEW t, TrieOK(t), NEW s \in Kept(t), IsStatic(s)
    PROVE  ChainEnd(t, s, s)
<1>1. s \in Seq(Piece) /\ Len(s) \in Nat
  BY DEF Kept, TrieOK, WellFormed
<1>2. Extends(s, s)
  BY <1>1, Whole DEF Extends
<1> QED
  BY <1>1, <1>2 DEF ChainEnd

\* A node that ends none has one child, a static one, and no route.
LEMMA InChain ==
    ASSUME NEW t, TrieOK(t), NEW s \in DOMAIN t, s \notin Kept(t)
    PROVE  /\ IsStatic(s) /\ t[s] = NoRoute
           /\ ChildrenOf(t, s, "param") = {} /\ ChildrenOf(t, s, "wild") = {}
           /\ \E c \in Children(t, s) : /\ IsStatic(c)
                                        /\ \A d \in Children(t, s) : d = c
<1>1. IsStatic(s) /\ ~EndsChain(t, s)
  BY DEF Kept
<1>2. /\ t[s] = NoRoute
      /\ ChildrenOf(t, s, "param") = {} /\ ChildrenOf(t, s, "wild") = {}
  BY <1>1 DEF EndsChain
<1>3. PICK c \in ChildrenOf(t, s, "static") : ChildrenOf(t, s, "static") = {c}
  BY <1>1 DEF EndsChain, OneStatic
<1>4. c \in Children(t, s) /\ Kind(LastOf(c)) = "static"
  BY DEF ChildrenOf
<1>5. c # <<>>
  <2>1. Len(c) = Len(s) + 1 /\ Len(s) \in Nat
    BY <1>4, Child
  <2> QED
    BY <2>1
<1>6. ASSUME NEW d \in Children(t, s) PROVE d = c
  <2>1. LastOf(d) \in Piece
    BY Child
  <2>2. Kind(LastOf(d)) \in {"static", "param", "wild"}
    BY <2>1 DEF Piece, Kind
  <2>3. Kind(LastOf(d)) = "static"
    BY <1>2, <2>2 DEF ChildrenOf
  <2> QED
    BY <1>3, <2>3 DEF ChildrenOf
<1> QED
  BY <1>1, <1>2, <1>4, <1>5, <1>6 DEF IsStatic

\* Such a node is on the chain of its child.
LEMMA EndBelow ==
    ASSUME NEW t, TrieOK(t), NEW s \in DOMAIN t, s \notin Kept(t),
           NEW c \in Children(t, s), \A d \in Children(t, s) : d = c,
           NEW end, ChainEnd(t, c, end)
    PROVE  ChainEnd(t, s, end)
<1>1. /\ Len(c) = Len(s) + 1 /\ Len(s) \in Nat /\ SubSeq(c, 1, Len(s)) = s
      /\ c \in Seq(Piece) /\ s \in Seq(Piece)
  BY Child DEF TrieOK, WellFormed
<1>2. end \in Kept(t) /\ end \in Seq(Piece) /\ Extends(end, c) /\ Len(end) \in Nat
  BY DEF ChainEnd, Kept, TrieOK, WellFormed
<1>3. ASSUME NEW d \in Seq(Piece), Extends(d, c)
      PROVE  Extends(d, s) /\ SubSeq(d, 1, Len(s)) = s
  <2>1. Len(c) \in 0 .. Len(d) /\ Len(s) \in 0 .. Len(c) /\ SubSeq(d, 1, Len(c)) = c
    BY <1>1, <1>3 DEF Extends
  <2>2. SubSeq(SubSeq(d, 1, Len(c)), 1, Len(s)) = SubSeq(d, 1, Len(s))
    BY <2>1, PrefixOf
  <2> QED
    BY <1>1, <2>1, <2>2 DEF Extends
<1>4. Extends(end, s) /\ SubSeq(end, 1, Len(s)) = s
  BY <1>2, <1>3
<1>5. ASSUME NEW j \in Len(s) .. Len(end) - 1 PROVE SubSeq(end, 1, j) \notin Kept(t)
  <2>1. CASE j = Len(s)
    <3>1. SubSeq(end, 1, j) = s
      BY <1>4, <2>1, Zenon
    <3> QED
      BY <3>1
  <2>2. CASE j # Len(s)
    <3>1. j \in Len(c) .. Len(end) - 1
      <4>1. j \in Int /\ Len(s) <= j /\ j <= Len(end) - 1
        <5>1. Len(s) \in Int /\ Len(end) - 1 \in Int
          BY <1>1, <1>2
        <5> QED
          BY <5>1
      <4>2. Len(c) <= j
        <5>1. Len(c) = Len(s) + 1 /\ Len(s) \in Nat
          BY <1>1
        <5> QED
          BY <2>2, <4>1, <5>1
      <4> QED
        BY <1>1, <4>1, <4>2
    <3> QED
      BY <3>1 DEF ChainEnd
  <2> QED
    BY <2>1, <2>2
<1>6. ASSUME NEW d \in Kept(t), Extends(d, s) PROVE Extends(d, end)
  <2>1. d \in DOMAIN t /\ d \in Seq(Piece) /\ Len(d) >= Len(s) /\ SubSeq(d, 1, Len(s)) = s
    BY <1>6 DEF Kept, TrieOK, WellFormed, Extends
  <2>2. Len(d) > Len(s)
    <3>1. Len(d) = Len(s) => d = s
      BY <2>1, Whole
    <3> QED
      BY <1>1, <2>1, <3>1
  <2>3. StepOf(d, s) \in Children(t, s)
    BY <2>1, <2>2, RouteStep
  <2>4. SubSeq(d, 1, Len(c)) = c
    BY <1>1, <2>3 DEF StepOf
  <2>5. Extends(d, c)
    BY <1>1, <2>1, <2>2, <2>4 DEF Extends
  <2> QED
    BY <2>5 DEF ChainEnd
<1> QED
  BY <1>2, <1>4, <1>5, <1>6 DEF ChainEnd

\* What search finds on a chain is what it finds at the end, if the path goes there.
ChainAnswers(t, parts, g, s, c) ==
    /\ ChainEnd(t, s, c)
    /\ Len(s) <= Len(parts) => g[s] = IF OnSpan(c, Len(s), parts) THEN g[c] ELSE Miss

\* Between two ends of a chain the path is compared with one part at a time.
LEMMA OnSpanBelow ==
    ASSUME NEW s \in Seq(Piece), NEW c \in Seq(Piece), NEW end \in Seq(Piece), NEW parts \in Seq(Piece),
           Len(c) = Len(s) + 1, Extends(end, c)
    PROVE  OnSpan(end, Len(s), parts) <=> OnSpan(end, Len(c), parts) /\ LastOf(c) = parts[Len(c)]
<1>1. /\ Len(s) \in Nat /\ Len(end) \in Nat /\ Len(c) \in Nat /\ Len(parts) \in Nat
      /\ Len(c) <= Len(end) /\ SubSeq(end, 1, Len(c)) = c
  BY DEF Extends
<1>2. LastOf(c) = end[Len(c)]
  <2>1. Len(c) \in 0 .. Len(end) /\ Len(c) \in 1 .. Len(c)
    BY <1>1
  <2>2. SubSeq(end, 1, Len(c))[Len(c)] = end[Len(c)]
    BY <2>1, PrefixOf
  <2> QED
    BY <1>1, <2>2 DEF LastOf
<1>3. Len(s) + 1 .. Len(end) = {Len(c)} \cup (Len(c) + 1 .. Len(end))
  <2>1. Len(c) = Len(s) + 1 /\ Len(s) \in Nat /\ Len(end) \in Nat /\ Len(c) <= Len(end)
    BY <1>1
  <2> QED
    BY <2>1
<1> QED
  BY <1>2, <1>3 DEF OnSpan

\* A static node that freezeRoot leaves out has one child, and search finds below it
\* what it finds at the end of the child's chain.
LEMMA ChainStep ==
    ASSUME NEW t, TrieOK(t), NEW match \in Seq(Piece), NEW raw, NEW g, Computes(g, t, match, raw),
           NEW s \in DOMAIN t, s \notin Kept(t),
           NEW c \in Children(t, s), IsStatic(c), \A d \in Children(t, s) : d = c,
           NEW end, ChainAnswers(t, Parts(match), g, c, end)
    PROVE  ChainAnswers(t, Parts(match), g, s, end)
<1> DEFINE parts == Parts(match)
           part  == parts[Len(s) + 1]
<1>1. /\ Len(c) = Len(s) + 1 /\ Len(s) \in Nat /\ c \in Seq(Piece) /\ s \in Seq(Piece)
      /\ c = Append(s, LastOf(c))
  <2>1. s \in Seq(Piece)
    BY DEF TrieOK, WellFormed
  <2> QED
    BY <2>1, Child
<1>2. ChainEnd(t, s, end)
  BY EndBelow DEF ChainAnswers
<1>3. /\ Extends(end, c) /\ end \in Seq(Piece)
      /\ Len(c) <= Len(parts) => g[c] = IF OnSpan(end, Len(c), parts) THEN g[end] ELSE Miss
  BY DEF ChainAnswers, ChainEnd, Kept, TrieOK, WellFormed
<1>4. parts \in Seq(Piece) /\ Len(parts) \in Nat
  BY PartsType
<1>5. /\ t[s] = NoRoute
      /\ ChildrenOf(t, s, "param") = {} /\ ChildrenOf(t, s, "wild") = {}
  BY InChain
<1>6. ViaWild(t, match, raw, s) = Miss
  BY <1>5 DEF ViaWild
<1>7. g[s] = SearchBelow(t, match, raw, g, s)
  BY DEF Computes
<1>8. OnSpan(end, Len(s), parts) <=> OnSpan(end, Len(c), parts) /\ LastOf(c) = part
  BY <1>1, <1>3, <1>4, OnSpanBelow
<1>9. CASE Len(s) = Len(parts)
  <2>1. g[s] = Miss
    BY <1>5, <1>6, <1>7, <1>9 DEF SearchBelow
  <2>2. ~OnSpan(end, Len(s), parts)
    <3>1. Len(end) \in Nat /\ Len(end) >= Len(c)
      BY <1>3 DEF Extends
    <3>2. ~(Len(end) <= Len(parts))
      <4>1. Len(c) = Len(s) + 1 /\ Len(s) \in Nat
        BY <1>1
      <4> QED
        BY <1>9, <3>1, <4>1
    <3> QED
      BY <3>2 DEF OnSpan
  <2> QED
    BY <1>2, <2>1, <2>2 DEF ChainAnswers
<1>10. CASE Len(s) < Len(parts)
  <2>1. g[s] = ViaStatic(t, match, g, s)
    <3>1. ResultOK(ViaStatic(t, match, g, s))
      <4>1. ResultOK(Miss)
        BY DEF ResultOK, IsResult, Miss
      <4>2. \A n \in DOMAIN t : ResultOK(g[n])
        BY ResultsBelow
      <4> QED
        BY <4>1, <4>2 DEF ViaStatic
    <3>2. g[s] = Branches(ViaStatic(t, match, g, s), FALSE,
                          Bound(ParamChild(t, s), Value(match, raw, Len(s))),
                          g[ParamChild(t, s)], Miss)
      <4>1. Len(s) # Len(Parts(match))
        BY <1>1, <1>4, <1>10
      <4> QED
        BY <1>5, <1>6, <1>7, <4>1 DEF SearchBelow
    <3> QED
      BY <3>1, <3>2, StaticOnly
  <2>2. Len(c) <= Len(parts)
    <3>1. Len(c) = Len(s) + 1 /\ Len(s) \in Nat
      BY <1>1
    <3> QED
      BY <1>4, <1>10, <3>1
  <2>3. CASE LastOf(c) = part
    <3>1. Append(s, part) = c /\ c \in DOMAIN t
      BY <1>1, <2>3, Child
    <3>2. g[s] = g[c]
      BY <2>1, <3>1 DEF ViaStatic
    <3> QED
      BY <1>2, <1>3, <1>8, <2>2, <2>3, <3>2 DEF ChainAnswers
  <2>4. CASE LastOf(c) # part
    <3>1. Append(s, part) \notin DOMAIN t
      <4>1. Len(s) + 1 \in 1 .. Len(parts)
        BY <1>1, <1>4, <1>10
      <4>2. part \in Piece
        BY <1>4, <4>1
      <4>3. /\ Len(Append(s, part)) = Len(s) + 1 /\ SubSeq(Append(s, part), 1, Len(s)) = s
            /\ LastOf(Append(s, part)) = part
        BY <1>1, <4>2 DEF LastOf
      <4>4. Append(s, part) \in DOMAIN t => Append(s, part) \in Children(t, s)
        BY <4>3 DEF Children
      <4> QED
        BY <2>4, <4>3, <4>4
    <3>2. g[s] = Miss
      BY <2>1, <3>1 DEF ViaStatic
    <3> QED
      BY <1>2, <1>8, <2>4, <3>2 DEF ChainAnswers
  <2> QED
    BY <2>3, <2>4
<1>11. CASE ~(Len(s) <= Len(parts))
  BY <1>2, <1>11 DEF ChainAnswers
<1>12. Len(s) = Len(parts) \/ Len(s) < Len(parts) \/ ~(Len(s) <= Len(parts))
  BY <1>1, <1>4
<1> QED
  BY <1>9, <1>10, <1>11, <1>12

\* So below every static node search finds what it finds at the end of the chain the
\* node is on, or nothing when the path leaves the chain.
LEMMA ChainEnds ==
    ASSUME NEW t, TrieOK(t), NEW match \in Seq(Piece), NEW raw, NEW g, Computes(g, t, match, raw)
    PROVE  \A s \in DOMAIN t : IsStatic(s) => \E c : ChainAnswers(t, Parts(match), g, s, c)
<1> DEFINE Q == {s \in DOMAIN t : IsStatic(s) => \E c : ChainAnswers(t, Parts(match), g, s, c)}
<1>1. ASSUME NEW s \in DOMAIN t, \A c \in DOMAIN t : Len(c) = Len(s) + 1 => c \in Q
      PROVE  s \in Q
  <2>1. CASE ~IsStatic(s)
    BY <2>1
  <2>2. CASE IsStatic(s) /\ s \in Kept(t)
    <3>1. ChainEnd(t, s, s)
      BY <2>2, EndHere
    <3>2. Len(s) <= Len(Parts(match)) => OnSpan(s, Len(s), Parts(match))
      <4>1. s \in Seq(Piece)
        BY DEF TrieOK, WellFormed
      <4>2. Len(s) \in Nat
        BY <4>1
      <4>3. Len(s) + 1 .. Len(s) = {}
        BY <4>2
      <4> QED
        BY <4>3 DEF OnSpan
    <3>3. ChainAnswers(t, Parts(match), g, s, s)
      BY <3>1, <3>2 DEF ChainAnswers
    <3> QED
      BY <3>3
  <2>3. CASE s \notin Kept(t)
    <3>1. PICK c \in Children(t, s) : IsStatic(c) /\ \A d \in Children(t, s) : d = c
      BY <2>3, InChain
    <3>2. c \in Q
      BY <1>1, <3>1, Child
    <3>3. PICK end : ChainAnswers(t, Parts(match), g, c, end)
      BY <3>1, <3>2
    <3>4. ChainAnswers(t, Parts(match), g, s, end)
      BY <2>3, <3>1, <3>3, ChainStep
    <3> QED
      BY <3>4
  <2> QED
    BY <2>1, <2>2, <2>3
<1>2. DOMAIN t \subseteq Q
  <2> HIDE DEF Q
  <2> QED
    BY <1>1, Downward
<1> QED
  BY <1>2

-----------------------------------------------------------------------------
(* Spans *)

\* No empty segment before the last: "//" does not occur inside the path.
NoGap(p) == \A i \in 1 .. Len(p) - 1 : p[i] # Empty

\* In such a path the parts are the first pieces.
LEMMA GaplessParts ==
    ASSUME NEW p \in Seq(Piece), NoGap(p)
    PROVE  \A h \in Nat : h < Len(Parts(p)) =>
              Index(p, h) = h + 1 /\ h + 1 \in 1 .. Len(p) /\ Parts(p)[h + 1] = p[h + 1]
<1> DEFINE N == Len(p)
<1>1. PICK f : ListsParts(f, p, Piece) /\ Parts(p) = f[N]
  BY PartsListed
<1>2. N \in Nat /\ f[0] = <<>> /\ \A n \in 0 .. N : f[n] \in Seq(Piece) /\ Len(f[n]) \in Nat
  BY <1>1 DEF ListsParts
<1>3. \A n \in 1 .. N : f[n] = IF p[n] = Empty THEN f[n - 1] ELSE Append(f[n - 1], p[n])
  BY <1>1 DEF ListsParts
<1>4. \A n \in 1 .. N : p[n] # Empty => Len(f[n]) = Len(f[n - 1]) + 1
  <2> SUFFICES ASSUME NEW n \in 1 .. N, p[n] # Empty PROVE Len(f[n]) = Len(f[n - 1]) + 1
    OBVIOUS
  <2>1. n - 1 \in 0 .. N
    <3>1. N \in Nat
      BY <1>2
    <3> QED
      BY <3>1
  <2>3. f[n] = Append(f[n - 1], p[n])
    BY <1>3
  <2>2. f[n - 1] \in Seq(Piece)
    BY <1>2, <2>1
  <2> QED
    BY <2>2, <2>3, OneLonger
<1>5. \A n \in 0 .. N - 1 : Len(f[n]) = n
  <2> DEFINE P == {n \in 0 .. N - 1 : Len(f[n]) = n}
  <2>1. CASE N = 0
    BY <2>1
  <2>2. CASE N # 0
    <3>1. N - 1 \in Nat
      BY <1>2, <2>2
    <3>2. 0 \in P
      <4>1. Len(f[0]) = 0
        BY <1>2
      <4> QED
        BY <3>1, <4>1
    <3>3. ASSUME NEW n \in 0 .. (N - 1) - 1, n \in P PROVE n + 1 \in P
      <4>1. n + 1 \in 0 .. N - 1 /\ n + 1 \in 1 .. N /\ n + 1 \in 1 .. N - 1 /\ (n + 1) - 1 = n
        BY <3>1
      <4>2. p[n + 1] # Empty
        BY <4>1 DEF NoGap
      <4>3. Len(f[n + 1]) = Len(f[n]) + 1
        BY <1>4, <4>1, <4>2
      <4> QED
        BY <3>3, <4>1, <4>3
    <3>4. 0 .. N - 1 \subseteq P
      <4> HIDE DEF P
      <4> QED
        BY <3>1, <3>2, <3>3, UpTo
    <3> QED
      BY <3>4
  <2> QED
    BY <2>1, <2>2
<1>6. ASSUME NEW i \in 1 .. N, p[i] # Empty PROVE Len(f[i]) = i
  <2>1. i - 1 \in 0 .. N - 1 /\ (i - 1) + 1 = i
    BY <1>2
  <2> QED
    BY <1>4, <1>5, <1>6, <2>1
<1> SUFFICES ASSUME NEW h \in Nat, h < Len(Parts(p))
             PROVE  Index(p, h) = h + 1 /\ h + 1 \in 1 .. N /\ Parts(p)[h + 1] = p[h + 1]
  OBVIOUS
<1>7. Index(p, h) \in 1 .. N /\ p[Index(p, h)] = Parts(p)[h + 1]
  BY PartAt
<1>8. Parts(p) \in Seq(Piece) /\ Len(Parts(p)) \in Nat
  BY PartsType
<1>9. \E i \in 1 .. Len(p) : p[i] # Empty /\ Len(Parts(SubSeq(p, 1, i))) = h + 1
  <2>1. h + 1 \in 1 .. N
    <3>1. Len(f[N]) <= N
      <4>1. CASE N = 0
        BY <1>2, <4>1
      <4>2. CASE N # 0 /\ p[N] = Empty
        <5>1. N \in 1 .. N /\ N - 1 \in 0 .. N - 1
          BY <1>2, <4>2
        <5>2. f[N] = f[N - 1] /\ Len(f[N - 1]) = N - 1
          BY <1>3, <1>5, <4>2, <5>1
        <5> QED
          BY <1>2, <5>2
      <4>3. CASE N # 0 /\ p[N] # Empty
        <5>1. N \in 1 .. N
          BY <1>2, <4>3
        <5> QED
          BY <1>2, <1>6, <4>3, <5>1
      <4> QED
        BY <4>1, <4>2, <4>3
    <3> QED
      BY <1>1, <1>2, <1>8, <3>1
  <2>2. p[h + 1] # Empty
    <3>1. CASE h + 1 \in 1 .. N - 1
      BY <3>1 DEF NoGap
    <3>2. CASE h + 1 = N
      <4>1. N \in 1 .. N /\ N - 1 \in 0 .. N - 1
        BY <2>1, <3>2
      <4>2. p[N] = Empty => Len(f[N]) = N - 1
        BY <1>3, <1>5, <4>1
      <4>3. h < Len(f[N]) /\ h = N - 1
        BY <1>1, <1>2, <3>2
      <4>4. N - 1 \in Int /\ ~(Len(f[N]) = N - 1)
        BY <1>2, <4>3
      <4>5. p[N] # Empty
        BY <4>2, <4>4
      <4> QED
        BY <3>2, <4>5, Zenon
    <3> QED
      BY <1>2, <2>1, <3>1, <3>2
  <2>3. Len(Parts(SubSeq(p, 1, h + 1))) = h + 1
    <3>1. h + 1 \in 0 .. Len(p)
      BY <2>1
    <3>2. Parts(SubSeq(p, 1, h + 1)) = f[h + 1]
      BY <1>1, <3>1, PartsOfPrefix
    <3> QED
      BY <1>6, <2>1, <2>2, <3>2
  <2> QED
    BY <2>1, <2>2, <2>3
<1>10. p[Index(p, h)] # Empty /\ Len(Parts(SubSeq(p, 1, Index(p, h)))) = h + 1
  <2>1. Index(p, h) = CHOOSE i \in 1 .. Len(p) :
                         p[i] # Empty /\ Len(Parts(SubSeq(p, 1, i))) = h + 1
    BY <1>8 DEF Index
  <2> QED
    BY <1>9, <2>1
<1>11. Index(p, h) = h + 1
  <2>1. Index(p, h) \in 0 .. Len(p)
    BY <1>2, <1>7
  <2>2. Parts(SubSeq(p, 1, Index(p, h))) = f[Index(p, h)]
    BY <1>1, <2>1, PartsOfPrefix
  <2> QED
    BY <1>6, <1>7, <1>10, <2>2
<1> QED
  BY <1>7, <1>11

\* Two paths agree on a range of pieces when they agree on each of them.
LEMMA SameRange ==
    ASSUME NEW a \in Seq(Piece), NEW b \in Seq(Piece), NEW m \in Nat, NEW n \in Nat,
           m < n, n <= Len(a), n <= Len(b)
    PROVE  SubSeq(a, m + 1, n) = SubSeq(b, m + 1, n) <=> \A i \in m + 1 .. n : a[i] = b[i]
<1> DEFINE u == SubSeq(a, m + 1, n)
           v == SubSeq(b, m + 1, n)
<1>1. \A i \in m + 1 .. n : a[i] \in Piece /\ b[i] \in Piece
  OBVIOUS
<1>2. m + 1 \in Int /\ n \in Int /\ m + 1 <= n /\ n - (m + 1) + 1 = n - m
  OBVIOUS
<1>3. u \in Seq(Piece) /\ Len(u) = n - (m + 1) + 1 /\ \A i \in 1 .. n - (m + 1) + 1 : u[i] = a[m + 1 + i - 1]
  BY <1>1, <1>2, SubSeqProperties
<1>4. v \in Seq(Piece) /\ Len(v) = n - (m + 1) + 1 /\ \A i \in 1 .. n - (m + 1) + 1 : v[i] = b[m + 1 + i - 1]
  BY <1>1, <1>2, SubSeqProperties
<1> HIDE DEF u, v
<1>5. Len(u) = n - m /\ \A i \in 1 .. n - m : u[i] = a[m + i]
  <2>1. \A i \in 1 .. n - m : m + 1 + i - 1 = m + i
    OBVIOUS
  <2> QED
    BY <1>2, <1>3, <2>1
<1>6. Len(v) = n - m /\ \A i \in 1 .. n - m : v[i] = b[m + i]
  <2>1. \A i \in 1 .. n - m : m + 1 + i - 1 = m + i
    OBVIOUS
  <2> QED
    BY <1>2, <1>4, <2>1
<1>7. \A i \in m + 1 .. n : i - m \in 1 .. n - m /\ m + (i - m) = i
  OBVIOUS
<1>8. \A i \in 1 .. n - m : m + i \in m + 1 .. n
  OBVIOUS
<1>9. ASSUME u = v, NEW i \in m + 1 .. n PROVE a[i] = b[i]
  <2>1. u[i - m] = a[i] /\ v[i - m] = b[i]
    BY <1>5, <1>6, <1>7
  <2> QED
    BY <1>9, <2>1
<1>10. ASSUME \A i \in m + 1 .. n : a[i] = b[i] PROVE u = v
  <2>1. \A i \in 1 .. n - m : u[i] = v[i]
    BY <1>5, <1>6, <1>8, <1>10
  <2>2. Len(u) = Len(v) /\ \A i \in 1 .. Len(u) : u[i] = v[i]
    BY <1>5, <1>6, <2>1
  <2>3. u \in Seq(Piece) /\ v \in Seq(Piece)
    BY <1>3, <1>4
  <2> QED
    BY <2>2, <2>3, SeqEqual
<1> QED
  BY <1>9, <1>10 DEF u, v

\* Along such a path a span is matched when its parts are.
LEMMA SpanOnWay ==
    ASSUME NEW match \in Seq(Piece), NoGap(match), NEW f, NEW c \in Seq(Piece),
           f[c].span \in 1 .. Len(c)
    PROVE  SpanMatches(f, c, match) <=> OnSpan(c, Len(c) - f[c].span, Parts(match))
<1> DEFINE from  == Len(c) - f[c].span
           parts == Parts(match)
           end   == Len(c)
<1>1. end \in Nat /\ from \in Nat /\ from < end
  BY DEF end
<1>2. parts \in Seq(Piece) /\ Len(parts) \in Nat /\ Len(match) \in Nat
  BY PartsType
<1>3. \A h \in Nat : h < Len(parts) =>
         Index(match, h) = h + 1 /\ h + 1 \in 1 .. Len(match) /\ parts[h + 1] = match[h + 1]
  BY GaplessParts
<1>4. SpanMatches(f, c, match) <=>
         /\ end <= Len(parts)
         /\ SubSeq(match, Index(match, from), Index(match, end - 1)) = SubSeq(c, from + 1, end)
  BY DEF SpanMatches
<1>5. OnSpan(c, from, parts) <=> end <= Len(parts) /\ \A i \in from + 1 .. end : c[i] = parts[i]
  BY DEF OnSpan
<1>6. end <= Len(c)
  BY <1>1
<1> HIDE DEF from, parts, end
<1>7. ASSUME end <= Len(parts)
      PROVE  SubSeq(match, Index(match, from), Index(match, end - 1)) = SubSeq(c, from + 1, end)
                <=> \A i \in from + 1 .. end : c[i] = parts[i]
  <2>1. /\ from < Len(parts) /\ end - 1 \in Nat /\ end - 1 < Len(parts) /\ (end - 1) + 1 = end
        /\ end \in from + 1 .. end
    BY <1>1, <1>2, <1>7
  <2>2. Index(match, from) = from + 1 /\ Index(match, end - 1) = end
    BY <1>1, <1>3, <2>1
  <2>3. \A i \in from + 1 .. end : i \in 1 .. Len(match) /\ match[i] = parts[i]
    <3> SUFFICES ASSUME NEW i \in from + 1 .. end
                 PROVE  i \in 1 .. Len(match) /\ match[i] = parts[i]
      OBVIOUS
    <3>1. i - 1 \in Nat /\ i - 1 < Len(parts) /\ (i - 1) + 1 = i
      BY <1>1, <1>2, <1>7
    <3> QED
      BY <1>3, <3>1
  <2>4. end <= Len(match)
    BY <1>1, <1>2, <2>1, <2>3
  <2>5. SubSeq(match, from + 1, end) = SubSeq(c, from + 1, end)
           <=> \A i \in from + 1 .. end : match[i] = c[i]
    BY <1>1, <1>6, <2>4, SameRange
  <2>6. (\A i \in from + 1 .. end : c[i] = parts[i]) <=> (\A i \in from + 1 .. end : match[i] = c[i])
    BY <2>3
  <2> QED
    BY <2>2, <2>5, <2>6
<1>8. SpanMatches(f, c, match) <=> OnSpan(c, from, parts)
  BY <1>4, <1>5, <1>7
<1> QED
  BY <1>8 DEF from, parts

-----------------------------------------------------------------------------
(* The recursion of the frozen search *)

\* The branches below a node, h being what the search computes below the others
SpanChild(f, match, n) == CHOOSE c \in SpanChildren(f, n, Parts(match)[Len(n) + 1]) : TRUE
ViaSpan(f, match, h, n) ==
    IF \E c \in SpanChildren(f, n, Parts(match)[Len(n) + 1]) : SpanMatches(f, c, match)
    THEN h[SpanChild(f, match, n)] ELSE Miss
FrozenWild(f, match, raw, n) ==
    IF ChildrenOf(f, n, "wild") = {} THEN Miss
    ELSE Hit(f[WildChild(f, n)].route, Bound(WildChild(f, n), Rest(match, raw, Len(n))))
FrozenBelow(f, match, raw, h, n) ==
    IF Len(n) = Len(Parts(match))
    THEN IF f[n].route # NoRoute THEN Hit(f[n].route, <<>>) ELSE FrozenWild(f, match, raw, n)
    ELSE Branches(ViaSpan(f, match, h, n),
                  ChildrenOf(f, n, "param") # {},
                  Bound(ParamChild(f, n), Value(match, raw, Len(n))),
                  h[ParamChild(f, n)],
                  FrozenWild(f, match, raw, n))

\* h is the function that the search of a frozen trie computes.
FrozenComputes(h, f, match, raw) == h = [n \in DOMAIN f |-> FrozenBelow(f, match, raw, h, n)]

\* FrozenSearch evaluates such a function when there is one.
LEMMA FrozenIsRecursive ==
    ASSUME NEW f, NEW match, NEW raw, \E h : FrozenComputes(h, f, match, raw)
    PROVE  \E h : FrozenComputes(h, f, match, raw) /\ FrozenSearch(f, match, raw) = h[<<>>]
<1> DEFINE below == CHOOSE h : h = [n \in DOMAIN f |-> FrozenBelow(f, match, raw, h, n)]
<1>1. below = [n \in DOMAIN f |-> FrozenBelow(f, match, raw, below, n)]
  BY DEF FrozenComputes
<1>2. FrozenSearch(f, match, raw) = below[<<>>]
  BY DEF FrozenSearch, FrozenBelow, ViaSpan, FrozenWild, SpanChild, ParamChild, WildChild
<1>3. FrozenComputes(below, f, match, raw)
  BY <1>1 DEF FrozenComputes
<1> HIDE DEF below
<1> QED
  BY <1>2, <1>3

\* The span of a static node ends there, that of another node is empty.
LEMMA SpanRange ==
    ASSUME NEW t, TrieOK(t), NEW n \in Kept(t)
    PROVE  /\ n \in Seq(Piece) /\ Len(n) \in Nat
           /\ IsStatic(n) => /\ freezeRoot(t)[n].span \in 1 .. Len(n)
                             /\ Len(n) - freezeRoot(t)[n].span = Start(t, n)
           /\ ~IsStatic(n) => freezeRoot(t)[n].span = 0
<1>1. n \in DOMAIN t /\ n \in Seq(Piece) /\ Len(n) \in Nat
  BY DEF Kept, TrieOK, WellFormed
<1>2. freezeRoot(t)[n].span = IF IsStatic(n) THEN Len(n) - Start(t, n) ELSE 0
  BY FrozenNodes
<1>3. ASSUME IsStatic(n)
      PROVE  /\ freezeRoot(t)[n].span \in 1 .. Len(n)
             /\ Len(n) - freezeRoot(t)[n].span = Start(t, n)
  <2>1. Len(n) > 0
    BY <1>1, <1>3 DEF IsStatic
  <2>2. StartOf(t, n, Start(t, n))
    BY <1>1, <2>1, StartFound
  <2>3. Start(t, n) \in 0 .. Len(n) - 1
    BY <2>2 DEF StartOf
  <2>4. freezeRoot(t)[n].span = Len(n) - Start(t, n)
    BY <1>2, <1>3
  <2> HIDE DEF Start
  <2> QED
    BY <1>1, <2>3, <2>4
<1> QED
  BY <1>1, <1>2, <1>3

\* The nodes that start below a node are the kept static nodes that go on with the part.
LEMMA SpanChildIs ==
    ASSUME NEW t, TrieOK(t), NEW n \in Kept(t), NEW part, NEW c
    PROVE  c \in SpanChildren(freezeRoot(t), n, part)
              <=> /\ c \in Kept(t) /\ IsStatic(c) /\ Start(t, c) = Len(n)
                  /\ SubSeq(c, 1, Len(n)) = n /\ c[Len(n) + 1] = part
<1>1. DOMAIN freezeRoot(t) = Kept(t)
  BY FrozenNodes
<1>2. ASSUME c \in Kept(t)
      PROVE  /\ freezeRoot(t)[c].span > 0 <=> IsStatic(c)
             /\ IsStatic(c) => Len(c) - freezeRoot(t)[c].span = Start(t, c)
  <2>1. /\ IsStatic(c) => /\ freezeRoot(t)[c].span \in 1 .. Len(c)
                          /\ Len(c) - freezeRoot(t)[c].span = Start(t, c)
        /\ ~IsStatic(c) => freezeRoot(t)[c].span = 0
        /\ Len(c) \in Nat
    BY <1>2, SpanRange
  <2> DEFINE span == freezeRoot(t)[c].span
  <2>2. IsStatic(c) => span \in Int /\ span > 0
    BY <2>1
  <2>3. ~IsStatic(c) => ~(span > 0)
    BY <2>1
  <2> QED
    BY <2>1, <2>2, <2>3
<1> QED
  BY <1>1, <1>2 DEF SpanChildren

\* The search of a frozen trie depends on longer nodes only.
LEMMA FrozenLocal ==
    ASSUME NEW t, TrieOK(t), NEW match, NEW raw, NEW g, NEW h, NEW n \in Kept(t),
           \A c \in Kept(t) : Len(c) > Len(n) => g[c] = h[c]
    PROVE  FrozenBelow(freezeRoot(t), match, raw, g, n) = FrozenBelow(freezeRoot(t), match, raw, h, n)
<1> DEFINE f == freezeRoot(t)
           part == Parts(match)[Len(n) + 1]
<1>1. n \in Seq(Piece) /\ Len(n) \in Nat /\ DOMAIN f = Kept(t)
  BY FrozenNodes, SpanRange
<1>2. \A c \in SpanChildren(f, n, part) : g[c] = h[c]
  <2> SUFFICES ASSUME NEW c \in SpanChildren(f, n, part) PROVE g[c] = h[c]
    OBVIOUS
  <2>1. c \in Kept(t) /\ IsStatic(c) /\ Start(t, c) = Len(n)
    BY SpanChildIs
  <2>2. c \in DOMAIN t /\ Len(c) \in Nat
    BY <2>1 DEF Kept, TrieOK, WellFormed
  <2>3. Len(c) > 0
    BY <2>1, <2>2, SpanRange DEF IsStatic
  <2>4. StartOf(t, c, Start(t, c))
    BY <2>2, <2>3, StartFound
  <2>5. Len(n) \in 0 .. Len(c) - 1
    BY <2>1, <2>4 DEF StartOf
  <2>6. Len(c) > Len(n)
    BY <2>2, <2>5
  <2> QED
    BY <2>1, <2>6
<1>3. ViaSpan(f, match, g, n) = ViaSpan(f, match, h, n)
  <2>1. CASE \E c \in SpanChildren(f, n, part) : SpanMatches(f, c, match)
    <3>1. SpanChild(f, match, n) \in SpanChildren(f, n, part)
      BY <2>1 DEF SpanChild
    <3> QED
      BY <1>2, <3>1 DEF ViaSpan
  <2>2. CASE ~\E c \in SpanChildren(f, n, part) : SpanMatches(f, c, match)
    BY <2>2 DEF ViaSpan
  <2> QED
    BY <2>1, <2>2
<1>4. ChildrenOf(f, n, "param") # {} => g[ParamChild(f, n)] = h[ParamChild(f, n)]
  <2>1. ChildrenOf(f, n, "param") # {} => ParamChild(f, n) \in ChildrenOf(f, n, "param")
    BY DEF ParamChild
  <2>2. \A c \in ChildrenOf(f, n, "param") : c \in Kept(t) /\ Len(c) > Len(n)
    BY <1>1 DEF ChildrenOf, Children
  <2> QED
    BY <2>1, <2>2
<1>5. CASE ChildrenOf(f, n, "param") # {}
  BY <1>3, <1>4, <1>5 DEF FrozenBelow
<1>6. CASE ChildrenOf(f, n, "param") = {}
  BY <1>3, <1>6 DEF FrozenBelow, Branches
<1> QED
  BY <1>5, <1>6

\* Where a node is in order when all longer nodes are, all nodes are.
LEMMA DownwardAll ==
    ASSUME NEW t, TrieOK(t), NEW Q,
           \A n \in DOMAIN t : (\A c \in DOMAIN t : Len(c) > Len(n) => c \in Q) => n \in Q
    PROVE  DOMAIN t \subseteq Q
<1> DEFINE R == {n \in DOMAIN t : \A d \in DOMAIN t : Len(d) >= Len(n) => d \in Q}
<1>1. \A n \in DOMAIN t : n \in Seq(Piece) /\ Len(n) \in Nat
  BY DEF TrieOK, WellFormed
<1>2. ASSUME NEW n \in DOMAIN t, \A c \in DOMAIN t : Len(c) = Len(n) + 1 => c \in R
      PROVE  n \in R
  <2>1. ASSUME NEW d \in DOMAIN t, Len(d) > Len(n) PROVE d \in Q
    <3> DEFINE c == SubSeq(d, 1, Len(n) + 1)
    <3>1. Len(n) + 1 \in 0 .. Len(d)
      <4>1. Len(d) \in Nat /\ Len(n) \in Nat
        BY <1>1
      <4> QED
        BY <2>1, <4>1
    <3>2. c \in DOMAIN t
      BY <3>1 DEF TrieOK, WellFormed
    <3>3. Len(c) = Len(n) + 1
      BY <1>1, <3>1, PrefixOf
    <3> HIDE DEF c
    <3>4. c \in R
      BY <1>2, <3>2, <3>3
    <3>5. Len(d) >= Len(c)
      <4>1. Len(d) \in Nat /\ Len(n) \in Nat
        BY <1>1
      <4> QED
        BY <2>1, <3>3, <4>1
    <3> QED
      BY <3>4, <3>5
  <2>2. ASSUME NEW d \in DOMAIN t, Len(d) >= Len(n) PROVE d \in Q
    <3>1. \A c \in DOMAIN t : Len(c) > Len(d) => c \in Q
      <4>1. ASSUME NEW c \in DOMAIN t, Len(c) > Len(d) PROVE Len(c) > Len(n)
        <5>1. Len(c) \in Nat /\ Len(d) \in Nat /\ Len(n) \in Nat
          BY <1>1
        <5> QED
          BY <2>2, <4>1, <5>1
      <4> QED
        BY <2>1, <4>1
    <3> QED
      BY <3>1
  <2> QED
    BY <2>2
<1>3. DOMAIN t \subseteq R
  <2> HIDE DEF R
  <2> QED
    BY <1>2, Downward
<1>4. \A n \in DOMAIN t : Len(n) >= Len(n)
  BY <1>1
<1> QED
  BY <1>3, <1>4

\* There is a function that computes every kept node from longer ones: the search of a
\* frozen trie ends.
LEMMA FrozenDefined ==
    ASSUME NEW t, TrieOK(t), NEW match, NEW raw
    PROVE  LET f == freezeRoot(t)
           IN  \E h : FrozenComputes(h, f, match, raw) /\ FrozenSearch(f, match, raw) = h[<<>>]
<1> DEFINE fz == freezeRoot(t)
<1>1. PICK depth \in Nat : \A n \in DOMAIN t : Len(n) <= depth
  BY DEF TrieOK, WellFormed
<1>2. \A n \in Kept(t) : n \in DOMAIN t /\ Len(n) \in Nat
  BY SpanRange DEF Kept
<1>0. DOMAIN fz = Kept(t)
  BY FrozenNodes
<1> DEFINE Good(f, k) == \A n \in Kept(t) :
                            Len(n) + k > depth => f[n] = FrozenBelow(fz, match, raw, f, n)
           P == {k \in 0 .. depth + 1 : \E f : Good(f, k)}
<1>3. \A k \in 0 .. depth + 1 : k \in P <=> \E f : Good(f, k)
  <2> HIDE DEF Good
  <2> QED
    OBVIOUS
<1> HIDE DEF P, fz
<1>4. 0 \in P
  <2>1. Good(<<>>, 0)
    BY <1>1, <1>2
  <2> HIDE DEF Good
  <2> QED
    BY <2>1, <1>3
<1>5. ASSUME NEW k \in 0 .. depth, k \in P PROVE k + 1 \in P
  <2>1. PICK f : Good(f, k)
    <3> HIDE DEF Good
    <3> QED
      BY <1>5, <1>3
  <2> DEFINE g == [n \in Kept(t) |-> FrozenBelow(fz, match, raw, f, n)]
  <2>2. Good(g, k + 1)
    <3> SUFFICES ASSUME NEW n \in Kept(t), Len(n) + (k + 1) > depth
                 PROVE  g[n] = FrozenBelow(fz, match, raw, g, n)
      OBVIOUS
    <3>1. ASSUME NEW c \in Kept(t), Len(c) > Len(n) PROVE f[c] = g[c]
      <4>1. Len(c) + k > depth
        BY <3>1, <1>2
      <4> QED
        BY <4>1, <2>1
    <3>2. FrozenBelow(fz, match, raw, f, n) = FrozenBelow(fz, match, raw, g, n)
      <4> HIDE DEF g
      <4> QED
        BY <3>1, FrozenLocal DEF fz
    <3> QED
      BY <3>2
  <2> HIDE DEF Good, g
  <2> QED
    BY <2>2, <1>3
<1>6. depth + 1 \in P
  <2>1. 0 .. depth + 1 \subseteq P
    <3> HIDE DEF Good
    <3> QED
      BY <1>4, <1>5, UpTo
  <2> QED
    BY <2>1
<1>7. PICK f : Good(f, depth + 1)
  <2> HIDE DEF Good
  <2> QED
    BY <1>6, <1>3
<1> DEFINE h == [n \in Kept(t) |-> f[n]]
<1>8. ASSUME NEW n \in Kept(t) PROVE h[n] = FrozenBelow(fz, match, raw, h, n)
  <2>1. f[n] = FrozenBelow(fz, match, raw, f, n)
    BY <1>1, <1>2, <1>7
  <2>2. \A c \in Kept(t) : f[c] = h[c]
    OBVIOUS
  <2>3. FrozenBelow(fz, match, raw, f, n) = FrozenBelow(fz, match, raw, h, n)
    <3> HIDE DEF h
    <3> QED
      BY <2>2, FrozenLocal DEF fz
  <2> QED
    BY <2>1, <2>3
<1>9. FrozenComputes(h, fz, match, raw)
  <2>1. h = [n \in Kept(t) |-> h[n]]
    OBVIOUS
  <2> HIDE DEF h
  <2> QED
    BY <1>0, <1>8, <2>1 DEF FrozenComputes
<1> HIDE DEF h
<1>10. \E g : FrozenComputes(g, fz, match, raw) /\ FrozenSearch(fz, match, raw) = g[<<>>]
  BY <1>9, FrozenIsRecursive
<1> QED
  BY <1>10 DEF fz

-----------------------------------------------------------------------------
(* The frozen search finds what search finds *)

\* The node below n for a part, when there is one
LEMMA SpanStart ==
    ASSUME NEW t, TrieOK(t), NEW n \in Kept(t), NEW part \in Piece, NEW d \in Kept(t),
           SubSeq(d, 1, Len(n)) = n, Len(d) > Len(n), d[Len(n) + 1] = part
    PROVE  Append(n, part) \in DOMAIN t /\ Extends(d, Append(n, part))
<1>1. /\ d \in Seq(Piece) /\ Len(d) \in Nat /\ d \in DOMAIN t
      /\ n \in Seq(Piece) /\ Len(n) \in Nat
  BY SpanRange DEF Kept
<1>2. Len(n) + 1 \in 0 .. Len(d) /\ Len(n) \in 0 .. Len(d) /\ Len(n) \in 0 .. Len(n) + 1
  BY <1>1
<1> DEFINE c == SubSeq(d, 1, Len(n) + 1)
<1>3. c \in Seq(Piece) /\ Len(c) = Len(n) + 1 /\ \A i \in 1 .. Len(n) + 1 : c[i] = d[i]
  BY <1>1, <1>2, PrefixOf
<1>4. c \in DOMAIN t
  BY <1>1, <1>2 DEF TrieOK, WellFormed
<1>5. \A i \in 1 .. Len(n) : n[i] = d[i]
  BY <1>1, <1>2, PrefixOf
<1> HIDE DEF c
<1>6. Append(n, part) \in Seq(Piece) /\ Len(Append(n, part)) = Len(n) + 1
      /\ \A i \in 1 .. Len(n) + 1 : Append(n, part)[i] = IF i = Len(n) + 1 THEN part ELSE n[i]
  BY <1>1
<1>7. \A i \in 1 .. Len(n) + 1 : i # Len(n) + 1 => i \in 1 .. Len(n)
  BY <1>1
<1>8. \A i \in 1 .. Len(c) : c[i] = Append(n, part)[i]
  BY <1>3, <1>5, <1>6, <1>7
<1>9. c = Append(n, part)
  BY <1>3, <1>6, <1>8, SeqEqual
<1>10. Len(d) >= Len(Append(n, part))
  BY <1>1, <1>6
<1> QED
  BY <1>4, <1>6, <1>9, <1>10 DEF Extends, c

\* It is the end of the chain that begins with that part.
LEMMA SpanChildFound ==
    ASSUME NEW t, TrieOK(t), NEW n \in Kept(t), NEW part \in Piece,
           Append(n, part) \in DOMAIN t, NEW c, ChainEnd(t, Append(n, part), c)
    PROVE  /\ SpanChildren(freezeRoot(t), n, part) = {c}
           /\ c \in Kept(t) /\ Len(c) - freezeRoot(t)[c].span = Len(n)
           /\ freezeRoot(t)[c].span \in 1 .. Len(c)
           /\ Len(c) > Len(n) /\ c[Len(n) + 1] = part
<1> DEFINE s == Append(n, part)
<1>1. /\ c \in Kept(t) /\ IsStatic(c) /\ c \in Seq(Piece) /\ Len(c) \in Nat /\ c \in DOMAIN t
      /\ n \in Seq(Piece) /\ Len(n) \in Nat
  BY SpanRange DEF ChainEnd, Kept
<1>2. /\ s \in Seq(Piece) /\ Len(s) = Len(n) + 1 /\ SubSeq(s, 1, Len(n)) = n /\ s[Len(n) + 1] = part
  BY <1>1
<1>3. /\ Len(c) >= Len(s) /\ SubSeq(c, 1, Len(s)) = s
      /\ \A j \in Len(s) .. Len(c) - 1 : SubSeq(c, 1, j) \notin Kept(t)
      /\ \A d \in Kept(t) : Extends(d, s) => Extends(d, c)
  BY DEF ChainEnd, Extends
<1> HIDE DEF s
<1>4. Len(c) > Len(n) /\ Len(s) \in 0 .. Len(c) /\ Len(n) \in 0 .. Len(s) /\ Len(n) + 1 \in 1 .. Len(s)
  BY <1>1, <1>2, <1>3
<1>5. SubSeq(c, 1, Len(n)) = n
  <2>1. SubSeq(SubSeq(c, 1, Len(s)), 1, Len(n)) = SubSeq(c, 1, Len(n))
    BY <1>1, <1>4, PrefixOf
  <2> QED
    BY <1>2, <1>3, <2>1
<1>6. c[Len(n) + 1] = part
  <2>1. SubSeq(c, 1, Len(s))[Len(n) + 1] = c[Len(n) + 1]
    BY <1>1, <1>4, PrefixOf
  <2> QED
    BY <1>2, <1>3, <2>1
<1>7. Start(t, c) = Len(n)
  <2>1. Len(n) \in 0 .. Len(c) - 1
    BY <1>1, <1>4
  <2>2. \A j \in Len(n) + 1 .. Len(c) - 1 : SubSeq(c, 1, j) \notin Kept(t)
    BY <1>2, <1>3
  <2>3. StartOf(t, c, Len(n))
    BY <1>5, <2>1, <2>2 DEF StartOf
  <2>4. Len(c) > 0
    BY <1>1, <1>4
  <2> QED
    BY <1>1, <2>3, <2>4, StartFound
<1>8. c \in SpanChildren(freezeRoot(t), n, part)
  BY <1>1, <1>5, <1>6, <1>7, SpanChildIs
<1>9. ASSUME NEW d \in SpanChildren(freezeRoot(t), n, part) PROVE d = c
  <2>1. /\ d \in Kept(t) /\ IsStatic(d) /\ Start(t, d) = Len(n)
        /\ SubSeq(d, 1, Len(n)) = n /\ d[Len(n) + 1] = part
    BY SpanChildIs
  <2>2. d \in DOMAIN t /\ d \in Seq(Piece) /\ Len(d) \in Nat
    BY <2>1, SpanRange DEF Kept
  <2>3. Len(d) > 0
    BY <2>1, <2>2 DEF IsStatic
  <2>4. StartOf(t, d, Len(n))
    BY <2>1, <2>2, <2>3, StartFound
  <2>5. Len(n) \in 0 .. Len(d) - 1 /\ \A j \in Len(n) + 1 .. Len(d) - 1 : SubSeq(d, 1, j) \notin Kept(t)
    BY <2>4 DEF StartOf
  <2>6. Len(d) > Len(n)
    BY <1>1, <2>2, <2>5
  <2>7. Extends(d, s)
    BY <2>1, <2>6, SpanStart DEF s
  <2>8. Len(d) >= Len(c) /\ SubSeq(d, 1, Len(c)) = c
    BY <1>3, <2>1, <2>7 DEF Extends
  <2>9. ~(Len(c) \in Len(n) + 1 .. Len(d) - 1)
    BY <1>1, <2>5, <2>8
  <2>10. Len(d) = Len(c)
    BY <1>1, <1>4, <2>2, <2>8, <2>9
  <2> QED
    BY <2>2, <2>8, <2>10, Whole
<1>10. Len(c) - freezeRoot(t)[c].span = Len(n) /\ freezeRoot(t)[c].span \in 1 .. Len(c)
  BY <1>1, <1>7, SpanRange
<1> QED
  BY <1>1, <1>4, <1>6, <1>8, <1>9, <1>10

\* When no node begins with the part, no span does.
LEMMA NoSpanChild ==
    ASSUME NEW t, TrieOK(t), NEW n \in Kept(t), NEW part \in Piece, Append(n, part) \notin DOMAIN t
    PROVE  SpanChildren(freezeRoot(t), n, part) = {}
<1> SUFFICES ASSUME NEW d \in SpanChildren(freezeRoot(t), n, part) PROVE FALSE
  OBVIOUS
<1>1. /\ d \in Kept(t) /\ IsStatic(d) /\ Start(t, d) = Len(n)
      /\ SubSeq(d, 1, Len(n)) = n /\ d[Len(n) + 1] = part
  BY SpanChildIs
<1>2. d \in DOMAIN t /\ d \in Seq(Piece) /\ Len(d) \in Nat /\ Len(n) \in Nat
  BY <1>1, SpanRange DEF Kept
<1>3. Len(d) > 0
  BY <1>1, <1>2 DEF IsStatic
<1>4. Len(n) \in 0 .. Len(d) - 1
  BY <1>1, <1>2, <1>3, StartFound DEF StartOf
<1>5. Len(d) > Len(n)
  BY <1>2, <1>4
<1> QED
  BY <1>1, <1>5, SpanStart

\* Parameters and wildcards are all kept.
LEMMA FrozenChildren ==
    ASSUME NEW t, NEW n, NEW kind \in {"param", "wild"}
    PROVE  ChildrenOf(freezeRoot(t), n, kind) = ChildrenOf(t, n, kind)
<1>1. DOMAIN freezeRoot(t) = Kept(t)
  BY FrozenNodes
<1>2. \A c : c \in Kept(t) => c \in DOMAIN t
  BY DEF Kept
<1>3. \A c \in DOMAIN t : Kind(LastOf(c)) = kind => c \in Kept(t)
  BY DEF Kept, IsStatic
<1> QED
  BY <1>1, <1>2, <1>3 DEF ChildrenOf, Children

\* Wildcards get what they get in the trie.
LEMMA FrozenWilds ==
    ASSUME NEW t, NEW match, NEW raw, NEW n
    PROVE  FrozenWild(freezeRoot(t), match, raw, n) = ViaWild(t, match, raw, n)
<1>1. ChildrenOf(freezeRoot(t), n, "wild") = ChildrenOf(t, n, "wild")
  BY FrozenChildren
<1>2. WildChild(freezeRoot(t), n) = WildChild(t, n)
  BY <1>1 DEF WildChild
<1>3. CASE ChildrenOf(t, n, "wild") = {}
  BY <1>1, <1>3 DEF FrozenWild, ViaWild
<1>4. CASE ChildrenOf(t, n, "wild") # {}
  <2>1. WildChild(t, n) \in ChildrenOf(t, n, "wild")
    BY <1>4 DEF WildChild
  <2>2. WildChild(t, n) \in Kept(t)
    BY <2>1 DEF ChildrenOf, Children, Kept, IsStatic
  <2>3. freezeRoot(t)[WildChild(t, n)].route = t[WildChild(t, n)]
    BY <2>2, FrozenNodes
  <2> QED
    BY <1>1, <1>2, <1>4, <2>3 DEF FrozenWild, ViaWild
<1> QED
  BY <1>3, <1>4

\* What the frozen search has computed below n is what search computes there.
SameBelow(t, parts, g, h, n) ==
    \A c \in Kept(t) : Len(c) > Len(n) /\ Len(c) <= Len(parts) => h[c] = g[c]

\* A span finds what its chain of static nodes does.
LEMMA SpanFinds ==
    ASSUME NEW t, TrieOK(t), NEW match \in Seq(Piece), NoGap(match),
           Parts(match) \in RequestParts, NEW raw,
           NEW g, Computes(g, t, match, raw), NEW h,
           NEW n \in Kept(t), Len(n) < Len(Parts(match)), SameBelow(t, Parts(match), g, h, n)
    PROVE  ViaSpan(freezeRoot(t), match, h, n) = ViaStatic(t, match, g, n)
<1> DEFINE f     == freezeRoot(t)
           parts == Parts(match)
           part  == parts[Len(n) + 1]
           s     == Append(n, part)
<1>1. n \in Seq(Piece) /\ Len(n) \in Nat /\ parts \in Seq(Piece) /\ Len(parts) \in Nat
  BY SpanRange, PartsType
<1>2. part \in {"static"} \X STRING
  <2>1. Len(n) + 1 \in 1 .. Len(parts)
    BY <1>1
  <2> QED
    BY <2>1 DEF RequestParts
<1>3. part \in Piece /\ Kind(part) = "static"
  BY <1>2 DEF Piece, Kind
<1> HIDE DEF part
<1>4. s \in Seq(Piece) /\ Len(s) = Len(n) + 1 /\ LastOf(s) = part /\ s # <<>>
  <2>1. n \in Seq(Piece) /\ part \in Piece
    BY <1>1, <1>3
  <2> QED
    BY <2>1 DEF LastOf
<1>5. CASE s \notin DOMAIN t
  <2>1. SpanChildren(f, n, part) = {}
    BY <1>3, <1>5, NoSpanChild
  <2> QED
    BY <1>5, <2>1 DEF ViaSpan, ViaStatic, part
<1>6. CASE s \in DOMAIN t
  <2>1. IsStatic(s)
    BY <1>3, <1>4 DEF IsStatic
  <2>2. PICK c : ChainAnswers(t, parts, g, s, c)
    BY <1>6, <2>1, ChainEnds
  <2> HIDE DEF s, parts
  <2>3. ChainEnd(t, s, c) /\ (Len(s) <= Len(parts) => g[s] = IF OnSpan(c, Len(s), parts) THEN g[c] ELSE Miss)
    BY <2>2 DEF ChainAnswers
  <2>4. /\ SpanChildren(f, n, part) = {c}
        /\ c \in Kept(t) /\ Len(c) - f[c].span = Len(n) /\ f[c].span \in 1 .. Len(c)
        /\ Len(c) > Len(n) /\ c[Len(n) + 1] = part
    <3>1. Append(n, part) \in DOMAIN t /\ ChainEnd(t, Append(n, part), c)
      BY <1>6, <2>3 DEF s
    <3> QED
      BY <1>3, <3>1, SpanChildFound
  <2>5. c \in Seq(Piece) /\ Len(c) \in Nat
    BY <2>4, SpanRange
  <2> HIDE DEF f
  <2>6. SpanMatches(f, c, match) <=> OnSpan(c, Len(n), parts)
    BY <2>4, <2>5, SpanOnWay DEF parts
  <2>7. OnSpan(c, Len(n), parts) <=> OnSpan(c, Len(s), parts)
    <3>1. \A i \in Len(n) + 1 .. Len(c) : i = Len(n) + 1 \/ i \in Len(s) + 1 .. Len(c)
      BY <1>1, <1>4, <2>5
    <3>2. \A i \in Len(s) + 1 .. Len(c) : i \in Len(n) + 1 .. Len(c)
      BY <1>1, <1>4, <2>5
    <3>3. c[Len(n) + 1] = parts[Len(n) + 1]
      BY <2>4 DEF part, parts
    <3> QED
      BY <3>1, <3>2, <3>3 DEF OnSpan
  <2>8. ViaStatic(t, match, g, n) = g[s]
    BY <1>6 DEF ViaStatic, s, part, parts
  <2>9. ViaSpan(f, match, h, n) = IF SpanMatches(f, c, match) THEN h[c] ELSE Miss
    <3>1. SpanChild(f, match, n) = c
      BY <2>4 DEF SpanChild, part, parts
    <3>2. (\E d \in SpanChildren(f, n, part) : SpanMatches(f, d, match)) <=> SpanMatches(f, c, match)
      BY <2>4
    <3> QED
      BY <3>1, <3>2 DEF ViaSpan, part, parts
  <2>10. Len(s) <= Len(parts)
    BY <1>1, <1>4 DEF parts
  <2>11. CASE OnSpan(c, Len(n), parts)
    <3>1. Len(c) <= Len(parts)
      BY <2>11 DEF OnSpan
    <3>2. h[c] = g[c]
      BY <2>4, <3>1 DEF SameBelow, parts
    <3> QED
      BY <2>3, <2>6, <2>7, <2>8, <2>9, <2>10, <2>11, <3>2 DEF f
  <2>12. CASE ~OnSpan(c, Len(n), parts)
    BY <2>3, <2>6, <2>7, <2>8, <2>9, <2>10, <2>12 DEF f
  <2> QED
    BY <2>11, <2>12
<1> QED
  BY <1>5, <1>6

\* One step of the frozen search computes what a step of search does.
LEMMA FrozenStep ==
    ASSUME NEW t, TrieOK(t), NEW match \in Seq(Piece), NoGap(match),
           Parts(match) \in RequestParts, NEW raw,
           NEW g, Computes(g, t, match, raw), NEW h, FrozenComputes(h, freezeRoot(t), match, raw),
           NEW n \in Kept(t), Len(n) <= Len(Parts(match)), SameBelow(t, Parts(match), g, h, n)
    PROVE  h[n] = g[n]
<1> DEFINE f     == freezeRoot(t)
           parts == Parts(match)
<1>1. n \in Seq(Piece) /\ Len(n) \in Nat /\ Len(parts) \in Nat /\ n \in DOMAIN t
  BY SpanRange, PartsType DEF Kept
<1>2. DOMAIN f = Kept(t) /\ f[n].route = t[n]
  BY FrozenNodes
<1>3. h[n] = FrozenBelow(f, match, raw, h, n)
  BY <1>2 DEF FrozenComputes
<1>4. g[n] = SearchBelow(t, match, raw, g, n)
  BY <1>1 DEF Computes
<1>5. FrozenWild(f, match, raw, n) = ViaWild(t, match, raw, n)
  BY FrozenWilds
<1>6. ChildrenOf(f, n, "param") = ChildrenOf(t, n, "param")
  BY FrozenChildren
<1>7. ParamChild(f, n) = ParamChild(t, n)
  BY <1>6 DEF ParamChild
<1>8. CASE Len(n) = Len(parts)
  BY <1>2, <1>3, <1>4, <1>5, <1>8 DEF FrozenBelow, SearchBelow
<1>9. CASE Len(n) # Len(parts)
  <2>1. Len(n) < Len(parts)
    BY <1>1, <1>9
  <2>2. ViaSpan(f, match, h, n) = ViaStatic(t, match, g, n)
    BY <2>1, SpanFinds
  <2>3. ChildrenOf(t, n, "param") # {} => h[ParamChild(t, n)] = g[ParamChild(t, n)]
    <3>1. ChildrenOf(t, n, "param") # {} => ParamChild(t, n) \in ChildrenOf(t, n, "param")
      BY DEF ParamChild
    <3>2. \A c \in ChildrenOf(t, n, "param") : c \in Kept(t) /\ Len(c) = Len(n) + 1
      BY DEF ChildrenOf, Children, Kept, IsStatic
    <3>3. \A c \in ChildrenOf(t, n, "param") : Len(c) > Len(n) /\ Len(c) <= Len(parts)
      BY <1>1, <2>1, <3>2
    <3> QED
      BY <3>1, <3>2, <3>3 DEF SameBelow
  <2> DEFINE bound == Bound(ParamChild(t, n), Value(match, raw, Len(n)))
  <2>4. h[n] = Branches(ViaStatic(t, match, g, n), ChildrenOf(t, n, "param") # {}, bound,
                        h[ParamChild(t, n)], ViaWild(t, match, raw, n))
    BY <1>3, <1>5, <1>6, <1>7, <1>9, <2>2 DEF FrozenBelow
  <2>5. g[n] = Branches(ViaStatic(t, match, g, n), ChildrenOf(t, n, "param") # {}, bound,
                        g[ParamChild(t, n)], ViaWild(t, match, raw, n))
    BY <1>4, <1>9 DEF SearchBelow
  <2> HIDE DEF bound
  <2>6. CASE ChildrenOf(t, n, "param") # {}
    BY <2>3, <2>4, <2>5, <2>6
  <2>7. CASE ChildrenOf(t, n, "param") = {}
    BY <2>4, <2>5, <2>7 DEF Branches
  <2> QED
    BY <2>6, <2>7
<1> QED
  BY <1>8, <1>9

\* So the two searches have the same result.
LEMMA FrozenFinds ==
    ASSUME NEW t, TrieOK(t), NEW match \in Seq(Piece), NoGap(match),
           Parts(match) \in RequestParts, NEW raw
    PROVE  FrozenSearch(freezeRoot(t), match, raw) = Search(t, match, raw)
<1> DEFINE parts == Parts(match)
<1>1. PICK g : Computes(g, t, match, raw) /\ Search(t, match, raw) = g[<<>>]
  BY SearchDefined
<1>2. PICK h : /\ FrozenComputes(h, freezeRoot(t), match, raw)
               /\ FrozenSearch(freezeRoot(t), match, raw) = h[<<>>]
  BY FrozenDefined
<1> DEFINE Q == {n \in DOMAIN t : n \in Kept(t) /\ Len(n) <= Len(parts) => h[n] = g[n]}
<1>3. ASSUME NEW n \in DOMAIN t, \A c \in DOMAIN t : Len(c) > Len(n) => c \in Q
      PROVE  n \in Q
  <2> SUFFICES ASSUME n \in Kept(t), Len(n) <= Len(parts) PROVE h[n] = g[n]
    OBVIOUS
  <2>1. \A c \in Kept(t) : c \in DOMAIN t
    BY DEF Kept
  <2>2. SameBelow(t, parts, g, h, n)
    BY <1>3, <2>1 DEF SameBelow
  <2> QED
    BY <1>1, <1>2, <2>2, FrozenStep
<1>4. DOMAIN t \subseteq Q
  <2> HIDE DEF Q
  <2> QED
    BY <1>3, DownwardAll
<1>5. <<>> \in DOMAIN t /\ <<>> \in Kept(t)
  BY DEF TrieOK, WellFormed, Kept, IsStatic
<1>6. Len(<<>>) <= Len(parts)
  <2>1. Len(parts) \in Nat
    BY PartsType
  <2> QED
    BY <2>1
<1>7. h[<<>>] = g[<<>>]
  BY <1>4, <1>5, <1>6
<1> QED
  BY <1>1, <1>2, <1>7

-----------------------------------------------------------------------------
(* Frozen tables *)

\* What freezeTable makes of a table.
LEMMA FrozenFields ==
    ASSUME NEW t, t = Table(t.roots, t.static, t.staticAllow, t.hasParams, t.hasTrailing)
    PROVE  /\ SameFields(t, freezeTable(t))
           /\ DOMAIN freezeTable(t).roots = DOMAIN t.roots
           /\ \A m \in DOMAIN t.roots : freezeTable(t).roots[m] = freezeRoot(t.roots[m])
<1> DEFINE ice == [m \in DOMAIN t.roots |-> freezeRoot(t.roots[m])]
<1>1. freezeTable(t) = [t EXCEPT !.roots = ice]
  BY DEF freezeTable
<1> HIDE DEF ice
<1>2. freezeTable(t) = Table(ice, t.static, t.staticAllow, t.hasParams, t.hasTrailing)
  BY <1>1 DEF Table
<1>3. /\ freezeTable(t).roots = ice /\ freezeTable(t).static = t.static
      /\ freezeTable(t).staticAllow = t.staticAllow /\ freezeTable(t).hasParams = t.hasParams
      /\ freezeTable(t).hasTrailing = t.hasTrailing
  BY <1>2 DEF Table
<1> QED
  BY <1>3 DEF SameFields, ice

\* The path of a request has no empty segment inside.
Gapless(path) == path \in RequestPath /\ NoGap(path)

\* Neither has its other slash form,
LEMMA GaplessAlternate ==
    ASSUME NEW p, Gapless(p)
    PROVE  Gapless(Alternate(p))
<1>1. p \in RequestPath /\ p \in Seq(Piece) /\ Len(p) \in Nat
  BY DEF Gapless, RequestPath, Piece
<1>2. Alternate(p) \in RequestPath
  BY <1>1, OtherForm, SameAlternate
<1>3. ASSUME NEW i \in 1 .. Len(Alternate(p)) - 1 PROVE Alternate(p)[i] # Empty
  <2>1. CASE LastOf(p) = Empty
    <3>1. Alternate(p) = SubSeq(p, 1, Len(p) - 1)
      BY <2>1 DEF Alternate, FrontOf
    <3>2. CASE Len(p) = 0
      <4>1. Len(SubSeq(p, 1, Len(p) - 1)) = 0
        BY <3>2
      <4>2. Len(Alternate(p)) = 0
        BY <3>1, <4>1
      <4> QED
        BY <4>2
    <3>3. CASE Len(p) # 0
      <4>1. Len(p) - 1 \in 0 .. Len(p)
        BY <1>1, <3>3
      <4>2. Len(Alternate(p)) = Len(p) - 1 /\ \A j \in 1 .. Len(p) - 1 : Alternate(p)[j] = p[j]
        BY <1>1, <3>1, <4>1, PrefixOf
      <4>3. i \in 1 .. Len(p) - 1
        BY <1>1, <1>3, <4>2
      <4> QED
        BY <4>2, <4>3 DEF Gapless, NoGap
    <3> QED
      BY <3>2, <3>3
  <2>2. CASE LastOf(p) # Empty
    <3>1. Alternate(p) = Append(p, Empty)
      BY <2>2 DEF Alternate
    <3>2. Len(Alternate(p)) = Len(p) + 1 /\ \A j \in 1 .. Len(p) : Alternate(p)[j] = p[j]
      <4>1. Empty \in Piece
        BY EmptyAssumption
      <4> QED
        BY <1>1, <3>1, <4>1
    <3>3. i \in 1 .. Len(p) /\ (i # Len(p) => i \in 1 .. Len(p) - 1)
      BY <1>1, <1>3, <3>2
    <3> QED
      BY <2>2, <3>2, <3>3 DEF Gapless, NoGap, LastOf
  <2> QED
    BY <2>1, <2>2
<1> QED
  BY <1>2, <1>3 DEF Gapless, NoGap

\* nor the path it is matched as.
LEMMA GaplessMatch ==
    ASSUME NEW p, Gapless(p), NEW b \in BOOLEAN
    PROVE  Gapless(Live!MatchOf(p, b))
<1>1. p \in RequestPath /\ p \in Seq(Piece)
  BY DEF Gapless, RequestPath, Piece
<1>2. Live!MatchOf(p, b) \in RequestPath
  BY <1>1, RequestMatch
<1>3. Live!MatchOf(p, b) = IF b THEN LowerPath(p) ELSE p
  <2>1. LowerPath(p) = Live!LowerPath(p)
    BY DEF LowerPath, Live!LowerPath, LowerPiece, Live!LowerPiece, Kind, Live!Kind,
           Text, Live!Text, Static, Live!Static
  <2> QED
    BY <2>1 DEF Live!MatchOf
<1>4. NoGap(LowerPath(p))
  <2>1. Len(LowerPath(p)) = Len(p) /\ \A i \in 1 .. Len(p) : LowerPath(p)[i] = LowerPiece(p[i])
    BY <1>1, LowerPathType
  <2>2. \A i \in 1 .. Len(p) - 1 : i \in 1 .. Len(p) /\ p[i] \in Piece /\ p[i] # Empty
    BY <1>1 DEF Gapless, NoGap
  <2>3. \A i \in 1 .. Len(p) - 1 : LowerPiece(p[i]) # Empty
    BY <2>2, LowerType
  <2> QED
    BY <2>1, <2>2, <2>3 DEF NoGap
<1> QED
  BY <1>2, <1>3, <1>4 DEF Gapless

\* The searches of two tables find the same.
SearchedAlike(t, u) ==
    /\ SameFields(t, u)
    /\ \A m \in t.hasParams : \A match, raw :
          Gapless(match) => FrozenSearch(u.roots[m], match, raw) = Search(t.roots[m], match, raw)

\* Those of a table and its frozen copy do.
LEMMA FrozenAlike ==
    ASSUME NEW t, NEW routes, TableOK(t, routes)
    PROVE  SearchedAlike(t, freezeTable(t))
<1>1. /\ SameFields(t, freezeTable(t))
      /\ DOMAIN freezeTable(t).roots = DOMAIN t.roots
      /\ \A m \in DOMAIN t.roots : freezeTable(t).roots[m] = freezeRoot(t.roots[m])
  <2>1. t = Table(t.roots, t.static, t.staticAllow, t.hasParams, t.hasTrailing)
    BY DEF TableOK
  <2> QED
    BY <2>1, FrozenFields
<1>2. ASSUME NEW m \in t.hasParams, NEW match, NEW raw, Gapless(match)
      PROVE  FrozenSearch(freezeTable(t).roots[m], match, raw) = Search(t.roots[m], match, raw)
  <2>1. m \in DOMAIN t.roots /\ TrieOK(t.roots[m])
    BY DEF TableOK, RootOK
  <2>2. match \in Seq(Piece) /\ NoGap(match) /\ match \in RequestPath
    BY <1>2 DEF Gapless, RequestPath, Piece
  <2>3. Parts(match) \in RequestParts
    BY <2>2, PartsType DEF RequestPath, RequestParts
  <2>4. FrozenSearch(freezeRoot(t.roots[m]), match, raw) = Search(t.roots[m], match, raw)
    BY <2>1, <2>2, <2>3, FrozenFinds
  <2> QED
    BY <1>1, <2>1, <2>4
<1> QED
  BY <1>1, <1>2 DEF SearchedAlike

-----------------------------------------------------------------------------
(* Answers *)

\* The operators of the two instances of Serve that do not search are the same.
LEMMA IceIsLive ==
    /\ \A p : Ice!Parts(p) = Live!Parts(p)
    /\ \A p : Ice!Alternate(p) = Live!Alternate(p)
    /\ \A t, p : Ice!NoSlashRoute(t, p) <=> Live!NoSlashRoute(t, p)
    /\ \A p : Ice!HasAlternate(p) <=> Live!HasAlternate(p)
    /\ \A methods : Ice!AllowHeader(methods) = Live!AllowHeader(methods)
    /\ \A static, p : Ice!StaticMethods(static, p) = Live!StaticMethods(static, p)
    /\ \A req, allow : Ice!NotAllowed(req, allow) = Live!NotAllowed(req, allow)
    /\ \A p, b : Ice!MatchOf(p, b) = Live!MatchOf(p, b)
    /\ \A p : Ice!CleanPath(p) = Live!CleanPath(p)
<1>1. \A p : Ice!Parts(p) = Live!Parts(p)
  BY DEF Ice!Parts, Live!Parts, Ice!Empty, Live!Empty, Ice!Static, Live!Static
<1>2. \A p : Ice!Alternate(p) = Live!Alternate(p)
  BY DEF Ice!Alternate, Live!Alternate, Ice!LastOf, Live!LastOf, Ice!FrontOf, Live!FrontOf,
         Ice!Empty, Live!Empty, Ice!Static, Live!Static
<1>3. \A t, p : Ice!NoSlashRoute(t, p) <=> Live!NoSlashRoute(t, p)
  BY DEF Ice!NoSlashRoute, Live!NoSlashRoute, Ice!LastOf, Live!LastOf, Ice!Root, Live!Root,
         Ice!Empty, Live!Empty, Ice!Static, Live!Static
<1>4. \A p : Ice!HasAlternate(p) <=> Live!HasAlternate(p)
  BY DEF Ice!HasAlternate, Live!HasAlternate, Ice!Root, Live!Root,
         Ice!Empty, Live!Empty, Ice!Static, Live!Static
<1>5. \A methods : Ice!AllowHeader(methods) = Live!AllowHeader(methods)
  BY DEF Ice!AllowHeader, Live!AllowHeader
<1>6. \A static, p : Ice!StaticMethods(static, p) = Live!StaticMethods(static, p)
  BY DEF Ice!StaticMethods, Live!StaticMethods
<1>7. \A req, allow : Ice!NotAllowed(req, allow) = Live!NotAllowed(req, allow)
  BY DEF Ice!NotAllowed, Live!NotAllowed
<1>8. \A p, b : Ice!MatchOf(p, b) = Live!MatchOf(p, b)
  BY DEF Ice!MatchOf, Live!MatchOf, Ice!LowerPath, Live!LowerPath, Ice!LowerPiece, Live!LowerPiece,
         Ice!Kind, Live!Kind, Ice!Text, Live!Text, Ice!Static, Live!Static
<1>9. \A p : Ice!CleanPath(p) = Live!CleanPath(p)
  <2>1. \A p : Ice!Resolved(p) = Live!Resolved(p)
    BY DEF Ice!Resolved, Live!Resolved, Ice!Empty, Live!Empty, Ice!Dot, Live!Dot, Ice!Up, Live!Up,
           Ice!Static, Live!Static, Ice!FrontOf, Live!FrontOf
  <2> QED
    BY <2>1, Zenon DEF Ice!CleanPath, Live!CleanPath, Ice!Root, Live!Root, Ice!LastOf, Live!LastOf,
           Ice!Empty, Live!Empty, Ice!Static, Live!Static
<1> QED
  BY <1>1, <1>2, <1>3, <1>4, <1>5, <1>6, <1>7, <1>8, <1>9

\* A method answers for a frozen table as for the table.
LEMMA IceServes ==
    ASSUME NEW t, NEW u, SearchedAlike(t, u), NEW method, NEW match, Gapless(match), NEW raw
    PROVE  Ice!serveMethodInTable(u, method, match, raw) = Live!serveMethodInTable(t, method, match, raw)
<1>1. Ice!Parts(match) = Live!Parts(match)
  BY IceIsLive
<1>2. u.static = t.static /\ u.hasParams = t.hasParams
  BY DEF SearchedAlike, SameFields
<1>3. CASE method \in t.hasParams
  <2>1. FrozenSearch(u.roots[method], match, raw) = Search(t.roots[method], match, raw)
    BY <1>3 DEF SearchedAlike
  <2> QED
    BY <1>1, <1>2, <2>1 DEF Ice!serveMethodInTable, Live!serveMethodInTable,
       Ice!Served, Live!Served, Ice!NotFound, Live!NotFound
<1>4. CASE method \notin t.hasParams
  BY <1>1, <1>2, <1>4 DEF Ice!serveMethodInTable, Live!serveMethodInTable,
     Ice!Served, Live!Served, Ice!NotFound, Live!NotFound
<1> QED
  BY <1>3, <1>4

\* So does any method, HEAD included,
LEMMA IceServesAny ==
    ASSUME NEW t, NEW u, SearchedAlike(t, u), NEW method, NEW match, Gapless(match), NEW raw
    PROVE  Ice!serveInTable(u, method, match, raw) = Live!serveInTable(t, method, match, raw)
<1>1. \A m : Ice!serveMethodInTable(u, m, match, raw) = Live!serveMethodInTable(t, m, match, raw)
  BY IceServes
<1> QED
  BY <1>1 DEF Ice!serveInTable, Live!serveInTable, Ice!Otherwise, Live!Otherwise, Ice!NotFound, Live!NotFound

\* and the Allow header has the same methods.
LEMMA IceAllows ==
    ASSUME NEW t, NEW u, SearchedAlike(t, u), NEW match, Gapless(match)
    PROVE  Ice!allowedMethodsInTable(u, match) = Live!allowedMethodsInTable(t, match)
<1>1. SameFields(t, u)
  BY DEF SearchedAlike
<1>2. {m \in u.hasParams : FrozenSearch(u.roots[m], match, match).found # {}}
         = {m \in t.hasParams : Search(t.roots[m], match, match).found # {}}
  BY <1>1 DEF SameFields, SearchedAlike
<1>3. /\ Ice!Parts(match) = Live!Parts(match)
      /\ \A methods : Ice!AllowHeader(methods) = Live!AllowHeader(methods)
      /\ \A static : Ice!StaticMethods(static, match) = Live!StaticMethods(static, match)
  BY IceIsLive
<1> QED
  BY <1>1, <1>2, <1>3 DEF SameFields, Ice!allowedMethodsInTable, Live!allowedMethodsInTable,
     Ice!AnyParams, Live!AnyParams

\* A frozen table answers as the table.
LEMMA IceAnswers ==
    ASSUME NEW t, NEW u, SearchedAlike(t, u), NEW req, NEW match, Gapless(match), NEW raw
    PROVE  Ice!AnswerOf(u, req, match, raw) = Live!AnswerOf(t, req, match, raw)
<1>1. Gapless(Live!Alternate(match))
  BY GaplessAlternate, SameAlternate
<1>2. \A a : Gapless(a) =>
         /\ \A m, b : Ice!serveInTable(u, m, a, b) = Live!serveInTable(t, m, a, b)
         /\ Ice!allowedMethodsInTable(u, a) = Live!allowedMethodsInTable(t, a)
  BY IceServesAny, IceAllows
<1>3. /\ \A p : Ice!Alternate(p) = Live!Alternate(p)
      /\ Ice!NoSlashRoute(t, match) <=> Live!NoSlashRoute(t, match)
      /\ Ice!HasAlternate(match) <=> Live!HasAlternate(match)
      /\ \A r, allow : Ice!NotAllowed(r, allow) = Live!NotAllowed(r, allow)
  BY IceIsLive
<1>4. Ice!NoSlashRoute(u, match) <=> Ice!NoSlashRoute(t, match)
  BY DEF SearchedAlike, SameFields, Ice!NoSlashRoute
<1>5. Ice!NotFound = Live!NotFound /\ \A p : Ice!RedirectTo(p) = Live!RedirectTo(p)
  BY DEF Ice!NotFound, Live!NotFound, Ice!RedirectTo, Live!RedirectTo
<1>6. Ice!serveInTable(u, req.method, match, raw) = Live!serveInTable(t, req.method, match, raw)
  BY <1>2
<1> DEFINE other == Live!Alternate(match)
<1>7. /\ Ice!serveInTable(u, req.method, other, Live!Alternate(raw))
            = Live!serveInTable(t, req.method, other, Live!Alternate(raw))
      /\ Ice!allowedMethodsInTable(u, other) = Live!allowedMethodsInTable(t, other)
      /\ Ice!allowedMethodsInTable(u, match) = Live!allowedMethodsInTable(t, match)
  BY <1>1, <1>2
<1>8. Ice!Alternate(match) = other /\ Ice!Alternate(raw) = Live!Alternate(raw)
  BY <1>3
<1> HIDE DEF other
<1>9. Ice!tryAlternateSlashInTable(u, req, match, raw) = Live!tryAlternateSlashInTable(t, req, match, raw)
  BY <1>3, <1>4, <1>5, <1>7, <1>8
     DEF Ice!tryAlternateSlashInTable, Live!tryAlternateSlashInTable, other
<1>10. Ice!handleMethodNotAllowedInTable(u, req, match) = Live!handleMethodNotAllowedInTable(t, req, match)
  BY <1>3, <1>4, <1>5, <1>7, <1>8
     DEF Ice!handleMethodNotAllowedInTable, Live!handleMethodNotAllowedInTable, other
<1> QED
  BY <1>5, <1>6, <1>9, <1>10 DEF Ice!AnswerOf, Live!AnswerOf, Ice!Otherwise, Live!Otherwise

\* The tables of a frozen router
FrozenTables(old) == [host \in DOMAIN old |-> freezeTable(old[host])]

\* A frozen router answers as the tables it was made from.
LEMMA IceResolves ==
    ASSUME NEW old, NoHost \in DOMAIN old, \A host \in DOMAIN old : SearchedAlike(old[host], freezeTable(old[host])),
           NEW b \in BOOLEAN, NEW req, Gapless(req.path) \/ ~Live!Clean(req)
    PROVE  Ice!Resolve(FrozenTables(old), b, req) = Live!Resolve(old, b, req)
<1>1. /\ Ice!UsesRaw(req) <=> Live!UsesRaw(req)
      /\ Ice!CleanPath(req.path) = Live!CleanPath(req.path)
      /\ Ice!MatchOf(req.path, b) = Live!MatchOf(req.path, b)
  BY IceIsLive DEF Ice!UsesRaw, Live!UsesRaw
<1>2. Ice!Clean(req) <=> Live!Clean(req)
  BY <1>1 DEF Ice!Clean, Live!Clean
<1>3. Ice!NotFound = Live!NotFound /\ \A p : Ice!RedirectTo(p) = Live!RedirectTo(p)
  BY DEF Ice!NotFound, Live!NotFound, Ice!RedirectTo, Live!RedirectTo
<1>4. CASE ~Live!Clean(req)
  BY <1>1, <1>2, <1>3, <1>4 DEF Ice!Resolve, Live!Resolve
<1>5. CASE Live!Clean(req)
  <2> DEFINE match == Live!MatchOf(req.path, b)
             ice   == FrozenTables(old)
  <2>1. Gapless(match)
    BY <1>5, GaplessMatch
  <2> HIDE DEF match
  <2>2. DOMAIN ice = DOMAIN old /\ \A host \in DOMAIN old : ice[host] = freezeTable(old[host])
    BY DEF FrozenTables
  <2> HIDE DEF ice
  <2>3. \A host \in DOMAIN old :
           Ice!AnswerOf(ice[host], req, match, req.path) = Live!AnswerOf(old[host], req, match, req.path)
    BY <2>1, <2>2, IceAnswers
  <2>4. Ice!MatchOf(req.path, b) = match
    BY <1>1 DEF match
  <2>5. Ice!Resolve(ice, b, req)
          = Ice!Otherwise(IF req.host = NoHost \/ req.host \notin DOMAIN ice THEN Ice!NotFound
                          ELSE Ice!AnswerOf(ice[req.host], req, match, req.path),
                          Ice!AnswerOf(ice[NoHost], req, match, req.path))
    BY <1>2, <1>5, <2>4 DEF Ice!Resolve
  <2>6. Live!Resolve(old, b, req)
          = Live!Otherwise(IF req.host = NoHost \/ req.host \notin DOMAIN old THEN Live!NotFound
                           ELSE Live!AnswerOf(old[req.host], req, match, req.path),
                           Live!AnswerOf(old[NoHost], req, match, req.path))
    BY <1>5 DEF Live!Resolve, match
  <2>7. \A x, y : Ice!Otherwise(x, y) = Live!Otherwise(x, y)
    BY <1>3 DEF Ice!Otherwise, Live!Otherwise
  <2>8. Ice!Resolve(ice, b, req) = Live!Resolve(old, b, req)
    BY <1>3, <2>2, <2>3, <2>5, <2>6, <2>7
  <2> QED
    BY <2>8 DEF ice
<1> QED
  BY <1>4, <1>5

-----------------------------------------------------------------------------
(* A frozen router and the tables it was made from *)

\* The route is served by its own request from these tables.
ServesOwn(ts, b, route) ==
    LET answer == Live!Resolve(ts, b, RequestFor(route))
    IN  answer.kind = "served" /\ answer.handler = route.handler

AtHost(routes, host) == {route \in routes : route.host = host}

\* The answers of these tables are those of the router.
AnswerIn(b, req) == Live!Resolve(tables, b, req)
AnswersAlike(ts) == \A b \in BOOLEAN : \A req : AnswerIn(b, req) = Live!Resolve(ts, b, req)

\* fr was made from the tables old, whose answers are still the router's unless a
\* route was accepted since.
FrozenFrom(fr, old) ==
    /\ fr.tables = FrozenTables(old) /\ fr.ignoreCase \in BOOLEAN /\ fr.routes \subseteq accepted
    /\ NoHost \in DOMAIN old /\ \A host \in DOMAIN old : TableOK(old[host], AtHost(fr.routes, host))
    /\ \A route \in fr.routes : ServesOwn(old, fr.ignoreCase, route)
    /\ fr.routes = accepted => AnswersAlike(old)

FrozenInv == \A fr \in frozen : \E old : FrozenFrom(fr, old)

\* Answers depend on the variable setup, not on the others.
LEMMA ResolveNext ==
    ASSUME setup' = setup, NEW ts, NEW b, NEW req
    PROVE  Live!Resolve(ts, b, req)' = Live!Resolve(ts, b, req)
<1>1. \A t, match : Live!AnswerOf(t, req, match, req.path)' = Live!AnswerOf(t, req, match, req.path)
  BY TableAnswerNext
<1>2. Live!Clean(req)' = Live!Clean(req)
  BY DEF Live!Clean, Live!UsesRaw
<1> QED
  BY <1>1, <1>2 DEF Live!Resolve

\* Those of the router depend on its tables, too.
LEMMA AnswerInNext ==
    ASSUME setup' = setup, NEW b, NEW req
    PROVE  AnswerIn(b, req)' = Live!Resolve(tables', b, req)
<1>1. \A t, match : Live!AnswerOf(t, req, match, req.path)' = Live!AnswerOf(t, req, match, req.path)
  BY TableAnswerNext
<1>2. Live!Clean(req)' = Live!Clean(req)
  BY DEF Live!Clean, Live!UsesRaw
<1> QED
  BY <1>1, <1>2 DEF AnswerIn, Live!Resolve

\* A step changes no answer.
SameAnswers == \A b \in BOOLEAN : \A req : Live!Resolve(tables', b, req) = Live!Resolve(tables, b, req)

\* A step of the router takes no route away, and changes answers by accepting one only.
LEMMA StepAnswers ==
    ASSUME RouterInv, [Next]_vars
    PROVE  /\ setup' = setup /\ accepted \subseteq accepted'
           /\ accepted' = accepted => SameAnswers
<1>1. ASSUME NEW offer \in setup.offers, Handle(offer[1], offer[2], offer[3])
      PROVE  /\ setup' = setup /\ accepted \subseteq accepted'
             /\ accepted' = accepted => SameAnswers
  <2>1. PICK route : Registers(route)
    BY <1>1, RegisterMade DEF Handle
  <2>2. setup' = setup /\ accepted \subseteq accepted'
    BY <2>1 DEF Registers
  <2>3. accepted' = accepted => SameAnswers
    BY <2>1, FailedAnswer DEF SameAnswers
  <2> QED
    BY <2>2, <2>3
<1>2. ASSUME setup' = setup, tables' = tables, accepted' = accepted
      PROVE  /\ setup' = setup /\ accepted \subseteq accepted'
             /\ accepted' = accepted => SameAnswers
  BY <1>2 DEF SameAnswers
<1> QED
  BY <1>1, <1>2 DEF Next, HandleNilMiddleware, HandleRejected, SetIgnoreCase, vars

\* What was true of a frozen router stays true.
LEMMA FromKept ==
    ASSUME NEW fr, NEW old, FrozenFrom(fr, old), setup' = setup, accepted \subseteq accepted',
           accepted' = accepted => SameAnswers
    PROVE  FrozenFrom(fr, old)'
<1>1. /\ fr.tables = FrozenTables(old) /\ fr.ignoreCase \in BOOLEAN /\ fr.routes \subseteq accepted'
      /\ NoHost \in DOMAIN old
  BY DEF FrozenFrom
<1>2. \A host \in DOMAIN old : TableOK(old[host], AtHost(fr.routes, host))'
  <2>1. ASSUME NEW t, NEW routes, TableOK(t, routes) PROVE TableOK(t, routes)'
    BY <2>1 DEF TableOK, CacheOK, buildStaticAllowHeader
  <2> QED
    BY <2>1 DEF FrozenFrom
<1>3. \A route \in fr.routes : ServesOwn(old, fr.ignoreCase, route)'
  <2> SUFFICES ASSUME NEW route \in fr.routes PROVE ServesOwn(old, fr.ignoreCase, route)'
    OBVIOUS
  <2>1. ServesOwn(old, fr.ignoreCase, route)
    BY DEF FrozenFrom
  <2>2. Live!Resolve(old, fr.ignoreCase, RequestFor(route))' = Live!Resolve(old, fr.ignoreCase, RequestFor(route))
    BY ResolveNext
  <2> QED
    BY <2>1, <2>2 DEF ServesOwn
<1>4. ASSUME fr.routes = accepted' PROVE AnswersAlike(old)'
  <2>1. accepted' = accepted /\ AnswersAlike(old)
    BY <1>1, <1>4 DEF FrozenFrom
  <2> SUFFICES ASSUME NEW b \in BOOLEAN, NEW req
               PROVE  AnswerIn(b, req)' = Live!Resolve(old, b, req)'
    BY DEF AnswersAlike
  <2>2. Live!Resolve(tables', b, req) = Live!Resolve(tables, b, req)
    BY <2>1 DEF SameAnswers
  <2>3. Live!Resolve(tables, b, req) = Live!Resolve(old, b, req)
    BY <2>1 DEF AnswersAlike, AnswerIn
  <2>4. AnswerIn(b, req)' = Live!Resolve(tables', b, req)
    BY AnswerInNext
  <2>5. Live!Resolve(old, b, req)' = Live!Resolve(old, b, req)
    BY ResolveNext
  <2> QED
    BY <2>2, <2>3, <2>4, <2>5
<1> QED
  BY <1>1, <1>2, <1>3, <1>4 DEF FrozenFrom

\* The frozen router that Freeze makes is as its tables are.
LEMMA FromFreeze ==
    ASSUME RouterInv, NEW fr, NEW ts, ts = tables,
           fr = [tables |-> FrozenTables(ts), ignoreCase |-> IgnoreCaseActive, routes |-> accepted]
    PROVE  FrozenFrom(fr, ts)
<1>1. fr.tables = FrozenTables(ts) /\ fr.ignoreCase = IgnoreCaseActive /\ fr.routes = accepted
  OBVIOUS
<1>2. IgnoreCaseActive \in BOOLEAN
  BY DEF RouterInv, SetupOK, AcceptedOK, IgnoreCaseActive
<1>3. NoHost \in DOMAIN ts /\ \A host \in DOMAIN ts : TableOK(ts[host], AtHost(fr.routes, host))
  BY <1>1 DEF RouterInv, TablesOK, OfHost, AtHost
<1>4. ASSUME NEW route \in accepted PROVE ServesOwn(ts, IgnoreCaseActive, route)
  <2>1. Answer(RequestFor(route)).kind = "served" /\ Answer(RequestFor(route)).handler = route.handler
    BY RoutesReached DEF AcceptedIsReachable
  <2>2. Answer(RequestFor(route)) = Live!Resolve(ts, IgnoreCaseActive, RequestFor(route))
    BY DEF Answer
  <2> QED
    BY <2>1, <2>2 DEF ServesOwn
<1>5. AnswersAlike(ts)
  BY DEF AnswersAlike, AnswerIn
<1> QED
  BY <1>1, <1>2, <1>3, <1>4, <1>5 DEF FrozenFrom

\* Every frozen router is as the tables it was made from, whatever is registered
\* after.
LEMMA FrozenKept ==
    ASSUME RouterInv, FrozenInv, [FrozenNext]_frozenVars
    PROVE  FrozenInv'
<1>1. ASSUME [Next]_vars, frozen' = frozen PROVE FrozenInv'
  <2> SUFFICES ASSUME NEW fr \in frozen' PROVE \E old : FrozenFrom(fr, old)'
    BY DEF FrozenInv
  <2>1. PICK old : FrozenFrom(fr, old)
    BY <1>1 DEF FrozenInv
  <2>2. setup' = setup /\ accepted \subseteq accepted' /\ (accepted' = accepted => SameAnswers)
    BY <1>1, StepAnswers
  <2>3. FrozenFrom(fr, old)'
    BY <2>1, <2>2, FromKept
  <2> QED
    BY <2>3
<1>2. ASSUME Freeze PROVE FrozenInv'
  <2> SUFFICES ASSUME NEW fr \in frozen' PROVE \E old : FrozenFrom(fr, old)'
    BY DEF FrozenInv
  <2>1. PICK ts : ts = tables
    OBVIOUS
  <2>2. fr = [tables |-> FrozenTables(ts), ignoreCase |-> IgnoreCaseActive, routes |-> accepted]
    BY <1>2, <2>1 DEF Freeze, FrozenTables
  <2>3. FrozenFrom(fr, ts)
    BY <2>1, <2>2, FromFreeze
  <2>4. setup' = setup /\ accepted \subseteq accepted' /\ (accepted' = accepted => SameAnswers)
    BY <1>2 DEF Freeze, vars, SameAnswers
  <2>5. FrozenFrom(fr, ts)'
    BY <2>3, <2>4, FromKept
  <2> QED
    BY <2>5
<1>3. [FrozenNext]_frozenVars => Freeze \/ ([Next]_vars /\ frozen' = frozen)
  BY DEF FrozenNext, frozenVars
<1> QED
  BY <1>1, <1>2, <1>3

\* So it is in every state.
LEMMA FrozenAlways == FrozenSpec => []FrozenInv
<1>1. FrozenInit => FrozenInv
  BY DEF FrozenInit, FrozenInv
<1>2. RouterInv /\ FrozenInv /\ [FrozenNext]_frozenVars => FrozenInv'
  BY FrozenKept
<1> QED
  BY <1>1, <1>2, FrozenInductive, PTL DEF FrozenSpec

-----------------------------------------------------------------------------
(* Parity *)

\* A path without an empty segment, or one that is redirected, is answered by a
\* frozen router as by the tables it was made from.
LEMMA FromAnswers ==
    ASSUME NEW fr, NEW old, FrozenFrom(fr, old), NEW req, Gapless(req.path) \/ ~Live!Clean(req)
    PROVE  FrozenAnswer(fr, req) = Live!Resolve(old, fr.ignoreCase, req)
<1>1. \A host \in DOMAIN old : SearchedAlike(old[host], freezeTable(old[host]))
  BY FrozenAlike DEF FrozenFrom
<1>2. NoHost \in DOMAIN old /\ fr.ignoreCase \in BOOLEAN /\ fr.tables = FrozenTables(old)
  BY DEF FrozenFrom
<1>3. Ice!Resolve(FrozenTables(old), fr.ignoreCase, req) = Live!Resolve(old, fr.ignoreCase, req)
  BY <1>1, <1>2, IceResolves
<1> QED
  BY <1>2, <1>3 DEF FrozenAnswer

\* A clean path has no empty segment.
LEMMA CleanGapless ==
    ASSUME NEW p \in RequestPath, CleanForm(p)
    PROVE  Gapless(p)
<1>1. Len(p) \in Nat
  BY DEF RequestPath
<1>2. ASSUME NEW i \in 1 .. Len(p) - 1 PROVE p[i] # Empty
  BY <1>1 DEF CleanForm
<1> QED
  BY <1>2 DEF Gapless, NoGap

\* The escaped paths that UseRawPath matches as they came have no empty segment
\* before their end.  Nothing in the code sees to it: run FrozenRawSlashes shows
\* what a frozen router answers when one has.
RawPathsPlain == \A req \in Requests : Live!UsesRaw(req) => NoGap(req.path)

\* A frozen router answers as its router until a route is registered, whatever
\* happened to both before: the compressed chains of frozen.go lose no route, no
\* parameter, no redirect and no Allow header.
THEOREM Parity == FrozenSpec => [](RawPathsPlain => FrozenParity)
<1>1. ASSUME RouterInv, FrozenInv, RawPathsPlain PROVE FrozenParity
  <2> SUFFICES ASSUME NEW fr \in frozen, fr.routes = accepted, fr.ignoreCase = IgnoreCaseActive,
                      NEW req \in Requests
               PROVE  FrozenAnswer(fr, req) = Answer(req)
    BY DEF FrozenParity
  <2>1. PICK old : FrozenFrom(fr, old)
    BY <1>1 DEF FrozenInv
  <2>2. req.path \in RequestPath /\ req.path \in Seq(Piece)
    <3>1. req \in Request
      BY <1>1, SetupAssumption DEF Requests, RouterInv, SetupOK
    <3> QED
      BY <3>1 DEF Request, RequestPath, Piece
  <2>3. Gapless(req.path) \/ ~Live!Clean(req)
    <3>1. CASE Live!UsesRaw(req)
      BY <1>1, <2>2, <3>1 DEF RawPathsPlain, Gapless
    <3>2. CASE ~Live!UsesRaw(req) /\ Live!Clean(req)
      <4>1. CleanPath(req.path) = req.path
        BY <3>2, SameCleanPath DEF Live!Clean
      <4>2. CleanForm(req.path)
        BY <2>2, <4>1, CleanIsClean
      <4> QED
        BY <2>2, <4>2, CleanGapless
    <3> QED
      BY <3>1, <3>2
  <2>4. FrozenAnswer(fr, req) = Live!Resolve(old, fr.ignoreCase, req)
    BY <2>1, <2>3, FromAnswers
  <2>5. Live!Resolve(tables, fr.ignoreCase, req) = Live!Resolve(old, fr.ignoreCase, req)
    BY <2>1 DEF FrozenFrom, AnswersAlike, AnswerIn
  <2> QED
    BY <2>4, <2>5 DEF Answer
<1> QED
  BY <1>1, FrozenInductive, FrozenAlways, PTL

-----------------------------------------------------------------------------
(* What a frozen router serves *)

FoundIn(r, routes) == IsResult(r) /\ r.found \subseteq routes
RoutesIn(t) == {t[n] : n \in {x \in DOMAIN t : t[x] # NoRoute}}

\* The search of a frozen trie finds routes of the trie, whatever the path.
LEMMA FrozenFound ==
    ASSUME NEW t, TrieOK(t), \A n \in DOMAIN t : IsWild(n) => t[n] # NoRoute,
           NEW match, NEW raw
    PROVE  FoundIn(FrozenSearch(freezeRoot(t), match, raw), RoutesIn(t))
<1> DEFINE f == freezeRoot(t)
           E == RoutesIn(t)
<1>1. PICK h : FrozenComputes(h, f, match, raw) /\ FrozenSearch(f, match, raw) = h[<<>>]
  BY FrozenDefined
<1>2. /\ DOMAIN f = Kept(t) /\ \A n \in Kept(t) : n \in DOMAIN t /\ f[n].route = t[n]
  BY FrozenNodes DEF Kept
<1> HIDE DEF f
<1>3. \A n \in Kept(t) : h[n] = FrozenBelow(f, match, raw, h, n)
  BY <1>1, <1>2 DEF FrozenComputes
<1>4. FoundIn(Miss, E) /\ \A n \in DOMAIN t : \A params : t[n] # NoRoute => FoundIn(Hit(t[n], params), E)
  BY DEF FoundIn, IsResult, Miss, Hit, RoutesIn
<1> HIDE DEF E
<1>5. ASSUME NEW n \in Kept(t), \A c \in Kept(t) : Len(c) > Len(n) => FoundIn(h[c], E)
      PROVE  FoundIn(h[n], E)
  <2> DEFINE static == ViaSpan(f, match, h, n)
             there  == ChildrenOf(f, n, "param") # {}
             param  == h[ParamChild(f, n)]
             wild   == FrozenWild(f, match, raw, n)
             bound  == Bound(ParamChild(f, n), Value(match, raw, Len(n)))
             part   == Parts(match)[Len(n) + 1]
  <2>1. n \in Seq(Piece) /\ Len(n) \in Nat
    BY SpanRange
  <2>2. FoundIn(static, E)
    <3>1. CASE \E c \in SpanChildren(f, n, part) : SpanMatches(f, c, match)
      <4>1. SpanChild(f, match, n) \in SpanChildren(f, n, part)
        BY <3>1 DEF SpanChild
      <4>2. \A c \in SpanChildren(f, n, part) : c \in Kept(t) /\ Len(c) > Len(n)
        <5> SUFFICES ASSUME NEW c \in SpanChildren(f, n, part) PROVE c \in Kept(t) /\ Len(c) > Len(n)
          OBVIOUS
        <5>1. c \in Kept(t) /\ IsStatic(c) /\ Start(t, c) = Len(n)
          BY SpanChildIs DEF f
        <5>2. c \in DOMAIN t /\ Len(c) \in Nat
          BY <5>1 DEF Kept, TrieOK, WellFormed
        <5>3. Len(c) > 0
          BY <5>1, <5>2, SpanRange DEF IsStatic
        <5>4. StartOf(t, c, Start(t, c))
          BY <5>2, <5>3, StartFound
        <5>5. Len(n) \in 0 .. Len(c) - 1
          BY <5>1, <5>4 DEF StartOf
        <5>6. Len(c) > Len(n)
          BY <5>2, <5>5
        <5> QED
          BY <5>1, <5>6
      <4> QED
        BY <1>5, <3>1, <4>1, <4>2 DEF ViaSpan
    <3>2. CASE ~\E c \in SpanChildren(f, n, part) : SpanMatches(f, c, match)
      BY <1>4, <3>2 DEF ViaSpan
    <3> QED
      BY <3>1, <3>2
  <2>3. there => FoundIn(param, E)
    <3>1. there => ParamChild(f, n) \in ChildrenOf(f, n, "param")
      BY DEF ParamChild
    <3>2. \A c \in ChildrenOf(f, n, "param") : c \in Kept(t) /\ Len(c) > Len(n)
      BY <1>2, <2>1 DEF ChildrenOf, Children
    <3> QED
      BY <1>5, <3>1, <3>2
  <2>4. FoundIn(wild, E)
    <3>1. CASE ChildrenOf(f, n, "wild") # {}
      <4> DEFINE c == WildChild(f, n)
      <4>1. c \in ChildrenOf(f, n, "wild")
        BY <3>1 DEF WildChild
      <4>2. c \in Kept(t) /\ IsWild(c)
        <5>1. c \in Kept(t) /\ Kind(LastOf(c)) = "wild" /\ Len(c) = Len(n) + 1
          BY <1>2, <4>1 DEF ChildrenOf, Children
        <5>2. c # <<>>
          BY <2>1, <5>1
        <5> QED
          BY <5>1, <5>2 DEF IsWild
      <4>3. c \in DOMAIN t /\ t[c] # NoRoute /\ f[c].route = t[c]
        BY <1>2, <4>2
      <4> HIDE DEF c
      <4>4. wild = Hit(f[c].route, Bound(c, Rest(match, raw, Len(n))))
        BY <3>1 DEF FrozenWild, c
      <4> QED
        BY <1>4, <4>3, <4>4
    <3>2. CASE ChildrenOf(f, n, "wild") = {}
      BY <1>4, <3>2 DEF FrozenWild
    <3> QED
      BY <3>1, <3>2
  <2>5. CASE Len(n) = Len(Parts(match))
    <3> HIDE DEF wild
    <3>1. h[n] = IF t[n] # NoRoute THEN Hit(t[n], <<>>) ELSE wild
      BY <1>2, <1>3, <2>5 DEF FrozenBelow, wild
    <3> QED
      BY <1>2, <1>4, <2>4, <3>1
  <2>6. CASE Len(n) # Len(Parts(match))
    <3>1. h[n] = Branches(static, there, bound, param, wild)
      BY <1>3, <2>6 DEF FrozenBelow
    <3> HIDE DEF static, there, bound, param, wild
    <3> DEFINE r == Branches(static, there, bound, param, wild)
    <3>2. /\ IsResult(r)
          /\ r.found = IF static.found # {} THEN static.found
                       ELSE IF there /\ param.found # {} THEN param.found
                       ELSE wild.found
      BY <2>2, <2>3, <2>4, BranchesFound DEF FoundIn
    <3> HIDE DEF r
    <3>3. FoundIn(r, E)
      BY <2>2, <2>3, <2>4, <3>2 DEF FoundIn
    <3> QED
      BY <3>1, <3>3 DEF r
  <2> QED
    BY <2>5, <2>6
<1> DEFINE Q == {n \in DOMAIN t : n \in Kept(t) => FoundIn(h[n], E)}
<1>6. DOMAIN t \subseteq Q
  <2>1. \A n \in DOMAIN t : (\A c \in DOMAIN t : Len(c) > Len(n) => c \in Q) => n \in Q
    BY <1>2, <1>5
  <2> HIDE DEF Q
  <2> QED
    BY <2>1, DownwardAll
<1>7. <<>> \in DOMAIN t /\ <<>> \in Kept(t)
  BY DEF TrieOK, WellFormed, Kept, IsStatic
<1>8. FoundIn(h[<<>>], E)
  BY <1>6, <1>7
<1> QED
  BY <1>1, <1>8 DEF f, E

\* A request is served by one of the routes, if it is served.
ServedFrom(answer, routes) ==
    answer.kind = "served" => \E route \in routes : route.handler = answer.handler

\* Answers of the other kinds are not.
LEMMA OtherKinds ==
    ASSUME NEW routes
    PROVE  /\ ServedFrom(Ice!NotFound, routes)
           /\ \A path : ServedFrom(Ice!RedirectTo(path), routes)
           /\ \A req, allow : ServedFrom(Ice!NotAllowed(req, allow), routes)
BY DEF ServedFrom, Ice!NotFound, Ice!RedirectTo, Ice!NotAllowed

\* What a frozen table serves for a method is one of its routes:
LEMMA MethodFrom ==
    ASSUME NEW t, NEW routes, TableOK(t, routes), NEW method, NEW match, NEW raw
    PROVE  ServedFrom(Ice!serveMethodInTable(freezeTable(t), method, match, raw), routes)
<1> DEFINE u == freezeTable(t)
           r == FrozenSearch(u.roots[method], match, raw)
           chosen == CHOOSE x \in r.found : TRUE
<1>1. /\ u.static = t.static /\ u.hasParams = t.hasParams
      /\ \A m \in DOMAIN t.roots : u.roots[m] = freezeRoot(t.roots[m])
  <2>1. t = Table(t.roots, t.static, t.staticAllow, t.hasParams, t.hasTrailing)
    BY DEF TableOK
  <2> QED
    BY <2>1, FrozenFields DEF SameFields
<1> HIDE DEF u
<1>2. \A handler, params : /\ Ice!Served(handler, params).kind = "served"
                           /\ Ice!Served(handler, params).handler = handler
  BY DEF Ice!Served
<1>3. CASE method \in DOMAIN u.static /\ match \in DOMAIN u.static[method]
  <2>1. Ice!serveMethodInTable(u, method, match, raw) = Ice!Served(u.static[method][match], <<>>)
    BY <1>3 DEF Ice!serveMethodInTable
  <2>2. \E route \in routes : route.handler = u.static[method][match]
    BY <1>1, <1>3 DEF TableOK, StaticOK
  <2> QED
    BY <1>2, <2>1, <2>2 DEF ServedFrom, u
<1>4. CASE /\ ~(method \in DOMAIN u.static /\ match \in DOMAIN u.static[method])
           /\ method \in u.hasParams /\ r.found # {} /\ ~(Len(Ice!Parts(match)) > setup.MaxDepth)
  <2>1. method \in DOMAIN t.roots
    BY <1>1, <1>4 DEF TableOK
  <2> DEFINE root == t.roots[method]
             own  == {route \in routes : route.method = method}
  <2>2. RootOK(root, own)
    BY <2>1 DEF TableOK
  <2> HIDE DEF root
  <2>3. u.roots[method] = freezeRoot(root)
    BY <1>1, <2>1 DEF root
  <2>4. TrieOK(root) /\ \A n \in DOMAIN root : IsWild(n) => root[n] # NoRoute
    BY <2>2 DEF RootOK
  <2>5. FoundIn(r, RoutesIn(root))
    BY <2>3, <2>4, FrozenFound
  <2>6. chosen \in r.found
    <3> HIDE DEF r
    <3> QED
      BY <1>4
  <2> HIDE DEF chosen, r
  <2>7. PICK n \in DOMAIN root : root[n] # NoRoute /\ chosen = root[n]
    BY <2>5, <2>6 DEF FoundIn, RoutesIn
  <2>8. PICK route \in own : Parts(route.pattern) = n
    BY <2>2, <2>7 DEF RootOK
  <2>9. chosen = Entry(route)
    BY <2>2, <2>7, <2>8 DEF RootOK
  <2>10. chosen.handler = route.handler /\ route \in routes
    BY <2>9 DEF Entry
  <2>11. \E params : Ice!serveMethodInTable(u, method, match, raw) = Ice!Served(chosen.handler, params)
    BY <1>4 DEF Ice!serveMethodInTable, chosen, r
  <2> QED
    BY <1>2, <2>10, <2>11 DEF ServedFrom, u
<1>5. CASE /\ ~(method \in DOMAIN u.static /\ match \in DOMAIN u.static[method])
           /\ ~(method \in u.hasParams /\ r.found # {} /\ ~(Len(Ice!Parts(match)) > setup.MaxDepth))
  <2>1. Ice!serveMethodInTable(u, method, match, raw) = Ice!NotFound
    BY <1>5 DEF Ice!serveMethodInTable
  <2> QED
    BY <2>1, OtherKinds DEF u
<1> QED
  BY <1>3, <1>4, <1>5

\* of the two answers, the one that is given is,
LEMMA EitherFrom ==
    ASSUME NEW routes, NEW a, ServedFrom(a, routes), NEW b, ServedFrom(b, routes)
    PROVE  ServedFrom(Ice!Otherwise(a, b), routes)
BY DEF Ice!Otherwise

\* and so is what it answers after all its attempts.
LEMMA TableFrom ==
    ASSUME NEW t, NEW routes, TableOK(t, routes), NEW req, NEW match, NEW raw
    PROVE  ServedFrom(Ice!AnswerOf(freezeTable(t), req, match, raw), routes)
<1> DEFINE u == freezeTable(t)
<1>1. \A m, a, b : ServedFrom(Ice!serveMethodInTable(u, m, a, b), routes)
  BY MethodFrom
<1> HIDE DEF u
<1>2. \A a, b : ServedFrom(a, routes) /\ ServedFrom(b, routes) => ServedFrom(Ice!Otherwise(a, b), routes)
  BY EitherFrom
<1>3. /\ ServedFrom(Ice!NotFound, routes)
      /\ \A path : ServedFrom(Ice!RedirectTo(path), routes)
      /\ \A r, allow : ServedFrom(Ice!NotAllowed(r, allow), routes)
  BY OtherKinds
<1>4. \A m, a, b : ServedFrom(Ice!serveInTable(u, m, a, b), routes)
  BY <1>1, <1>2 DEF Ice!serveInTable
<1>5. ServedFrom(Ice!tryAlternateSlashInTable(u, req, match, raw), routes)
  BY <1>3, <1>4 DEF Ice!tryAlternateSlashInTable
<1>6. ServedFrom(Ice!handleMethodNotAllowedInTable(u, req, match), routes)
  BY <1>3 DEF Ice!handleMethodNotAllowedInTable
<1>7. ServedFrom(Ice!AnswerOf(u, req, match, raw), routes)
  BY <1>2, <1>4, <1>5, <1>6 DEF Ice!AnswerOf
<1> QED
  BY <1>7 DEF u

\* A frozen router serves by the routes it was made from.
LEMMA FrozenServes ==
    ASSUME NEW fr, NEW old, FrozenFrom(fr, old), NEW req
    PROVE  ServedFrom(FrozenAnswer(fr, req), fr.routes)
<1> DEFINE ice   == FrozenTables(old)
           match == Ice!MatchOf(req.path, fr.ignoreCase)
<1>1. DOMAIN ice = DOMAIN old /\ \A host \in DOMAIN old : ice[host] = freezeTable(old[host])
  BY DEF FrozenTables
<1> HIDE DEF ice
<1>2. ASSUME NEW host \in DOMAIN old
      PROVE  ServedFrom(Ice!AnswerOf(ice[host], req, match, req.path), fr.routes)
  <2> HIDE DEF match
  <2>1. TableOK(old[host], AtHost(fr.routes, host))
    BY DEF FrozenFrom
  <2>2. ServedFrom(Ice!AnswerOf(freezeTable(old[host]), req, match, req.path), AtHost(fr.routes, host))
    BY <2>1, TableFrom
  <2>3. AtHost(fr.routes, host) \subseteq fr.routes
    BY DEF AtHost
  <2>4. ServedFrom(Ice!AnswerOf(freezeTable(old[host]), req, match, req.path), fr.routes)
    BY <2>2, <2>3 DEF ServedFrom
  <2> QED
    BY <1>1, <2>4
<1>3. \A a, b : ServedFrom(a, fr.routes) /\ ServedFrom(b, fr.routes)
                  => ServedFrom(Ice!Otherwise(a, b), fr.routes)
  BY EitherFrom
<1>4. ServedFrom(Ice!NotFound, fr.routes) /\ \A path : ServedFrom(Ice!RedirectTo(path), fr.routes)
  BY OtherKinds
<1> DEFINE inHost == IF req.host = NoHost \/ req.host \notin DOMAIN ice THEN Ice!NotFound
                     ELSE Ice!AnswerOf(ice[req.host], req, match, req.path)
           inDefault == Ice!AnswerOf(ice[NoHost], req, match, req.path)
<1>5. ServedFrom(inHost, fr.routes)
  BY <1>1, <1>2, <1>4
<1>6. ServedFrom(inDefault, fr.routes)
  BY <1>2 DEF FrozenFrom
<1>7. Ice!Resolve(ice, fr.ignoreCase, req)
        = IF Ice!Clean(req) THEN Ice!Otherwise(inHost, inDefault)
          ELSE Ice!RedirectTo(Ice!CleanPath(req.path))
  BY DEF Ice!Resolve
<1> HIDE DEF inHost, inDefault
<1>8. ServedFrom(Ice!Resolve(ice, fr.ignoreCase, req), fr.routes)
  BY <1>3, <1>4, <1>5, <1>6, <1>7
<1>9. FrozenAnswer(fr, req) = Ice!Resolve(ice, fr.ignoreCase, req)
  BY DEF FrozenAnswer, FrozenFrom, ice
<1> QED
  BY <1>8, <1>9

\* A frozen router serves every route it was made from and nothing else, whatever
\* the router registers after: Freeze leaves no pattern out of its copy, and the
\* copy shares nothing with the tables that go on growing.
THEOREM FrozenReached == FrozenSpec => []FrozenReachable
<1>1. ASSUME RouterInv, FrozenInv PROVE FrozenReachable
  <2> SUFFICES ASSUME NEW fr \in frozen
               PROVE  /\ \A route \in fr.routes :
                            LET answer == FrozenAnswer(fr, RequestFor(route))
                            IN  answer.kind = "served" /\ answer.handler = route.handler
                      /\ \A req \in Requests : ServedFrom(FrozenAnswer(fr, req), fr.routes)
    BY DEF FrozenReachable, ServedFrom
  <2>1. PICK old : FrozenFrom(fr, old)
    BY <1>1 DEF FrozenInv
  <2>2. ASSUME NEW route \in fr.routes
        PROVE  LET answer == FrozenAnswer(fr, RequestFor(route))
               IN  answer.kind = "served" /\ answer.handler = route.handler
    <3> DEFINE req == RequestFor(route)
    <3>1. route \in accepted
      BY <2>1 DEF FrozenFrom
    <3>2. req.path = Filled(route.pattern)
      BY DEF RequestFor
    <3>3. FillsWell(route.pattern)
      BY <1>1, <3>1, AcceptedFills
    <3>4. Gapless(req.path)
      BY <3>2, <3>3, FilledPath, CleanGapless
    <3> HIDE DEF req
    <3>5. FrozenAnswer(fr, req) = Live!Resolve(old, fr.ignoreCase, req)
      BY <2>1, <3>4, FromAnswers
    <3>6. ServesOwn(old, fr.ignoreCase, route)
      BY <2>1 DEF FrozenFrom
    <3> QED
      BY <3>5, <3>6 DEF ServesOwn, req
  <2>3. \A req \in Requests : ServedFrom(FrozenAnswer(fr, req), fr.routes)
    BY <2>1, FrozenServes
  <2> QED
    BY <2>2, <2>3
<1> QED
  BY <1>1, FrozenInductive, FrozenAlways, PTL
=============================================================================
