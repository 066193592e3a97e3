---------------------------- MODULE WebsiteAddresses ----------------------------
(* The platform addresses of the websites: the subdomain each has, the        *)
(* aliases its earlier names leave behind, and the two caches through which   *)
(* a visitor's request finds the website of a name.                           *)
(*                                                                           *)
(* Every transaction that gives a name away holds one advisory lock for all   *)
(* websites and is one step.  A lookup by host reads the host cache, under it *)
(* the subdomain cache and under that the rows; each cache is fenced by the   *)
(* generation read before the load, and an invalidation increments it.  The   *)
(* rebuild locks only save loads and are left out.  A cached route is checked *)
(* against the rows before it is answered; a cached "not found" is not.       *)
EXTENDS Integers, Sequences, FiniteSets, SequencesExt

CONSTANTS
    Sites,          \* businesses, each with at most one website
    Names,          \* subdomains
    Candidates,     \* the names provisioning tries, in order
    Handlers,       \* requests that have committed and still invalidate
    Lookups,        \* requests of visitors
    MaxGeneration,  \* bound on the invalidations of a key
    MaxMoves,       \* bound on the changes of address
    AddressMixes,   \* the sets of operations that meet in one behaviour
    Nobody

ASSUME AddressAssumption ==
    /\ {Candidates[k] : k \in DOMAIN Candidates} \subseteq Names
    /\ MaxGeneration \in Nat /\ MaxMoves \in Nat
    /\ Nobody \notin Sites \cup Names

VARIABLES
    subdomain,   \* Sites -> its name, or Nobody without a website
    alias,       \* Names -> the site it redirects to, or Nobody
    entry,       \* keys -> "none", "missing" or the site of a route: what Redis holds
    generation,  \* keys -> the generation counter
    delivery,    \* Handlers -> the keys still to invalidate, and whether all succeeded
    lookup,      \* Lookups -> the state of a request
    announced,   \* history: held names whose invalidation has succeeded since
    firstHolder, \* history: Names -> the website that first held it, or Nobody
    moves,       \* history: changes of address so far
    kinds        \* the operations of this behaviour

rowVars == <<subdomain, alias>>
cacheVars == <<entry, generation>>
addressVars == <<subdomain, alias, entry, generation, delivery, lookup, announced, firstHolder, moves, kinds>>

Keys == {"subdomain", "host"} \X Names
Done == [keys |-> <<>>, names |-> {}, delivered |-> TRUE]
Answered(v) == [kind |-> "host", step |-> "answered", name |-> Nobody, promised |-> FALSE,
                seen |-> <<0, 0>>, value |-> v]

InitAddresses(mixes) ==
    /\ subdomain = [s \in Sites |-> Nobody]
    /\ alias = [n \in Names |-> Nobody]
    /\ entry = [k \in Keys |-> "none"]
    /\ generation = [k \in Keys |-> 0]
    /\ delivery = [h \in Handlers |-> Done]
    /\ lookup = [l \in Lookups |-> Answered("none")]
    /\ announced = {}
    /\ firstHolder = [n \in Names |-> Nobody]
    /\ moves = 0
    /\ kinds \in mixes

--------------------------------------------------------------------------------
(* Who holds a name *)

HasName(n) == {s \in Sites : subdomain[s] = n}
IsSubdomainTaken(n) == HasName(n) # {} \/ alias[n] # Nobody
\* Mutant: the outer cache first.
HostFirst(names) == FlattenSeq([k \in DOMAIN names |-> <<<<"host", names[k]>>, <<"subdomain", names[k]>>>>])
\* The keys of a name, the inner cache first.
KeysOf(names) == FlattenSeq([k \in DOMAIN names |-> <<<<"subdomain", names[k]>>, <<"host", names[k]>>>>])

Free(h) == delivery[h] = Done
Deliver(h, names) ==
    delivery' = [delivery EXCEPT ![h] = [keys |-> KeysOf(names), names |-> Range(names), delivered |-> TRUE]]

\* Requests for these names that are in progress are promised nothing any more.
Unpromised(names) == [l \in Lookups |-> [lookup[l] EXCEPT !.promised = @ /\ lookup[l].name \notin names]]

Changes(s, n) ==
    /\ moves < MaxMoves /\ moves' = moves + 1
    /\ announced' = announced \ {n}
    /\ firstHolder' = [firstHolder EXCEPT ![n] = IF @ = Nobody THEN s ELSE @]
    /\ UNCHANGED <<cacheVars, kinds>>
Take(s, n) == Changes(s, n) /\ UNCHANGED lookup

CreateWebsite(h, s, n) ==
    /\ "create" \in kinds /\ Free(h)
    /\ subdomain[s] = Nobody /\ ~IsSubdomainTaken(n)
    /\ subdomain' = [subdomain EXCEPT ![s] = n]
    /\ Take(s, n) /\ Deliver(h, <<n>>)
    /\ UNCHANGED alias

\* The business's own name, or the first suffix that nobody has.
ReserveWebsiteSubdomain ==
    SelectSeq(Candidates, LAMBDA n : ~IsSubdomainTaken(n))
ProvisionDefaultWebsite(h, s) ==
    /\ "provision" \in kinds /\ Free(h)
    /\ subdomain[s] = Nobody /\ ReserveWebsiteSubdomain # <<>>
    /\ LET n == Head(ReserveWebsiteSubdomain) IN
          /\ subdomain' = [subdomain EXCEPT ![s] = n]
          /\ Take(s, n) /\ Deliver(h, <<n>>)
    /\ UNCHANGED alias

\* Mutant: the old name is given up.
RenamedWithoutAlias(s, n) == [alias EXCEPT ![n] = Nobody]
\* The old name stays with the website as an alias; an alias of its own that
\* it moves to becomes its address again.
Renamed(s, n) == [alias EXCEPT ![n] = Nobody, ![subdomain[s]] = s]

Rename(h, s, n) ==
    /\ "rename" \in kinds /\ Free(h)
    /\ subdomain[s] \notin {Nobody, n}
    /\ HasName(n) = {} /\ alias[n] \in {Nobody, s} /\ alias[subdomain[s]] \in {Nobody, s}
    /\ subdomain' = [subdomain EXCEPT ![s] = n]
    /\ alias' = Renamed(s, n)
    /\ Changes(s, n)
    /\ lookup' = IF alias[n] = s THEN Unpromised({n}) ELSE lookup
    /\ Deliver(h, <<subdomain[s], n>> \o SetToSeq({m \in Names \ {subdomain[s], n} : alias'[m] = s}))

\* The rows go with the tenant and its names are free for anybody; nothing is
\* invalidated, since there is no website left to look its names up by.
DeleteWebsite(s) ==
    LET freed == {n \in Names : subdomain[s] = n \/ alias[n] = s} IN
    /\ "purge" \in kinds /\ subdomain[s] # Nobody
    /\ subdomain' = [subdomain EXCEPT ![s] = Nobody]
    /\ alias' = [n \in Names |-> IF alias[n] = s THEN Nobody ELSE alias[n]]
    /\ announced' = announced \ freed
    /\ firstHolder' = [n \in Names |-> IF n \in freed THEN Nobody ELSE firstHolder[n]]
    /\ lookup' = Unpromised(freed)
    /\ UNCHANGED <<cacheVars, delivery, moves, kinds>>

--------------------------------------------------------------------------------
(* Invalidation after the commit *)

\* The next key: its generation is incremented and its entry dropped, or Redis
\* fails and the caller learns that not everything was delivered.
InvalidateKey(h) ==
    LET d == delivery[h] IN
    /\ d.keys # <<>>
    /\ \/ /\ generation[Head(d.keys)] < MaxGeneration
          /\ generation' = [generation EXCEPT ![Head(d.keys)] = @ + 1]
          /\ entry' = [entry EXCEPT ![Head(d.keys)] = "none"]
          /\ delivery' = [delivery EXCEPT ![h].keys = Tail(@)]
       \/ /\ "errors" \in kinds
          /\ delivery' = [delivery EXCEPT ![h].keys = Tail(@), ![h].delivered = FALSE]
          /\ UNCHANGED cacheVars
    /\ UNCHANGED <<rowVars, lookup, announced, firstHolder, moves, kinds>>

FinishDelivery(h) ==
    LET d == delivery[h] IN
    /\ d.keys = <<>> /\ d # Done
    /\ announced' = IF d.delivered THEN announced \cup {n \in d.names : IsSubdomainTaken(n)} ELSE announced
    /\ delivery' = [delivery EXCEPT ![h] = Done]
    /\ UNCHANGED <<rowVars, cacheVars, lookup, firstHolder, moves, kinds>>

\* The process dies after the commit.
LoseDelivery(h) ==
    /\ "crash" \in kinds /\ ~Free(h)
    /\ delivery' = [delivery EXCEPT ![h] = Done]
    /\ UNCHANGED <<rowVars, cacheVars, lookup, announced, firstHolder, moves, kinds>>

Expire(k) ==
    /\ entry[k] # "none"
    /\ entry' = [entry EXCEPT ![k] = "none"]
    /\ UNCHANGED <<rowVars, generation, delivery, lookup, announced, firstHolder, moves, kinds>>

--------------------------------------------------------------------------------
(* A visitor's request *)

AtStep(l, step) == lookup[l].step = step
Key(l, level) == <<level, lookup[l].name>>
Move(l, r) ==
    /\ lookup' = [lookup EXCEPT ![l] = r]
    /\ UNCHANGED <<rowVars, delivery, announced, firstHolder, moves, kinds>>

StartLookup(l, n, kind) ==
    /\ "lookup" \in kinds /\ AtStep(l, "answered")
    /\ Move(l, [kind |-> kind, step |-> IF kind = "host" THEN "readHost" ELSE "readSubdomain", name |-> n,
                promised |-> n \in announced /\ IsSubdomainTaken(n), seen |-> <<0, 0>>, value |-> "none"])
    /\ UNCHANGED cacheVars

\* What the caches answer, or "none" for a miss or a Redis error.
Found(k) == {entry[k]} \cup (IF "errors" \in kinds THEN {"none"} ELSE {})
\* The generation, or -1 when Redis cannot tell.
Captured(k) == {generation[k]} \cup (IF "errors" \in kinds THEN {-1} ELSE {})

\* A cached "not found" of the host is answered at once.
ReadHostCache(l) ==
    /\ AtStep(l, "readHost")
    /\ \E v \in Found(Key(l, "host")) :
          Move(l, [lookup[l] EXCEPT !.value = v, !.step = IF v = "none" THEN "readSubdomain" ELSE "finish"])
    /\ UNCHANGED cacheVars

\* The host's generation is captured before the subdomain is resolved.
ReadSubdomainCache(l) ==
    /\ AtStep(l, "readSubdomain")
    /\ \E g \in IF lookup[l].kind = "host" THEN Captured(Key(l, "host")) ELSE {-1}, v \in Found(Key(l, "subdomain")) :
          Move(l, [lookup[l] EXCEPT !.seen[1] = g, !.value = v,
                   !.step = IF v = "none" THEN "capture" ELSE "inner"])
    /\ UNCHANGED cacheVars

CaptureGeneration(l) ==
    /\ AtStep(l, "capture")
    /\ \E g \in Captured(Key(l, "subdomain")) :
          Move(l, [lookup[l] EXCEPT !.seen[2] = g, !.step = "load"])
    /\ UNCHANGED cacheVars

\* The row of the name is read first, and its alias in a second statement.
Loaded(l, v) ==
    Move(l, [lookup[l] EXCEPT !.value = v, !.step = IF lookup[l].seen[2] = -1 THEN "inner" ELSE "store"])

LoadFromDatabase(l) ==
    LET holders == HasName(lookup[l].name) IN
    /\ AtStep(l, "load")
    /\ \/ \E s \in holders : Loaded(l, s)
       \/ holders = {} /\ Move(l, [lookup[l] EXCEPT !.step = "alias"])
    /\ UNCHANGED cacheVars

LoadAlias(l) ==
    /\ AtStep(l, "alias")
    /\ Loaded(l, IF alias[lookup[l].name] = Nobody THEN "missing" ELSE alias[lookup[l].name])
    /\ UNCHANGED cacheVars

\* A value loaded under an older generation is not stored but loaded again; a
\* store that fails is passed over, whether or not it took effect.
SameGeneration(k, g) == generation[k] = g
StoreAt(k, g, v) ==
    \/ SameGeneration(k, g) /\ entry' = [entry EXCEPT ![k] = v] /\ UNCHANGED generation
    \/ "errors" \in kinds /\ UNCHANGED cacheVars

StoreSubdomain(l) ==
    LET k == Key(l, "subdomain") IN
    /\ AtStep(l, "store")
    /\ \/ StoreAt(k, lookup[l].seen[2], lookup[l].value) /\ Move(l, [lookup[l] EXCEPT !.step = "inner"])
       \/ /\ ~SameGeneration(k, lookup[l].seen[2])
          /\ Move(l, [lookup[l] EXCEPT !.seen[2] = -1, !.step = "load"])
          /\ UNCHANGED cacheVars

\* The subdomain is resolved; a lookup by host stores the result under the
\* generation it began with, or resolves the subdomain once more.
StoreHost(l) ==
    LET k == Key(l, "host") IN
    /\ AtStep(l, "inner")
    /\ \/ /\ lookup[l].seen[1] = -1
          /\ Move(l, [lookup[l] EXCEPT !.step = "finish"])
          /\ UNCHANGED cacheVars
       \/ /\ lookup[l].seen[1] # -1
          /\ \/ StoreAt(k, lookup[l].seen[1], lookup[l].value) /\ Move(l, [lookup[l] EXCEPT !.step = "finish"])
             \/ /\ ~SameGeneration(k, lookup[l].seen[1])
                /\ Move(l, [lookup[l] EXCEPT !.kind = "subdomain", !.step = "readSubdomain"])
                /\ UNCHANGED cacheVars

\* Authorisation finds the route's own website, whatever its name is now.  A route that
\* was an alias, or of a website that has moved or has a custom host, is loaded again
\* from the rows and then authorised for good.
AuthorizeRoute(l) ==
    LET s == lookup[l].value
        answer(v) == Move(l, [Answered(v) EXCEPT !.name = lookup[l].name, !.promised = lookup[l].promised]) IN
    /\ AtStep(l, "finish")
    /\ IF s \notin Sites THEN answer("missing")
       ELSE \/ subdomain[s] = Nobody /\ answer("missing")
            \/ subdomain[s] # Nobody /\ (lookup[l].kind = "last" \/ subdomain[s] = lookup[l].name) /\ answer(s)
            \/ /\ subdomain[s] # Nobody /\ lookup[l].kind # "last"
               /\ Move(l, [lookup[l] EXCEPT !.kind = "last", !.seen = <<-1, -1>>, !.step = "load"])
    /\ UNCHANGED cacheVars

AddressNext ==
    \/ \E h \in Handlers :
          \/ \E s \in Sites :
                \/ \E n \in Names : CreateWebsite(h, s, n) \/ Rename(h, s, n)
                \/ ProvisionDefaultWebsite(h, s)
          \/ InvalidateKey(h) \/ FinishDelivery(h) \/ LoseDelivery(h)
    \/ \E s \in Sites : DeleteWebsite(s)
    \/ \E k \in Keys : Expire(k)
    \/ \E l \in Lookups :
          \/ \E n \in Names, kind \in {"host", "subdomain"} : StartLookup(l, n, kind)
          \/ ReadHostCache(l) \/ ReadSubdomainCache(l) \/ CaptureGeneration(l)
          \/ LoadFromDatabase(l) \/ LoadAlias(l)
          \/ StoreSubdomain(l) \/ StoreHost(l) \/ AuthorizeRoute(l)

--------------------------------------------------------------------------------
(* What must hold *)

\* A name that ever led to a website leads to that one or to none as long as
\* the website exists: printed links and bookmarks never reach a competitor.
NamesStayWithTheirWebsite ==
    \A n \in Names :
        /\ HasName(n) \cup ({alias[n]} \ {Nobody}) \subseteq {firstHolder[n]}
        /\ firstHolder[n] # Nobody => IsSubdomainTaken(n)

\* Once the invalidation of a new address has succeeded, no visitor who asks
\* for it afterwards is told that it does not exist or led to the website that
\* had the name before, whatever lookups were in flight and at whichever of the
\* two caches they were.  A name its website moves back to, from an alias to the
\* address, is promised again once that move is announced: a lookup that reads
\* the row before the move and the alias after it finds neither.
NewAddressIsFound ==
    \A l \in Lookups :
        AtStep(l, "answered") /\ lookup[l].promised => lookup[l].value = firstHolder[lookup[l].name]

\* An address leads to the website it was given to and to no other, before and after
\* a rename.
AddressesLeadHome == NamesStayWithTheirWebsite /\ NewAddressIsFound
================================================================================
