----------------------------- MODULE TurnCache -----------------------------
(***************************************************************************)
(* TURN credentials: requests for a teleoperation page, on threads of one  *)
(* server process, take them from a cache or mint them, and the page that  *)
(* a request serves connects with the credential embedded in it. Times are *)
(* readings of one monotonic clock.                                        *)
(***************************************************************************)
EXTENDS Naturals

CONSTANTS PageRequests,   \* requests that a process serves at a time
          Pages,      \* pages that are open at a time
          HalfTtl,    \* half of TURN_CREDENTIAL_TTL
          Delay,      \* a request is served within this time
          Setup,      \* how long it takes to set up a connection
          MaxTime     \* bound: the clock stops here

ASSUME TurnAssumption ==
  /\ HalfTtl \in Nat /\ Delay \in Nat /\ Setup \in Nat /\ MaxTime \in Nat
  /\ Delay < HalfTtl

Ttl == 2 * HalfTtl

VARIABLES clock,     \* the time
          cache,     \* _cache: until when it is used, when the credential expires
          pc,        \* what each request does next
          now,       \* the time it has read
          minted,    \* when the credential it has minted expires
          page       \* the pages

turnVars == <<clock, cache, pc, now, minted, page>>

\* The page is empty or holds a credential, was served at a time, and has begun
\* to connect at a time.
NoPage == [phase |-> "none", expires |-> 0, served |-> 0, since |-> 0]
NoCache == [until |-> 0, expires |-> 0]

TurnTypeOK ==
  /\ clock \in Nat
  /\ cache \in [until : Nat, expires : Nat]
  /\ pc \in [PageRequests -> {"idle", "look", "hit", "miss", "minted"}]
  /\ now \in [PageRequests -> Nat]
  /\ minted \in [PageRequests -> Nat]
  /\ page \in [Pages -> [phase : {"none", "open", "connecting"},
                         expires : Nat, served : Nat, since : Nat]]

TurnInit ==
  /\ clock = 0
  /\ cache = NoCache
  /\ pc = [r \in PageRequests |-> "idle"]
  /\ now = [r \in PageRequests |-> 0]
  /\ minted = [r \in PageRequests |-> 0]
  /\ page = [p \in Pages |-> NoPage]

\* Time passes, but neither a request nor a connection takes for ever.
TurnTick ==
  /\ clock < MaxTime
  /\ \A r \in PageRequests : pc[r] # "idle" => clock < now[r] + Delay
  /\ \A p \in Pages : page[p].phase = "connecting" => clock < page[p].since + Setup
  /\ clock' = clock + 1
  /\ UNCHANGED <<cache, pc, now, minted, page>>

\* A TURN key is configured: the request reads the clock.
AskForCredential(r) ==
  /\ pc[r] = "idle"
  /\ pc' = [pc EXCEPT ![r] = "look"]
  /\ now' = [now EXCEPT ![r] = clock]
  /\ UNCHANGED <<clock, cache, minted, page>>

\* It compares that reading with the cache.
Look(r) ==
  /\ pc[r] = "look"
  /\ pc' = [pc EXCEPT ![r] = IF now[r] < cache.until THEN "hit" ELSE "miss"]
  /\ UNCHANGED <<clock, cache, now, minted, page>>

\* The request ends, and with it what it has read and minted.
Done(r) ==
  /\ pc' = [pc EXCEPT ![r] = "idle"]
  /\ now' = [now EXCEPT ![r] = 0]
  /\ minted' = [minted EXCEPT ![r] = 0]

\* The response: a page with a credential that expires at a time.
Serve(r, expires) ==
  /\ Done(r)
  /\ \E p \in Pages :
       /\ page[p].phase = "none"
       /\ page' = [page EXCEPT ![p] = [phase |-> "open", expires |-> expires,
                                       served |-> clock, since |-> 0]]

\* It returns what the cache holds by then.
ServeCached(r) ==
  /\ pc[r] = "hit"
  /\ Serve(r, cache.expires)
  /\ UNCHANGED <<clock, cache>>

Mint(r) ==
  /\ pc[r] = "miss"
  /\ pc' = [pc EXCEPT ![r] = "minted"]
  /\ minted' = [minted EXCEPT ![r] = clock + Ttl]
  /\ UNCHANGED <<clock, cache, now, page>>

\* The request to Cloudflare fails, before or after the credential was minted:
\* the page is served with the public STUN server alone.
MintFails(r) ==
  /\ pc[r] \in {"miss", "minted"}
  /\ Done(r)
  /\ UNCHANGED <<clock, cache, page>>

\* A variant with a fault: the credential is kept for its whole lifetime.
StoreWholeLife(r) ==
  /\ pc[r] = "minted"
  /\ cache' = [until |-> now[r] + Ttl, expires |-> minted[r]]
  /\ Serve(r, minted[r])
  /\ UNCHANGED clock

\* The credential is kept, whatever another request has put there meanwhile.
Store(r) ==
  /\ pc[r] = "minted"
  /\ cache' = [until |-> now[r] + HalfTtl, expires |-> minted[r]]
  /\ Serve(r, minted[r])
  /\ UNCHANGED clock

\* The user clicks "Connect", at once or after a day.
ConnectPage(p) ==
  /\ page[p].phase = "open"
  /\ page' = [page EXCEPT ![p].phase = "connecting", ![p].since = clock]
  /\ UNCHANGED <<clock, cache, pc, now, minted>>

\* The connection is set up or given up, or the user closes the page.
Leave(p) ==
  /\ page[p].phase # "none"
  /\ page' = [page EXCEPT ![p] = NoPage]
  /\ UNCHANGED <<clock, cache, pc, now, minted>>

TurnNext ==
  \/ TurnTick
  \/ \E r \in PageRequests :
       \/ AskForCredential(r) \/ Look(r) \/ ServeCached(r)
       \/ Mint(r) \/ MintFails(r) \/ Store(r)
  \/ \E p \in Pages : ConnectPage(p) \/ Leave(p)

TurnSpec == TurnInit /\ [][TurnNext]_turnVars
-----------------------------------------------------------------------------
(***************************************************************************)
(* Properties                                                              *)
(***************************************************************************)
\* A page that connects within half of the lifetime, less the time that serving
\* it and connecting take, is set up before its credential expires, though
\* another request may replace the cache after this one has looked at it.
PromptPagesAreSetUp ==
  \A p \in Pages :
    (page[p].phase = "connecting"
     /\ page[p].since + Setup + Delay <= page[p].served + HalfTtl)
      => clock < page[p].expires
=============================================================================
