------------------------------ MODULE Browser -------------------------------
(***************************************************************************)
(* The page browser (nomad/browser.c) and the node that hosts the pages    *)
(* (nomad/hosted_node.c): route discovery, a link that may be used for     *)
(* several pages, one request at a time, the page cache, and the last page *)
(* that was loaded, which stays on show while others are loaded.           *)
(*                                                                         *)
(* The runtime is what the browser sees of it: a link comes up or goes     *)
(* down and reports it, a request is answered, fails or runs into its      *)
(* deadline.  Time is counted in units of a page's life in the cache.      *)
(***************************************************************************)
EXTENDS Integers, FiniteSets, FiniteSetsExt, Functions

CONSTANTS
  Urls, NodeOf,              \* addresses, and the node each names
  SizeOf, CacheEntries, CacheBytes,
  Lifetime,                  \* of a page in the cache, unless it says "#!c=0"
  PathTimeout,
  MaxOpens, MaxEdits         \* bounds: navigations and edits of pages

ASSUME BrowserConfig ==
  /\ IsFiniteSet(Urls) /\ "none" \notin Urls
  /\ CacheEntries \in Nat /\ Lifetime \in Nat /\ PathTimeout \in Nat

VARIABLES
  phase,       \* browser->state
  target,      \* url and form of the navigation
  wire_link,   \* the browser's link: its node and state
  receipt,     \* "NONE", "PENDING" or "OVER"
  request,     \* the request under way, or its answer
  page,        \* the last page loaded and its address
  cache,       \* the pages kept: version and age of each
  from_cache,  \* browser->cached
  waited,      \* time since discovery_started
  files,       \* version of each page at its node
  submitted,   \* forms the node received since the last open
  quit,        \* the navigation was cancelled
  undone,      \* pages that replaced another after a cancellation
  opens, edits

navVars == <<phase, target, receipt, from_cache, waited, quit>>
browserVars == <<navVars, wire_link, request, page, cache, files, submitted, undone, opens, edits>>

Hosts == {NodeOf[u] : u \in Urls}
NoLink == [to |-> "none", state |-> "NONE"]
NoPage == [url |-> "none", of |-> "none", version |-> 0]
Denied == 0    \* the page that says that the visitor may not see it
Unread == -1    \* no content to send
NoRequest == [for |-> "none", form |-> FALSE, state |-> "none", version |-> 0]
Settled == {"COMPLETE", "FAILED", "CANCELLED"}

BrowserTypeOK ==
  /\ phase \in Settled \cup {"IDLE", "PATH", "LINK", "REQUEST"}
  /\ wire_link.to \in Hosts \cup {"none"}
  /\ wire_link.state \in {"NONE", "PENDING", "ACTIVE", "CLOSED"}
  /\ receipt \in {"NONE", "PENDING", "OVER"} /\ page.url \in Urls \cup {"none"}
  /\ waited \in 0 .. PathTimeout
  /\ DOMAIN cache \subseteq Urls /\ Cardinality(DOMAIN cache) <= CacheEntries
  /\ \A u \in DOMAIN cache : cache[u].age \in 0 .. Lifetime

BrowserInit ==
  /\ phase = "IDLE" /\ target = [url |-> "none", form |-> FALSE] /\ wire_link = NoLink
  /\ receipt = "NONE" /\ request = NoRequest /\ page = NoPage /\ cache = [u \in {} |-> NoPage]
  /\ waited = 0 /\ from_cache = FALSE /\ files = [u \in Urls |-> 1] /\ submitted = 0 /\ quit = FALSE
  /\ undone = {} /\ opens = 0 /\ edits = 0

----------------------------------------------------------------------------
(* The cache. *)

Bytes(urls) == MapThenSumSet(LAMBDA u : SizeOf[u], urls)
Fits(urls, u) == Cardinality(urls) < CacheEntries /\ Bytes(urls) + SizeOf[u] <= CacheBytes

Without(c, urls) == Restrict(c, DOMAIN c \ urls)

(* cache_store: until the new page fits, the oldest goes; of two that were
   stored at the same time, either. *)
Evictions(c, u) ==
  {gone \in SUBSET DOMAIN c :
     /\ Fits(DOMAIN c \ gone, u)
     /\ \A e \in gone, kept \in DOMAIN c \ gone : c[e].age >= c[kept].age
     /\ gone # {} => \E last \in gone : /\ \A e \in gone : c[e].age >= c[last].age
                                        /\ ~Fits(DOMAIN c \ (gone \ {last}), u)}
KeptPage(c, u, version) ==
  [v \in DOMAIN c \cup {u} |-> IF v = u THEN [version |-> version, age |-> 0] ELSE c[v]]

(* The old copy goes in any case.  "#!c=0", a page that is too large or a
   failed allocation: the new one is not kept. *)
Stores(c, u, version) ==
  LET rest == Without(c, {u})
  IN {rest} \cup {KeptPage(Without(rest, gone), u, version) : gone \in Evictions(rest, u)}

Expired(u) == cache[u].age >= Lifetime
Outdated == {u \in DOMAIN cache : Expired(u)}

----------------------------------------------------------------------------
(* Callbacks. *)

(* response_received with a page: of is what was asked for, the address shown
   is the one of the navigation. *)
Commit(of, version) ==
  /\ page' = [url |-> target.url, of |-> of, version |-> version]
  /\ undone' = IF quit THEN undone \cup {page.url} ELSE undone
  /\ phase' = "COMPLETE"

(* browser_fail *)
Failed_Ignored == phase
Failed == IF phase \in {"CANCELLED", "COMPLETE"} THEN phase ELSE "FAILED"

(* link_changed with RNS_LINK_ACTIVE: without a receipt, the page is asked
   for; identifying or sending may fail. *)
RequestIfNone == receipt = "NONE"
LinkActive ==
  \/ /\ RequestIfNone
     /\ receipt' = "PENDING" /\ phase' = "REQUEST"
     /\ request' = [for |-> target.url, form |-> target.form, state |-> "sent", version |-> 0]
  \/ RequestIfNone /\ phase' = Failed /\ UNCHANGED <<receipt, request>>
  \/ ~RequestIfNone /\ UNCHANGED <<phase, receipt, request>>

----------------------------------------------------------------------------
(* rns_browser_open *)

Reuses(u) == phase = "COMPLETE" /\ wire_link = [to |-> NodeOf[u], state |-> "ACTIVE"]

(* The receipt of the last navigation is destroyed: its answer finds nobody. *)
Forget_Not == request
Forget == NoRequest

(* A scan of the cache drops what has expired; one that finds the page stops
   there, wherever its slot is. *)
Open(u, form) ==
  /\ opens < MaxOpens /\ opens' = opens + 1
  /\ target' = [url |-> u, form |-> form] /\ waited' = 0 /\ quit' = FALSE /\ submitted' = 0
  /\ wire_link' = IF Reuses(u) THEN wire_link ELSE NoLink
  /\ \/ /\ ~form /\ u \in DOMAIN cache \ Outdated
        /\ \E gone \in SUBSET Outdated : cache' = Without(cache, gone)
        /\ from_cache' = TRUE /\ receipt' = "NONE" /\ request' = Forget
        /\ \/ page' = [url |-> u, of |-> u, version |-> cache[u].version] /\ phase' = "COMPLETE"
           \/ UNCHANGED page /\ phase' = "FAILED"
     \/ /\ form \/ u \notin DOMAIN cache \ Outdated
        /\ cache' = IF form THEN cache ELSE Without(cache, Outdated)
        /\ UNCHANGED page /\ from_cache' = FALSE
        /\ \/ /\ Reuses(u) /\ receipt' = "PENDING" /\ phase' = "REQUEST"
              /\ request' = [for |-> u, form |-> form, state |-> "sent", version |-> 0]
           \/ /\ receipt' = "NONE" /\ request' = Forget
              /\ phase' \in {IF Reuses(u) THEN "FAILED" ELSE "PATH", "FAILED"}
  /\ UNCHANGED <<files, undone, edits>>

(* rns_browser_poll *)
BrowserPoll ==
  /\ phase = "PATH"
  /\ \/ waited >= PathTimeout /\ phase' = "FAILED" /\ UNCHANGED wire_link
     \/ /\ waited < PathTimeout /\ phase' = "LINK"
        /\ wire_link' = [to |-> NodeOf[target.url], state |-> "PENDING"]
     \/ waited < PathTimeout /\ phase' = "FAILED" /\ UNCHANGED wire_link
  /\ UNCHANGED <<target, receipt, from_cache, waited, quit, request, page, cache, files, submitted, undone,
                 opens, edits>>

(* rns_browser_cancel; the receipt's own report is overruled. *)
Cancel ==
  /\ phase \notin {"COMPLETE", "FAILED"}
  /\ phase' = "CANCELLED" /\ quit' = TRUE
  /\ IF receipt = "PENDING" THEN receipt' = "OVER" /\ request' = NoRequest
     ELSE UNCHANGED <<receipt, request>>
  /\ UNCHANGED <<target, from_cache, waited, wire_link, page, cache, files, submitted, undone, opens, edits>>

(* rns_browser_cache_clear *)
ClearCache ==
  /\ DOMAIN cache # {} /\ cache' = Without(cache, DOMAIN cache)
  /\ UNCHANGED <<navVars, wire_link, request, page, files, submitted, undone, opens, edits>>

----------------------------------------------------------------------------
(* The link. *)

LinkUp ==
  /\ wire_link.state = "PENDING" /\ wire_link' = [wire_link EXCEPT !.state = "ACTIVE"]
  /\ LinkActive
  /\ UNCHANGED <<target, from_cache, waited, quit, page, cache, files, submitted, undone, opens, edits>>

(* A packet of the link that cannot be decrypted is reported as another
   RNS_LINK_ACTIVE. *)
LinkNoise ==
  /\ wire_link.state = "ACTIVE" /\ LinkActive
  /\ UNCHANGED <<target, from_cache, waited, quit, wire_link, page, cache, files, submitted, undone, opens, edits>>

LinkDown ==
  /\ wire_link.state \in {"PENDING", "ACTIVE"}
  /\ wire_link' = [wire_link EXCEPT !.state = "CLOSED"]
  /\ phase' = Failed /\ request' = NoRequest
  /\ receipt' = IF receipt = "PENDING" THEN "OVER" ELSE receipt
  /\ UNCHANGED <<target, from_cache, waited, quit, page, cache, files, submitted, undone, opens, edits>>

(* The request fails, runs into its deadline, or an answer that does not
   belong to it makes the browser cancel it (link_packet). *)
RequestFails ==
  /\ receipt = "PENDING" /\ receipt' = "OVER" /\ request' = NoRequest /\ phase' = Failed
  /\ UNCHANGED <<target, from_cache, waited, quit, wire_link, page, cache, files, submitted, undone, opens, edits>>

----------------------------------------------------------------------------
(* The node. *)

(* read_page_policy: no list beside the page, one that can be read, or one
   that is malformed or not a plain file. *)
Policies == {"NONE", "NAMES_VISITOR", "NAMES_OTHERS", "UNREADABLE"}

(* page_policy_authorized *)
Authorized(policy) == policy \in {"NONE", "NAMES_VISITOR"}

(* open_relative, read_bounded: the file as it is now, or nothing when it is
   too large, not there or not a plain file. *)
Contents(u) == {files[u], Unread}

(* serve_page: what the answer carries; without an answer the visitor waits
   for the deadline. *)
AnsweredWith(version) == [request EXCEPT !.state = "answered", !.version = version]
Unanswered == [request EXCEPT !.state = "unanswered"]

Serve ==
  /\ request.state = "sent"
  /\ \E policy \in Policies, content \in Contents(request.for) :
       LET served == Authorized(policy) /\ content # Unread
       IN /\ submitted' = submitted + (IF served /\ request.form THEN 1 ELSE 0)
          /\ request' = IF served THEN AnsweredWith(content)
                        ELSE IF policy = "NAMES_OTHERS" THEN AnsweredWith(Denied)
                        ELSE Unanswered
  /\ UNCHANGED <<navVars, wire_link, page, cache, files, undone, opens, edits>>

(* The owner of the node edits a page. *)
Edit(u) ==
  /\ edits < MaxEdits /\ edits' = edits + 1 /\ files' = [files EXCEPT ![u] = @ + 1]
  /\ UNCHANGED <<navVars, wire_link, request, page, cache, submitted, undone, opens>>

(* response_received: committed if it is text that can be parsed. *)
Respond ==
  /\ request.state = "answered" /\ request' = NoRequest /\ receipt' = "OVER"
  /\ \/ /\ Commit(request.for, request.version)
        /\ cache' \in IF target.form \/ from_cache THEN {cache}
                      ELSE Stores(cache, target.url, request.version)
     \/ phase' = Failed /\ UNCHANGED <<page, cache, undone>>
  /\ UNCHANGED <<target, from_cache, waited, quit, wire_link, files, submitted, opens, edits>>

TimePasses ==
  /\ phase = "PATH" \/ DOMAIN cache # {}
  /\ phase = "PATH" => waited < PathTimeout
  /\ waited' = IF phase = "PATH" THEN waited + 1 ELSE waited
  /\ cache' = [u \in DOMAIN cache |-> [cache[u] EXCEPT !.age = IF @ < Lifetime THEN @ + 1 ELSE @]]
  /\ UNCHANGED <<phase, target, receipt, from_cache, quit, wire_link, request, page, files, submitted, undone,
                 opens, edits>>

BrowserNext ==
  \/ \E u \in Urls, form \in BOOLEAN : Open(u, form)
  \/ BrowserPoll \/ Cancel \/ ClearCache \/ LinkUp \/ LinkNoise \/ LinkDown \/ RequestFails
  \/ Serve \/ (\E u \in Urls : Edit(u)) \/ Respond \/ TimePasses

(***************************************************************************)
(* Fairness: the browser is polled and time passes; the runtime brings a   *)
(* link up or closes it at its deadline, and concludes every request.      *)
(***************************************************************************)
BrowserSpec ==
  /\ BrowserInit /\ [][BrowserNext]_browserVars
  /\ WF_browserVars(waited >= PathTimeout /\ BrowserPoll) /\ WF_browserVars(TimePasses)
  /\ WF_browserVars(LinkUp \/ (wire_link.state = "PENDING" /\ LinkDown))
  /\ WF_browserVars(RequestFails \/ Respond)

----------------------------------------------------------------------------
(***************************************************************************)
(* The page on show is the one its address says, although a link and its   *)
(* answers may outlive the navigation they were for.                       *)
(***************************************************************************)
PageTrue == page.of = page.url

(***************************************************************************)
(* A form reaches the node at most once for each time it is submitted,     *)
(* however often the link reports that it is active.                       *)
(***************************************************************************)
SubmittedOnce == submitted <= 1

(* What the browser shows and sends is what it was told to, and its cache   *)
(* holds no more pages than it has slots (all of the above).                *)
BrowserShowsTrue == BrowserTypeOK /\ PageTrue /\ SubmittedOnce

(* Every navigation ends: loaded, failed or cancelled. *)
EventuallySettles == (phase \in {"PATH", "LINK", "REQUEST"}) ~> (phase \in Settled)

(***************************************************************************)
(* The last page is "retained during subsequent loads, failures and        *)
(* cancellation" (browser.h): a navigation that was cancelled does not     *)
(* replace it.                                                             *)
(***************************************************************************)
CancelHolds == undone \subseteq {"none"}
=============================================================================
