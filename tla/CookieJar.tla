------------------------------ MODULE CookieJar ------------------------------
(***************************************************************************)
(* The cookie jar (otlyra-net/src/cookie/jar.rs), the file it is written   *)
(* to and read back from (cookie/store.rs), and the revision by which the  *)
(* writer learns that the file is out of date. How a write reaches the     *)
(* disk is CookieWriter's subject: here a save is one step that may be     *)
(* put off for ever, and a restart may come at any moment.                 *)
(*                                                                         *)
(* Which hosts may set a cookie for which domain is the constant Covers.   *)
(* All cookies have one path; what path, Secure and SameSite keep from a   *)
(* request is a choice. Instants are a small clock. A definition           *)
(* X_Something is a mutant of X.                                           *)
(***************************************************************************)
EXTENDS Integers, Sequences, FiniteSets

CONSTANTS
    Names, Values,
    Hosts,         \* hosts that answer requests; a domain is a host's name
    Covers,        \* domain_match: pairs <<host, domain>>
    SiteOf,        \* site_of: the registrable domain of each host
    Lifetimes,     \* Max-Age of a cookie that is kept
    PerDomains, Total, \* Capacity: what one domain may hold, one of these, and all
    Legacy,        \* what an older build left in the plain file
    MaxTime, MaxRevision, MaxStarts  \* bounds

ASSUME JarAssumption ==
    /\ PerDomains \subseteq Nat \ {0} /\ Total \in Nat \ {0}
    /\ Covers \subseteq Hosts \X Hosts
    /\ \A h \in Hosts : <<h, h>> \in Covers
    /\ Lifetimes \subseteq Nat /\ MaxTime \in Nat \ {0}
    /\ MaxRevision \in Nat /\ MaxStarts \in Nat

VARIABLES
    cookies, kept_revision, revision, third_party, per_domain,   \* Jar
    now,
    disk, tsv,     \* cookies.dat as read back, and whether cookies.tsv is there
    saved,         \* CookieStore::written, or the writer's
    running, starts,  \* whether a process is up, and how many went before it
    displaced      \* what stores have evicted since the file was written or read

jarVars == <<cookies, kept_revision, revision, third_party, per_domain>>
storeVars == <<jarVars, now, disk, tsv, saved, running, starts, displaced>>

Session == 0
Past == -1      \* UNIX_EPOCH, what Max-Age <= 0 asks for

Cookie == [name : Names, domain : Hosts, host_only : BOOLEAN, value : Values,
           expires : Int, http_only : BOOLEAN, created : Nat, last_access : Nat]

Persistent(c) == c.expires # Session
Live(c) == c.expires = Session \/ c.expires > now
Identity(c) == <<c.name, c.domain, c.host_only>>
Elements(s) == {s[i] : i \in DOMAIN s}

(* What one line of the file keeps: everything but the last access, which a *)
(* cookie read back takes from its creation.                               *)
ReadBack(c) == [c EXCEPT !.last_access = c.created]

(* A line of either file says when its cookie expires.                     *)
ASSUME LegacyAssumption ==
    /\ Legacy \in Seq(Cookie)
    /\ \A i \in DOMAIN Legacy : Persistent(Legacy[i]) /\ ReadBack(Legacy[i]) = Legacy[i]

(* s without the positions in gone. *)
Without(s, gone) ==
    LET kept[i \in 0..Len(s)] ==
            IF i = 0 THEN << >>
            ELSE IF i \in gone THEN kept[i - 1] ELSE Append(kept[i - 1], s[i])
    IN  kept[Len(s)]

Expired(s) == {i \in DOMAIN s : ~Live(s[i])}

(* store.rs to_text: only what outlives the process and has not expired.   *)
ToText == LET kept == Without(cookies, Expired(cookies) \cup
                                        {i \in DOMAIN cookies : ~Persistent(cookies[i])})
          IN  [i \in DOMAIN kept |-> ReadBack(kept[i])]

FromText(text) == Without(text, Expired(text))

JarTypeOK ==
    /\ cookies \in Seq(Cookie) /\ disk \in Seq(Cookie)
    /\ kept_revision \in Nat /\ revision \in Nat /\ saved \in Nat
    /\ now \in 1..MaxTime /\ running \in BOOLEAN /\ starts \in 0..MaxStarts
    /\ third_party \in BOOLEAN /\ per_domain \in PerDomains /\ tsv \in BOOLEAN
    /\ \A i \in DOMAIN disk : Persistent(disk[i])
    /\ displaced \subseteq Cookie

JarInit ==
    /\ cookies = << >> /\ kept_revision = 0 /\ revision = 0
    /\ third_party = TRUE /\ per_domain \in PerDomains /\ now = 1
    /\ disk = << >> /\ tsv = (Legacy # << >>) /\ saved = 0 /\ running = FALSE /\ starts = 0
    /\ displaced = {}

-----------------------------------------------------------------------------
(* Making room. *)

LongerUnused(s, i, j) ==
    \/ s[i].last_access < s[j].last_access
    \/ s[i].last_access = s[j].last_access /\ i < j

(* The positions that go when those in from may be no more than cap: the   *)
(* least recently used first, the earlier of two that tie.                 *)
Evicted(s, from, cap) ==
    {i \in from : Cardinality({j \in from : LongerUnused(s, j, i)})
                      < Cardinality(from) - cap}

OfDomain(s, d) == {i \in DOMAIN s : s[i].domain = d}

(* Jar::make_room after the purge: the newcomer's domain, then the total.  *)
MakeRoom_NoDomainCap(s) == Without(s, Evicted(s, DOMAIN s, Total))
MakeRoom(s) ==
    LET domain == s[Len(s)].domain
        room == Without(s, Evicted(s, OfDomain(s, domain), per_domain))
    IN  Without(room, Evicted(room, DOMAIN room, Total))

Bump(noticed) == IF noticed THEN 1 ELSE 0

(* Whether storing c over old (the cookies of its identity, none or some)  *)
(* changes what would be written down: Jar::store's touched_the_kept.      *)
Touched_ByCount(old, c) ==
    Cardinality({o \in old : Persistent(o)}) # Cardinality({o \in {c} : Live(o) /\ Persistent(o)})
Touched_ByNew(old, c) == Live(c) /\ Persistent(c)
Touched(old, c) ==
    \/ \E o \in old : Persistent(o)
    \/ Live(c) /\ Persistent(c)

(* The cookies with c's identity that a store takes out: the first one.    *)
Replaced_None(c) == {}
Replaced(c) ==
    LET same == {i \in DOMAIN cookies : Identity(cookies[i]) = Identity(c)}
    IN  {i \in same : \A j \in same : i <= j}

(* Jar::store once the domain, the prefixes and the lifetime are settled.  *)
(* What it evicts is not counted, and recorded in displaced.               *)
Store(c) ==
    LET old == Replaced(c)
        rest == Without(cookies, old)
        new == [c EXCEPT !.created = IF old = {} THEN now
                                     ELSE cookies[CHOOSE i \in old : TRUE].created]
        pushed == Append(rest, new)
        stays == Live(new)
        touched == Touched({cookies[i] : i \in old}, new)
        purged == stays /\ Expired(pushed) # {}
    IN  /\ running /\ revision + 2 <= MaxRevision
        /\ cookies' = IF stays THEN MakeRoom(Without(pushed, Expired(pushed))) ELSE rest
        /\ displaced' = displaced \cup
              {ReadBack(o) : o \in {q \in Elements(rest) \ Elements(cookies') : Persistent(q) /\ Live(q)}}
        /\ kept_revision' = kept_revision + Bump(touched) + Bump(purged)
        /\ revision' = revision + 1 + Bump(stays)
        /\ UNCHANGED <<third_party, per_domain, now, disk, tsv, saved, running, starts>>

(* The cookies a Set-Cookie line from host may ask for. Without a Domain   *)
(* attribute one is the host's alone; with it, the domain covers the host. *)
Scopes(host) ==
    {<<host, TRUE>>} \cup {<<d, FALSE>> : d \in {e \in Hosts : <<host, e>> \in Covers}}

Asked(host) ==
    {[name |-> n, value |-> v, domain |-> s[1], host_only |-> s[2], http_only |-> o,
      expires |-> e, created |-> now, last_access |-> now] :
        n \in Names, v \in Values, s \in Scopes(host), o \in BOOLEAN,
        e \in {Session, Past} \cup {now + l : l \in Lifetimes}}

(* A response sets a cookie; cross is Context::CrossSite.                  *)
SetIn(c, cross) ==
    /\ third_party \/ ~cross
    /\ Store(c)

Reaches(c, host) ==
    IF c.host_only THEN c.domain = host ELSE <<host, c.domain>> \in Covers

(* document.cookie of a document at host: neither an HttpOnly cookie nor   *)
(* one in the place of an HttpOnly cookie.                                 *)
Shadows(c, host) ==
    \E i \in DOMAIN cookies :
        /\ cookies[i].http_only /\ cookies[i].name = c.name
        /\ Reaches(cookies[i], host)

SetFromScript(c, host) ==
    /\ ~c.http_only
    /\ ~Shadows(c, host)
    /\ Store(c)

(* A request to host carries its cookies, but for those kept from it by    *)
(* their path, Secure or SameSite, which counts as using them.             *)
HeaderFor(host, cross) ==
    /\ running
    /\ third_party \/ ~cross
    /\ \E sent \in SUBSET {i \in DOMAIN cookies : Live(cookies[i]) /\ Reaches(cookies[i], host)} :
           cookies' = [i \in DOMAIN cookies |->
                          IF i \in sent THEN [cookies[i] EXCEPT !.last_access = now] ELSE cookies[i]]
    /\ UNCHANGED <<kept_revision, revision, third_party, per_domain, now, disk, tsv,
                   saved, running, starts, displaced>>

(* Jar::clear, clear_site and remove: whatever goes is counted.            *)
RemoveThose(gone) ==
    /\ running /\ revision < MaxRevision
    /\ cookies' = Without(cookies, gone)
    /\ kept_revision' = kept_revision + Bump(\E i \in gone : Persistent(cookies[i]))
    /\ revision' = revision + 1
    /\ UNCHANGED <<third_party, per_domain, now, disk, tsv, saved, running, starts, displaced>>

ClearSite(site) == RemoveThose({i \in DOMAIN cookies : SiteOf[cookies[i].domain] = site})

(* storage.deleteCookies with a name filter: every cookie of that name.    *)
Remove(name) == RemoveThose({i \in DOMAIN cookies : cookies[i].name = name})

SetAcceptsThirdParty ==
    /\ running
    /\ revision < MaxRevision
    /\ third_party' = ~third_party
    /\ revision' = revision + 1
    /\ UNCHANGED <<cookies, kept_revision, per_domain, now, disk, tsv, saved, running, starts, displaced>>

-----------------------------------------------------------------------------
(* The file. *)

(* CookieStore::schedule_flush and the worker: nothing is written for a    *)
(* revision already written.                                               *)
Save ==
    /\ running
    /\ kept_revision # saved
    /\ disk' = ToText
    /\ saved' = kept_revision /\ displaced' = {}
    /\ UNCHANGED <<jarVars, now, tsv, running, starts>>

(* CookieStore::persist in a new process: the file is read and put into an *)
(* empty jar. migrate_plain puts the plain file's cookies after them, seals *)
(* them and removes the plain file; either may fail or be cut short.       *)
Start ==
    /\ ~running
    /\ running' = TRUE /\ displaced' = {}
    /\ LET read == FromText(disk)
           legacy == IF tsv THEN FromText(Legacy) ELSE << >>
       IN  /\ cookies' = read \o legacy
           /\ kept_revision' = Len(cookies') /\ revision' = Len(cookies')
           /\ third_party' = TRUE
           /\ \/ saved' = Len(read) /\ UNCHANGED <<disk, tsv>>
              \/ /\ tsv
                 /\ disk' = IF legacy = << >> THEN disk ELSE cookies'
                 /\ saved' = Len(cookies')
                 /\ tsv' \in BOOLEAN
    /\ UNCHANGED <<per_domain, now, starts>>

(* The process ends, with or without a last save before it.                *)
Stop ==
    /\ running /\ starts < MaxStarts
    /\ running' = FALSE
    /\ starts' = starts + 1
    /\ UNCHANGED <<jarVars, now, disk, tsv, saved, displaced>>

Tick ==
    /\ now < MaxTime
    /\ now' = now + 1
    /\ UNCHANGED <<jarVars, disk, tsv, saved, running, starts, displaced>>

JarNext ==
    \/ \E h \in Hosts, x \in BOOLEAN : \E c \in Asked(h) : SetIn(c, x)
    \/ \E h \in Hosts : \E c \in Asked(h) : SetFromScript(c, h)
    \/ \E h \in Hosts, x \in BOOLEAN : HeaderFor(h, x)
    \/ \E s \in {SiteOf[h] : h \in Hosts} : ClearSite(s)
    \/ \E n \in Names : Remove(n)
    \/ SetAcceptsThirdParty
    \/ Save
    \/ Start
    \/ Stop
    \/ Tick

JarSpec == JarInit /\ [][JarNext]_storeVars

-----------------------------------------------------------------------------
(* Properties. *)

(* The file the jar would write and the one there is, as sets of what a    *)
(* reader would get back now.                                              *)
WouldWrite == Elements(ToText)
OnDisk == Elements(FromText(disk))

(* While the store believes the file is up to date, every cookie that      *)
(* outlives the process is in it with its present value: a change that did *)
(* not move kept_revision would be lost with the process.                  *)
NothingKeptIsUnsaved == kept_revision = saved => WouldWrite \subseteq OnDisk

(* While the store believes the file is up to date, no cookie comes back   *)
(* from it that the jar has given up: not one replaced, deleted by its     *)
(* server, cleared or removed by a person. Only what a store evicted may,  *)
(* for make_room runs after touched_the_kept is settled and counts         *)
(* nothing, against "bumped whenever what would be written down changes"   *)
(* (jar.rs:262).                                                           *)
RemovedStaysRemoved == kept_revision = saved => OnDisk \subseteq WouldWrite \cup displaced

(* The unexpired cookies a step takes out of the jar.                      *)
Lost == {i \in DOMAIN cookies : Live(cookies[i]) /\ cookies[i] \notin Elements(cookies')}

(* make_room: "one noisy domain must not evict every other site's session".*)
(* Storing a cookie costs another domain an unexpired one only when the    *)
(* whole jar is full and the cookie's own domain is not.                   *)
NoisyDomainEvictsItself ==
    [][\A i \in Lost : \A h \in Hosts : \A c \in Asked(h) :
        cookies[i].domain # c.domain /\ Store(c) =>
            /\ Len(cookies) >= Total
            /\ Cardinality({j \in OfDomain(cookies, c.domain) : Live(cookies[j])}) < per_domain]_storeVars

(* A jar that took nothing over from a plain file holds one cookie per     *)
(* identity, however they were set, evicted, written and read back: a      *)
(* second would be sent beside the first and survive its deletion.         *)
OneCookiePerIdentity ==
    \A i, j \in DOMAIN cookies : Identity(cookies[i]) = Identity(cookies[j]) => i = j
=============================================================================
