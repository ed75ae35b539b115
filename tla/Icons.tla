------------------------------- MODULE Icons -------------------------------
(***************************************************************************)
(* Service icons (internal/api/icons.go, Store.PutIcon and its like): an   *)
(* admin uploads a PNG, has the light variant fetched from the service's   *)
(* own URL, or deletes one; anybody reads one, a kid only where its        *)
(* allow-list admits the service.  Every query and every HTTP hop is a     *)
(* step, between which services are edited and deleted and the allow-list  *)
(* changes.  The services are the shared catalog owner's.  The web sites   *)
(* are external: a page or an image may be anything or nothing.            *)
(***************************************************************************)
CONSTANTS
  Iconed,        \* services
  Url,           \* URLs a service may have
  IconCall,      \* the icon requests of a run, each sent once
  NoUrl, NoImage

ASSUME IconsAssumption == NoUrl \notin Url

Variant == {"light", "dark"}

\* A PNG within the bounds, or not; uploaded, or found at a service's URL.
Image == [from : Url \cup {"upload"}, usable : BOOLEAN]
ASSUME NoImageAssumption == NoImage \notin Image

VARIABLES
  url,       \* url[s]: NoUrl when there is no such service
  icon,      \* icon[s][v]: the row of service_icons, or NoImage
  permitted,   \* the kid's allow-list
  had,       \* history: the URLs each service has had
  request    \* request[r]: its handler

iconsVars == <<url, icon, permitted, had, request>>

IconPhases == {"free", "url", "page", "link", "fallback", "check", "own",
               "write", "visible", "catalog", "read", "done"}
Kinds == {"upload", "fetch", "delete", "read"}
IconCodes == {0, 200, 204, 404, 422, 500}

IconRequest ==
  [phase : IconPhases, kind : Kinds, service : Iconed \cup {NoUrl},
   variant : Variant, kid : BOOLEAN, url : Url \cup {NoUrl},
   image : Image \cup {NoImage}, code : IconCodes, admitted : BOOLEAN]

Fresh == [phase |-> "free", kind |-> "read", service |-> NoUrl, variant |-> "light",
          kid |-> FALSE, url |-> NoUrl, image |-> NoImage, code |-> 0,
          admitted |-> FALSE]   \* history: was the service permitted meanwhile?

Exists(s) == url[s] # NoUrl

IconsInit ==
  /\ url \in [Iconed -> Url]
  /\ icon = [s \in Iconed |-> [v \in Variant |-> NoImage]]
  /\ permitted \in SUBSET Iconed
  /\ had = [s \in Iconed |-> {url[s]}]
  /\ request = [r \in IconCall |-> Fresh]

In(r, phase) == request[r].phase = phase
To(r, q) == request' = [request EXCEPT ![r] = q]
MovedTo(q, phase) == [q EXCEPT !.phase = phase]
Replied(q, code) == [q EXCEPT !.phase = "done", !.code = code]
Moves(r, phase) == To(r, MovedTo(request[r], phase))
Replies(r, code) == To(r, Replied(request[r], code))
Stored == <<url, icon, permitted, had>>

-----------------------------------------------------------------------------
(* What else happens to services (Catalog has these in full)               *)

EditUrl(s, u) ==
  /\ Exists(s)
  /\ url' = [url EXCEPT ![s] = u]
  /\ had' = [had EXCEPT ![s] = @ \cup {u}]
  /\ UNCHANGED <<icon, permitted, request>>

\* The icons and the allow-list's rows go with the service.
DeleteIconed(s) ==
  /\ Exists(s)
  /\ url' = [url EXCEPT ![s] = NoUrl]
  /\ icon' = [icon EXCEPT ![s] = [v \in Variant |-> NoImage]]
  /\ permitted' = permitted \ {s}
  /\ UNCHANGED <<had, request>>

Admitted(q) == [q EXCEPT !.admitted = TRUE]

Allow(S) ==
  /\ \A s \in S : Exists(s)
  /\ permitted' = S
  /\ request' = [r \in IconCall |->
       IF request[r].service \in S /\ ~In(r, "done")
       THEN Admitted(request[r]) ELSE request[r]]
  /\ UNCHANGED <<url, icon, had>>

-----------------------------------------------------------------------------
(* The handlers                                                            *)

FirstPhaseOf(kind) ==
  [upload |-> "check", fetch |-> "url", delete |-> "own", read |-> "visible"][kind]

Upload(usable) == [from |-> "upload", usable |-> usable]

Arrived(kind, s, v, kid, image) ==
  [phase |-> FirstPhaseOf(kind), kind |-> kind, service |-> s, variant |-> v,
   kid |-> kid, url |-> NoUrl, image |-> image, code |-> 0, admitted |-> s \in permitted]

\* The services are those the client has seen, perhaps deleted since.
Ask(r, kind, s, v, kid) ==
  /\ In(r, "free")
  /\ kind # "read" => ~kid           \* requireNotKid, requireAdmin
  /\ kind = "fetch" => v = "light"
  /\ \E image \in IF kind = "upload" THEN {Upload(TRUE), Upload(FALSE)} ELSE {NoImage} :
       To(r, Arrived(kind, s, v, kid, image))
  /\ UNCHANGED Stored

WithUrl(q, u) == [q EXCEPT !.phase = "page", !.url = u]

\* ServiceURL.
ReadUrl(r) ==
  /\ In(r, "url")
  /\ LET q == request[r]
     IN  IF Exists(q.service)
         THEN To(r, WithUrl(q, url[q.service]))
         ELSE Replies(r, 404)
  /\ UNCHANGED Stored

\* discoverIconHref: the page names an icon, or does not, or cannot be read.
ReadPage(r) ==
  /\ In(r, "page")
  /\ Moves(r, "link") \/ Moves(r, "fallback")
  /\ UNCHANGED Stored

Found(q, usable) ==
  [q EXCEPT !.phase = "check", !.image = [from |-> q.url, usable |-> usable]]

\* downloadImage of the icon the page names or, if that fails, /favicon.ico.
Download(r) ==
  /\ In(r, "link") \/ In(r, "fallback")
  /\ \/ \E usable \in BOOLEAN : To(r, Found(request[r], usable))
     \/ IF In(r, "link") THEN Moves(r, "fallback") ELSE Replies(r, 422)
  /\ UNCHANGED Stored

\* Mutant of CheckImage: what was fetched counts as an image already.
CheckUpload(r) ==
  /\ In(r, "check")
  /\ IF request[r].image.usable \/ request[r].kind = "fetch"
     THEN Moves(r, "own") ELSE Replies(r, 422)
  /\ UNCHANGED Stored

\* Size, magic bytes, dimensions.
CheckImage(r) ==
  /\ In(r, "check")
  /\ IF request[r].image.usable THEN Moves(r, "own") ELSE Replies(r, 422)
  /\ UNCHANGED Stored

\* serviceOwnedBy, the first statement of PutIcon, DeleteIcon and GetIcon.
CheckOwned(r) ==
  /\ In(r, "own")
  /\ IF ~Exists(request[r].service) THEN Replies(r, 404)
     ELSE Moves(r, IF request[r].kind = "read" THEN "read" ELSE "write")
  /\ UNCHANGED Stored

\* PutIcon's upsert, whose foreign key is the service, or DeleteIcon's DELETE.
\* It may fail, or succeed without the handler learning of it.
WriteIcon(r) ==
  /\ In(r, "write")
  /\ LET q == request[r]
         done == IF q.kind = "fetch" THEN 200 ELSE 204
     IN  IF q.kind # "delete" /\ ~Exists(q.service)
         THEN Replies(r, 404) /\ UNCHANGED icon
         ELSE /\ icon' = [icon EXCEPT ![q.service][q.variant] = q.image]
              /\ Replies(r, done) \/ Replies(r, 500)
  /\ UNCHANGED <<url, permitted, had>>

\* Mutant of Visible: a failed look-up falls back to showing everything.
VisibleOrFailed(q) == {"catalog"} \cup (IF q.kid /\ q.service \notin permitted THEN {"done"} ELSE {})

\* serviceVisible: a kid's allow-list admits the service; an adult has none.
Visible(q) == IF q.kid /\ q.service \notin permitted THEN {"done"} ELSE {"catalog"}

Served(q, image) == [q EXCEPT !.phase = "done", !.code = 200, !.image = image]

ReadIcon(r) ==
  /\ LET q == request[r]
     IN  \/ /\ In(r, "visible")
            /\ \E next \in Visible(q) :
                 IF next = "done" THEN Replies(r, 404) ELSE Moves(r, next)
         \/ In(r, "catalog") /\ Moves(r, "own")        \* SharedCatalogOwnerID
         \/ /\ In(r, "read")
            /\ IF icon[q.service][q.variant] = NoImage THEN Replies(r, 404)
               ELSE To(r, Served(q, icon[q.service][q.variant]))
  /\ UNCHANGED Stored

\* A statement fails with no effect, or the process stops.
IconFails(r) ==
  /\ \E phase \in {"url", "own", "write", "visible", "catalog", "read"} : In(r, phase)
  /\ Replies(r, 500)
  /\ UNCHANGED Stored

IconsNext ==
  \/ \E s \in Iconed : DeleteIconed(s) \/ \E u \in Url : EditUrl(s, u)
  \/ \E S \in SUBSET Iconed : Allow(S)
  \/ \E r \in IconCall :
       \/ \E kind \in Kinds, s \in Iconed, v \in Variant, kid \in BOOLEAN :
            Ask(r, kind, s, v, kid)
       \/ ReadUrl(r) \/ ReadPage(r) \/ Download(r) \/ CheckImage(r)
       \/ CheckOwned(r) \/ WriteIcon(r) \/ ReadIcon(r) \/ IconFails(r)

IconsSpec == IconsInit /\ [][IconsNext]_iconsVars

-----------------------------------------------------------------------------
\* Every variable stays in its type.
IconsTypeOK ==
  /\ url \in [Iconed -> Url \cup {NoUrl}]
  /\ icon \in [Iconed -> [Variant -> Image \cup {NoImage}]]
  /\ permitted \subseteq Iconed
  /\ had \in [Iconed -> SUBSET Url]
  /\ request \in [IconCall -> IconRequest]

\* "A fetched image that isn't a usable PNG is a fetch failure": whichever
\* uploads, fetches and deletions overlap, an icon is a usable PNG, of a service
\* there is, and an admin's upload or, light, from a URL the service has had.
IconIsUploadOrOwnSite ==
  \A s \in Iconed, v \in Variant : icon[s][v] # NoImage =>
    /\ Exists(s) /\ icon[s][v].usable
    /\ icon[s][v].from = "upload" \/ (v = "light" /\ icon[s][v].from \in had[s])

\* The kid's gate, the service and the bytes are read one after another while
\* the allow-list changes: an icon a kid was given is that of a service it was
\* permitted at some moment of the request, and never by a gate that failed.
IconReadWasAllowed ==
  \A r \in IconCall :
    LET q == request[r]
    IN  q.kind = "read" /\ q.code = 200 => /\ q.kid => q.admitted
                                           /\ q.image.usable
=============================================================================
