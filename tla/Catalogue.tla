----------------------------- MODULE Catalogue -----------------------------
(***************************************************************************)
(* The catalogue of product-service and its copies in Redis: the page of   *)
(* one product, the list of available ones and the administrators' counts  *)
(* are each kept for a while; whoever writes the product deletes all three *)
(* keys afterwards, in steps of its own, and a reader who loaded before    *)
(* may store what it saw long after (product.controller.js, cache.js,      *)
(* saga.listener.js).                                                      *)
(***************************************************************************)
EXTENDS Naturals, Sequences, FiniteSets

CONSTANTS
  Writers,        \* requests and saga handlers that write the product
  Readers,        \* requests that show it
  Texts,          \* what a seller may write into the post
  MaxWrites,      \* bound: saves and deletions of the product
  MaxMishaps,     \* bound: Redis or Kafka calls that fail, processes that die
  NoPost            \* no product, no entry, no work in hand

VARIABLES
  product,        \* the document in MongoDB
  entry,          \* the value Redis holds for each key
  writer,         \* the handler each writer runs
  reader,         \* the read each reader has made and not stored yet
  writes, mishaps,
  overlapped,     \* keys last set by a reader whose read a write has overtaken
  missed          \* keys a writer should have deleted and did not

catalogueVars == <<product, entry, writer, reader, writes, mishaps, overlapped, missed>>

ProductStatuses == {"PENDING_APPROVAL", "AVAILABLE", "RESERVED", "SOLD", "REJECTED"}
Posts == [status : ProductStatuses, text : Texts]
Keys == {"detail", "list", "stats"}

\* What a request that fills a key reads of the product.
View(key, p) ==
  CASE key = "detail" -> p
    [] key = "list"   -> IF p # NoPost /\ p.status = "AVAILABLE" THEN p ELSE NoPost
    [] key = "stats"  -> IF p = NoPost THEN NoPost ELSE [status |-> p.status]

\* What the write of each handler makes of the document; mongoose sends the
\* assigned paths only, so an edit never writes the status back.
Effects == {"edit", "approve", "reject", "delete", "reserve", "sell", "release"}

Written(effect, text, p) ==
  CASE effect = "edit"    -> [p EXCEPT !.text = text]
    [] effect = "approve" -> [p EXCEPT !.status = "AVAILABLE"]
    [] effect = "reject"  -> [p EXCEPT !.status = "REJECTED"]
    [] effect = "delete"  -> NoPost
    [] effect = "reserve" -> [p EXCEPT !.status = "RESERVED"]
    [] effect = "sell"    -> [p EXCEPT !.status = "SOLD"]
    [] effect = "release" -> [p EXCEPT !.status = "AVAILABLE"]

\* Whether the handler goes on with the document it loaded.
Accepts(effect, p) ==
  CASE effect = "edit"    -> p.status \notin {"RESERVED", "SOLD"}
    [] effect = "reserve" -> p.status = "AVAILABLE"
    [] effect = "sell"    -> p.status # "SOLD"
    [] effect = "release" -> p.status = "RESERVED"
    [] OTHER              -> TRUE      \* an owner's deletion is an admin's, restricted

\* A saga handler clears the caches and then publishes, and logs what fails;
\* the others publish first, and what throws ends the request.
BySaga(effect) == effect \in {"reserve", "sell", "release"}

WriterTasks ==
  [effect : Effects, text : Texts, step : {"loaded", "publish", "clear"}, due : SUBSET Keys]

ASSUME CatalogueAssumption == NoPost \notin WriterTasks

\* A new post has no entry of its own; createProduct has cleared the others.
CatalogueInitWith(t) ==
  /\ product = [status |-> "PENDING_APPROVAL", text |-> t]
  /\ entry = [k \in Keys |-> NoPost]
  /\ writer = [w \in Writers |-> NoPost]
  /\ reader = [r \in Readers |-> NoPost]
  /\ writes = 0 /\ mishaps = 0
  /\ overlapped = {} /\ missed = {}

CatalogueInit == \E t \in Texts : CatalogueInitWith(t)

----------------------------------------------------------------------------
(* Writers.                                                                *)

\* updateProduct, deleteProduct, resolveProduct, and the saga's handlers, up to
\* the first await after their checks (moderation, S3, MongoDB).  An edit brings
\* a new text; the others have none of their own.
LoadProduct(w, effect, text) ==
  /\ writer[w] = NoPost /\ writes < MaxWrites
  /\ product # NoPost /\ Accepts(effect, product)
  /\ effect = "edit" <=> text # product.text
  /\ writer' = [writer EXCEPT ![w] =
       [effect |-> effect, text |-> text, step |-> "loaded", due |-> Keys]]
  /\ UNCHANGED <<product, entry, reader, writes, mishaps, overlapped, missed>>

\* The moderation of the new text refuses it.
Unsuitable(w) ==
  /\ writer[w] # NoPost /\ writer[w].step = "loaded" /\ writer[w].effect = "edit"
  /\ writer' = [writer EXCEPT ![w] = NoPost]
  /\ UNCHANGED <<product, entry, reader, writes, mishaps, overlapped, missed>>

\* save() of a document deleted meanwhile throws; findByIdAndDelete and the
\* conditional reservation do not care or find nothing.
WriteProduct(w) ==
  LET job == writer[w]
      goes == IF job.effect = "reserve" THEN product # NoPost /\ product.status = "AVAILABLE"
              ELSE product # NoPost \/ job.effect = "delete"
  IN
  /\ job # NoPost /\ job.step = "loaded" /\ writes < MaxWrites
  /\ product' = IF goes THEN Written(job.effect, job.text, product) ELSE product
  /\ writes' = IF goes THEN writes + 1 ELSE writes
  /\ writer' = [writer EXCEPT ![w] =
       IF ~goes THEN NoPost
       ELSE [job EXCEPT !.step = IF BySaga(job.effect) THEN "clear" ELSE "publish"]]
  /\ UNCHANGED <<entry, reader, mishaps, overlapped, missed>>

Published_ListsOnly(w) ==
  /\ writer[w] # NoPost /\ writer[w].step = "publish"
  /\ writer' = [writer EXCEPT ![w].step = "clear", ![w].due = {"list", "stats"}]
  /\ UNCHANGED <<product, entry, reader, writes, mishaps, overlapped, missed>>

\* publishProductEvent answers.
Published(w) ==
  /\ writer[w] # NoPost /\ writer[w].step = "publish"
  /\ writer' = [writer EXCEPT ![w].step = "clear"]
  /\ UNCHANGED <<product, entry, reader, writes, mishaps, overlapped, missed>>

\* The keys the writer may delete next: the saga's handler deletes all at once,
\* the others in this order.
NextKeys(job) ==
  CASE BySaga(job.effect)  -> job.due
    [] "detail" \in job.due -> {"detail"}
    [] "list" \in job.due   -> {"list"}
    [] OTHER               -> job.due

\* The task with one key less to delete, and none when nothing is due.
Cleared(job, k) ==
  IF job.due = {k} THEN NoPost ELSE [job EXCEPT !.due = job.due \ {k}]

\* cache.del and cache.delPattern.
DeleteKey(w, k) ==
  /\ writer[w] # NoPost /\ writer[w].step = "clear" /\ k \in NextKeys(writer[w])
  /\ entry' = [entry EXCEPT ![k] = NoPost]
  /\ overlapped' = overlapped \ {k} /\ missed' = missed \ {k}
  /\ writer' = [writer EXCEPT ![w] = Cleared(writer[w], k)]
  /\ UNCHANGED <<product, reader, writes, mishaps>>

\* Redis fails: the error is logged and the handler goes on.
DeleteFails(w, k) ==
  /\ writer[w] # NoPost /\ writer[w].step = "clear" /\ k \in NextKeys(writer[w])
  /\ mishaps < MaxMishaps /\ mishaps' = mishaps + 1
  /\ missed' = missed \cup {k}
  /\ writer' = [writer EXCEPT ![w] = Cleared(writer[w], k)]
  /\ UNCHANGED <<product, entry, reader, writes, overlapped>>

\* The publish throws, or the process dies: nothing more is deleted.
WriterEnds(w) ==
  /\ writer[w] # NoPost
  /\ mishaps < MaxMishaps /\ mishaps' = mishaps + 1
  /\ missed' = IF writer[w].step = "loaded" THEN missed ELSE missed \cup writer[w].due
  /\ writer' = [writer EXCEPT ![w] = NoPost]
  /\ UNCHANGED <<product, entry, reader, writes, overlapped>>

----------------------------------------------------------------------------
(* Readers.                                                                *)

\* listProducts and getProductStats look into Redis first; getProductById does
\* so for anonymous viewers only, and shows a product that is not available to
\* its seller and to administrators.
ReadProduct(r, k, known) ==
  /\ reader[r] = NoPost
  /\ entry[k] # NoPost => (k = "detail" /\ known)
  /\ k = "detail" => (product # NoPost /\ (product.status = "AVAILABLE" \/ known))
  /\ reader' = [reader EXCEPT ![r] = [key |-> k, seen |-> View(k, product)]]
  /\ UNCHANGED <<product, entry, writer, writes, mishaps, overlapped, missed>>

\* cache.set; the page of a product that was not available is not kept.
StoreEntry(r) ==
  LET k == reader[r].key
      kept == k # "detail" \/ reader[r].seen.status = "AVAILABLE"
      late == reader[r].seen # View(k, product)
  IN
  /\ reader[r] # NoPost
  /\ entry' = IF kept THEN [entry EXCEPT ![k] = [value |-> reader[r].seen]] ELSE entry
  /\ overlapped' = IF ~kept THEN overlapped
                   ELSE IF late THEN overlapped \cup {k} ELSE overlapped \ {k}
  /\ missed' = IF kept THEN missed \ {k} ELSE missed
  /\ reader' = [reader EXCEPT ![r] = NoPost]
  /\ UNCHANGED <<product, writer, writes, mishaps>>

\* The reader's process dies, or Redis does not take the value.
StoreFails(r) ==
  /\ reader[r] # NoPost
  /\ mishaps < MaxMishaps /\ mishaps' = mishaps + 1
  /\ reader' = [reader EXCEPT ![r] = NoPost]
  /\ UNCHANGED <<product, entry, writer, writes, overlapped, missed>>

\* The TTL of the key (300, 120 and 30 seconds).
EntryExpires(k) ==
  /\ entry[k] # NoPost
  /\ entry' = [entry EXCEPT ![k] = NoPost]
  /\ overlapped' = overlapped \ {k} /\ missed' = missed \ {k}
  /\ UNCHANGED <<product, writer, reader, writes, mishaps>>

----------------------------------------------------------------------------
CatalogueNext ==
  \/ \E w \in Writers :
       \/ \E effect \in Effects, text \in Texts : LoadProduct(w, effect, text)
       \/ Unsuitable(w) \/ WriteProduct(w) \/ Published(w) \/ WriterEnds(w)
       \/ \E k \in Keys : DeleteKey(w, k) \/ DeleteFails(w, k)
  \/ \E r \in Readers :
       \/ \E k \in Keys, known \in BOOLEAN : ReadProduct(r, k, known)
       \/ StoreEntry(r) \/ StoreFails(r)
  \/ \E k \in Keys : EntryExpires(k)

CatalogueSpec == CatalogueInit /\ [][CatalogueNext]_catalogueVars

----------------------------------------------------------------------------
Seen == {NoPost} \cup Posts \cup [status : ProductStatuses]

\* The document, the three keys, and what each handler holds are of their kinds.
CatalogueTypeOK ==
  /\ product \in {NoPost} \cup Posts
  /\ entry \in [Keys -> {NoPost} \cup [value : Seen]]
  /\ writer \in [Writers -> {NoPost} \cup WriterTasks]
  /\ reader \in [Readers -> {NoPost} \cup [key : Keys, seen : Seen]]
  /\ writes \in 0 .. MaxWrites /\ mishaps \in 0 .. MaxMishaps
  /\ overlapped \subseteq Keys /\ missed \subseteq Keys

\* A writer that has changed the product and will still delete key k.
WillDelete(k) ==
  \E w \in Writers : /\ writer[w] # NoPost /\ writer[w].step # "loaded"
                     /\ k \in writer[w].due

\* What Redis answers for a key differs from the database only while a writer
\* is on its way to delete it, when the reader that stored it had read before
\* the write, or when a failure kept a writer from deleting it: no legal order
\* of writers' own steps leaves a stale page, list or count behind.
CacheIsCurrent ==
  \A k \in Keys :
    \/ entry[k] = NoPost
    \/ entry[k].value = View(k, product)
    \/ WillDelete(k) \/ k \in overlapped \/ k \in missed
============================================================================
