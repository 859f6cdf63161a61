----------------------------- MODULE PdfWorker -----------------------------
(***************************************************************************)
(* The contained PDF worker (core/pdf_worker.py): the budget every step of *)
(* a parse is charged to, the bounded decoders, the preflight of the page  *)
(* tree, of every reachable object and of the forms a page draws, and the  *)
(* size of what is extracted.                                              *)
(*                                                                         *)
(* A document maps object numbers to objects. An object has a `kind`; its  *)
(* `entries` are all the objects it refers to, an array's in order; the    *)
(* other fields are the entries of that name.  A stream's `filters` are    *)
(* what each of its decoders puts out, `size` what is left after the last  *)
(* and `newline` whether that ends in one; `ops` are its operators, {name} *)
(* for a Do of that name, {} for any other.                                *)
(* A refusal sticks: what runs after it can only be refused as well.       *)
(***************************************************************************)
EXTENDS Integers, Sequences, SequencesExt

Budget(limits) == [limits |-> limits, work |-> 0, decoded |-> 0, pages |-> 0, refused |-> {}]
Refuse(b, why) == [b EXCEPT !.refused = @ \cup {why}]
Unless(ok, b, why) == IF ok THEN b ELSE Refuse(b, why)

Visit(b, n) == [Unless(b.work + n <= b.limits.work, b, "pdf_work_limit") EXCEPT !.work = @ + n]
Expand(b, n) == [Unless(b.decoded + n <= b.limits.decoded, b, "pdf_expansion_limit") EXCEPT !.decoded = @ + n]
Depth(b, d) == Unless(d <= b.limits.depth, b, "pdf_depth_limit")

----------------------------------------------------------------------------
\* Decoders. Flate is asked for one byte more than may still come; the output of every
\* filter is charged, the raw bytes of a stream without one too.

Decompress(b, f) ==
  LET remaining == b.limits.decoded - b.decoded
      allocated == IF f.out > remaining THEN remaining + 1 ELSE f.out
  IN  [allocated |-> allocated, budget |-> Unless(f.complete, Unless(f.out <= remaining, b, "pdf_expansion_limit"), "pdf_parse_failed")]

Decode(b, stream) ==
  LET visited == Visit(b, Len(stream.filters))
      one(acc, f) ==
        IF acc.refused # {} THEN acc
        ELSE IF ~f.safe THEN Refuse(acc, "pdf_unsupported_filter")
        ELSE LET d == Decompress(acc, f) IN IF d.budget.refused # {} THEN d.budget ELSE Expand(acc, f.out)
  IN  IF stream.filters = <<>> THEN Expand(visited, stream.size) ELSE FoldLeft(one, visited, stream.filters)

----------------------------------------------------------------------------
\* Preflight. The page tree: nothing but dictionaries, none met twice, its leaves counted.

Dictionaries == {"dict", "stream"}

RECURSIVE PageTree(_, _, _, _)
PageTree(doc, pending, seen, b) ==
  IF pending = <<>> \/ b.refused # {} THEN b
  ELSE LET top == Last(pending)
           node == doc[top.id]
           here == Visit(Depth(b, top.depth), 1)
           kids == {doc[k] : k \in node.kids}
           below == {k.entries : k \in kids} \cup IF kids = {} THEN {<<>>} ELSE {}
       IN  IF node.kind \notin Dictionaries \/ top.id \in seen THEN Refuse(here, "pdf_page_tree_invalid")
           ELSE IF ~node.pages /\ kids = {}
           THEN PageTree(doc, Front(pending), seen \cup {top.id},
                         [Unless(here.pages < here.limits.pages, here, "pdf_page_limit") EXCEPT !.pages = @ + 1])
           ELSE IF \E k \in kids : k.kind # "array" THEN Refuse(Visit(here, 1), "pdf_page_tree_invalid")
           ELSE LET list == CHOOSE l \in below : TRUE
                IN  PageTree(doc, Front(pending) \o [i \in DOMAIN list |-> [id |-> list[i], depth |-> top.depth + 1]],
                             seen \cup {top.id}, Visit(here, 1 + Len(list)))

\* The leaves of an accepted tree, in order.
RECURSIVE PagesOf(_, _)
PagesOf(doc, id) ==
  IF ~doc[id].pages /\ doc[id].kids = {} THEN <<id>>
  ELSE FlattenSeq([i \in 1..Len(IF doc[id].kids = {} THEN <<>> ELSE doc[CHOOSE k \in doc[id].kids : TRUE].entries) |->
                     PagesOf(doc, doc[CHOOSE k \in doc[id].kids : TRUE].entries[i])])

\* Everything reachable, each object once, each reference visited: the streams that are no
\* images are decoded here and stay decoded.
RECURSIVE Reachable(_, _, _, _)
Reachable(doc, pending, seen, b) ==
  IF pending = <<>> \/ b.refused # {} THEN b
  ELSE LET top == Last(pending)
           node == doc[top.id]
           here == Visit(Depth(b, top.depth), 1)
           decoded == IF node.kind = "stream" /\ ~node.image THEN Decode(here, node) ELSE here
       IN  IF top.id \in seen THEN Reachable(doc, Front(pending), seen, here)
           ELSE Reachable(doc, Front(pending) \o [i \in DOMAIN node.entries |-> [id |-> node.entries[i], depth |-> top.depth + 1]],
                          seen \cup {top.id}, Visit(decoded, Len(node.entries)))

\* The resources an object draws with: its own, or the nearest ancestor's.
RECURSIVE Resources(_, _, _, _, _)
Resources(doc, id, parents, found, b) ==
  LET node == doc[id]
      here == Unless(id \notin parents, Depth(Visit(b, 1), Cardinality(parents) + 1), "pdf_parent_cycle")
      now == IF found = {} THEN node.resources ELSE found
      looked == IF now = found THEN here ELSE Visit(here, 1)
  IN  IF b.refused # {} \/ node.kind \notin Dictionaries THEN [budget |-> b, found |-> found]
      ELSE IF node.parent = {} \/ here.refused # {} THEN [budget |-> looked, found |-> now]
      ELSE Resources(doc, CHOOSE p \in node.parent : TRUE, parents \cup {id}, now, Visit(looked, 1))

\* The operators a page or form runs. The parts of a page are put together, so all of them
\* must fit at once, a part that is repeated as often as it is.
Content(doc, id, form, b) ==
  LET node == doc[id]
      at == IF form THEN {id} ELSE node.contents
      value == doc[CHOOSE v \in at : TRUE]
      parts == [i \in DOMAIN value.entries |-> doc[value.entries[i]]]
      streams == SelectSeq(parts, LAMBDA p : p.kind # "null")
      size == FoldLeft(LAMBDA n, p : n + p.size + (IF p.newline THEN 0 ELSE 1), 0, streams)
      seen == IF form THEN b ELSE Visit(b, 1)
      visited == Visit(seen, 2 * Len(parts))
  IN  IF at = {} \/ value.kind = "null" THEN [budget |-> seen, ops |-> <<>>]
      ELSE IF value.kind # "array" THEN [budget |-> seen, ops |-> value.ops]
      ELSE IF \E i \in DOMAIN streams : streams[i].kind # "stream" THEN [budget |-> Refuse(visited, "pdf_contents_invalid"), ops |-> <<>>]
      ELSE [budget |-> Expand(visited, size), ops |-> FlattenSeq([i \in DOMAIN streams |-> streams[i].ops])]

\* What it costs to run a page or form with every form it draws, each counted as often as it
\* is drawn and worked out once.  `run` carries the budget, the costs known and the total.
RECURSIVE Cost(_, _, _, _, _, _)
Cost(doc, id, form, depth, active, run) ==
  LET here == Visit(Depth(run.budget, depth), 1)
      res == Resources(doc, id, {}, {}, here)
      content == Content(doc, id, form, res.budget)
      own == [run EXCEPT !.budget = Visit(content.budget, 2),
                         !.total = 1 + Len(content.ops) + FoldLeft(LAMBDA n, r : n + doc[r].fonts, 0, SetToSeq(res.found))]
      drawn(op) == UNION {{doc[r].xobjects[x] : x \in op \cap DOMAIN doc[r].xobjects} : r \in res.found}
      charged(r) == [r EXCEPT !.budget = Unless(r.total <= @.limits.work - @.work, @, "pdf_work_limit")]
      one(r, op) ==
        LET t == drawn(op)
            target == CHOOSE x \in t : TRUE
            sub == Cost(doc, target, TRUE, depth + 1, active \cup {id}, [r EXCEPT !.budget = Visit(@, 1)])
        IN  IF r.budget.refused # {} THEN r
            ELSE IF t = {} THEN charged(r)
            ELSE IF doc[target].kind # "stream" \/ doc[target].image THEN charged([r EXCEPT !.budget = Visit(@, 1)])
            ELSE charged([sub EXCEPT !.total = @ + r.total])
      done == FoldLeft(one, own, content.ops)
  IN  IF id \in active THEN [run EXCEPT !.budget = Refuse(here, "pdf_form_cycle")]
      ELSE IF id \in DOMAIN run.memo THEN [run EXCEPT !.budget = here, !.total = run.memo[id]]
      ELSE IF content.budget.refused # {} THEN [run EXCEPT !.budget = content.budget]
      ELSE [done EXCEPT !.memo = (id :> done.total) @@ @]

Preflight(doc, trailer, root, b) ==
  LET tree == PageTree(doc, <<[id |-> root, depth |-> 1]>>, {}, b)
      objects == Reachable(doc, <<[id |-> trailer, depth |-> 1]>>, {}, tree)
      page(run, id) ==
        IF run.budget.refused # {} THEN run
        ELSE LET c == Cost(doc, id, FALSE, 1, {}, run) IN [c EXCEPT !.budget = Visit(@, c.total)]
  IN  IF objects.refused # {} THEN [budget |-> objects, pages |-> <<>>]
      ELSE [budget |-> FoldLeft(page, [budget |-> objects, memo |-> <<>>, total |-> 0], PagesOf(doc, root)).budget,
            pages |-> PagesOf(doc, root)]

----------------------------------------------------------------------------
\* The whole parse: the metadata and the text of the pages, with a separator between two,
\* are charged to one output limit. `text[id]` is the length a page extracts to.

Parse(doc, trailer, root, encrypted, meta, text, limits) ==
  LET pre == Preflight(doc, trailer, root, Budget(limits))
      add(acc, id) == [length |-> acc.length + text[id] + (IF acc.n > 0 THEN 1 ELSE 0), n |-> acc.n + 1]
      out == FoldLeft(add, [length |-> meta, n |-> 0], pre.pages)
      b == Unless(out.length <= limits.output, pre.budget, "pdf_output_limit")
  IN  IF encrypted THEN [refused |-> {"pdf_parse_failed"}, length |-> 0, pages |-> 0]
      ELSE [refused |-> b.refused, length |-> out.length, pages |-> out.n]

\* The limit on memory: of the process where it can have one, and never above a hard one it
\* already has; a platform without one is refused.
MemoryCeiling(platform, hard, size) ==
  CASE platform = "linux" -> {IF \A h \in hard : size <= h THEN size ELSE CHOOSE h \in hard : TRUE}
    [] platform = "win32" -> {size}
    [] OTHER -> {}

\* The worker reads exactly the bytes it was promised, under a memory limit it could install,
\* and answers every refusal and every failure of the parser with its name alone.
WorkerMain(platform, hard, received, limits, parsed) ==
  LET ceiling == MemoryCeiling(platform, hard, limits.memory)
  IN  [memory |-> ceiling,
       error |-> IF ceiling = {} THEN {"pdf_memory_limit_unavailable"}
                 ELSE IF received # limits.input THEN {"pdf_input_limit"} ELSE parsed.refused]
=============================================================================
