----------------------------- MODULE MCMemoryWrites -----------------------------
(* Instances of MemoryWrites for TLC: the calls clients make in each run. *)
EXTENDS MemoryWrites, TLC

CONSTANTS e1, e2, e3, e4, p1, p2, k1, k2, core, working

Symm == Permutations({p1, p2})

Content(title, text) == [NoPatch EXCEPT !.title = title, !.text = text, !.tier = working]

Req(op, key, ids, patch) ==
    [op |-> op, key |-> key, ids |-> ids, lists |-> {}, patch |-> patch, cas |-> FALSE, confirm |-> TRUE]

WithCas(r) == [r EXCEPT !.cas = TRUE]
Archived(r) == [r EXCEPT !.patch.status = "archived"]
Listing(r, I) == [r EXCEPT !.lists = I]

Remember(key, text) == Req("remember", key, {}, Content(1, text))
Update(key, i, patch) == Req("update_memory", key, {i}, patch)
Supersede(key, I) == Req("supersede_memory", key, I, Content(1, 1))
Merge(key, I) == Req("merge_memories", key, I, Content(1, 1))
Forget(key, i) == Req("forget_memory", key, {i}, NoPatch)

SetText(n) == [NoPatch EXCEPT !.text = n]
SetTitle(n) == [NoPatch EXCEPT !.title = n]
SetTier == [NoPatch EXCEPT !.tier = core]
Archive == [NoPatch EXCEPT !.status = "archived"]
Activate == [NoPatch EXCEPT !.status = "active"]

\* every tool but update_memory under one key, bodies that differ under the
\* same key, and an update with expected_revision
RetryRequests ==
    {Remember(k1, 1), Archived(Listing(Remember(k1, 2), {e1})), Supersede(k1, {e1}), Merge(k1, {e1, e2}),
     WithCas(Forget(k1, e2)), WithCas(Update(None, e1, SetText(2)))}

\* every operation, one process; patches of the title and of the body, and new
\* entries that are archived or list memories of their own accord
MixedRequests ==
    {[Remember(None, 2) EXCEPT !.confirm = FALSE], Listing(Archived(Remember(k1, 1)), {e1}),
     Update(None, e1, SetText(2)), Update(None, e1, SetTitle(2)), Update(None, e1, Archive), Update(None, e1, Activate),
     Update(None, e2, SetTier), Archived(Supersede(None, {e1})), Merge(None, {e1, e2}), Forget(None, e1)}

RacingForget == {Update(None, e1, SetText(2)), Forget(None, e1)}
================================================================================
