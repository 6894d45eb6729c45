---------------------------- MODULE MCLedgerView ----------------------------
(* Small ledgers of two installs for LedgerView: every order of the stamps, *)
(* hence every skew of the two clocks.                                      *)
EXTENDS LedgerView, TLC

CONSTANTS th, s1, s2, ask, answer

Row(kind, id, by, after) == [kind |-> kind, id |-> id, by |-> by, after |-> after]
RouterRow(gen, by) == Row("router", <<"router", gen>>, by, {}) @@ [gen |-> gen]
LeaseRow(gen, strand, rgen, by) ==
    Row("lease", <<"lease", gen>>, by, {})
        @@ [thread |-> th, strand |-> strand, gen |-> gen, rgen |-> rgen, pin |-> FALSE]
ReleasedRow(gen, strand, by) ==
    Row("released", <<"released", gen>>, by, {})
        @@ [thread |-> th, strand |-> strand, gen |-> gen]
Asked(by) == Row("letter", <<"letter">>, by, {}) @@ [letter |-> ask, thread |-> th]
Due == Row("due", <<"due">>, 2, {<<"letter">>})
Renewed(n) == Row("renewed", <<"renewed", n>>, 1, {}) @@ [key |-> 1]
Noted(strand, gen, by) ==
    Row("note", <<"note", strand>>, by, {})
        @@ [strand |-> strand, gen |-> gen, re |-> ask]
Replied == Row("reply", <<"reply">>, 1, {})
               @@ [strand |-> s1, gen |-> 1, re |-> ask, letter |-> answer]
HandedOver == Row("handover", <<"wake">>, 1, {})
                  @@ [strand |-> s1, gen |-> 1, letter |-> ask, thread |-> th, re |-> answer]
ShownTo(strand, gen, by) ==
    Row("shown", <<"shown">>, by, {}) @@ [strand |-> strand, gen |-> gen, re |-> ask]
EndedWith(done, next) == Row("ended", <<"ended">>, 2, {})
                             @@ [thread |-> th, done |-> done, next |-> next]
Spoken == Row("speech", <<"speech">>, 1, {}) @@ [letter |-> answer]

R1 == RouterRow(1, 1)
R2 == RouterRow(2, 2)
L1 == LeaseRow(1, s1, 1, 1)

Shapes ==
    { <<R1, L1, Asked(1), Noted(s1, 1, 1), LeaseRow(1, s2, 2, 2)>>,
      <<R2, R1, L1, LeaseRow(1, s2, 2, 2), ReleasedRow(1, s2, 2)>>,
      <<R1, L1, LeaseRow(2, s2, 1, 1), Asked(2), Noted(s1, 1, 1)>>,
      <<R1, L1, ReleasedRow(1, s1, 1), LeaseRow(2, s2, 2, 2), R2>>,
      <<R1, L1, Asked(1), Replied, Spoken>>,
      <<R1, L1, HandedOver, LeaseRow(2, s2, 1, 1), ShownTo(s2, 2, 1)>>,
      <<R1, LeaseRow(2, s2, 1, 1), EndedWith({answer}, {ask}), Noted(s2, 2, 1), Asked(1)>>,
      <<Asked(1), Asked(2), Due, Renewed(1), Renewed(2)>>,
      <<Asked(1), Due, R1, L1, Noted(s1, 1, 1)>> }

Stamped(rows) ==
    { {rows[n] @@ [hlc |-> <<p[n], 0, rows[n].by>>] : n \in DOMAIN rows} :
          p \in Permutations(DOMAIN rows) }

AllWorlds == UNION {Stamped(rows) : rows \in Shapes}
=============================================================================
