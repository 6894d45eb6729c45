SPECIFICATION ViewSpec
CONSTANTS
    th = th
    s1 = s1
    s2 = s2
    ask = ask
    answer = answer
    Thread = {th}
    Strand = {s1, s2}
    Letter = {ask, answer}
    Ledgers <- AllWorlds
INVARIANTS ViewIsUnion ReducerIsReplay LiveHolds
