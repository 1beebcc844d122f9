\* Two uses of get_session, one pool connection, a disposer that keeps at it.
SPECIFICATION DbSpec
CONSTANTS
    Session = {s1, s2}
    Disposer = {d1}
    PoolLimit = 1
INVARIANTS DbTypeOK MakerIsUsable NoEngineForgotten NoConnectionLeaks
PROPERTY KeepsPromise
