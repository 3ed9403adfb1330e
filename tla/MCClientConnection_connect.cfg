\* Calls through RpcChannel or futureRpcCallProxy: connects that fail,
\* connections that close.
SPECIFICATION FairSpec
CONSTANTS
    Thread = {t1, t2}
    Flavours = {"channel", "proxy"}
    ctor = ctor
    null = null
    MayFail = TRUE
    MayClose = TRUE
INVARIANTS ProxyConnectExclusive NullAfterError NullDispatchInGap SettledConnection
PROPERTIES EveryCallGetsThrough
CHECK_DEADLOCK FALSE
