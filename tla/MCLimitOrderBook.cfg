SPECIFICATION Spec
CONSTANTS
    Slot = {1, 2, 3}
    OrderId = {1, 2}
    Price = {1, 2}
    Quantity = {1, 2, 3}
INVARIANTS LookupIsLive EveryOrderCancelable VolumeIsPublished FeedIsCurrent DepthIsOffByLastFills
PROPERTIES EveryCallReturns KeepsPriority
CHECK_DEADLOCK FALSE
