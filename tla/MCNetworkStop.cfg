SPECIFICATION Spec
CONSTANTS
  None = None
  MaxRetries = 0
  Capacity = 1
  MaxMessages = 3
PROPERTY SubscriptionStops
