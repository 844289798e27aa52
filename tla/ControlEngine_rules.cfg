SPECIFICATION FairRulesSpec
CONSTANTS
  Rules = {"sync", "edge"}
  Sources = {"s1", "s2"}
  Targets = {"t1", "t2", "t3"}
  Values = {"low", "high", "text"}
  Source <- SourceOf
  Trigger <- TriggerOf
  Actions <- ActionsOf
  OnChangeOnly = {"edge"}
  Numeric = {"low", "high"}
  Writable = {"t1", "t2"}
  Connection <- ConnectionOf
  Ids = {1, 2}
  MaxChanges = 5
  Nothing = Nothing

  
PROPERTY Synchronised
