SPECIFICATION FairSpec
CONSTANTS
  a = a  b = b  f1 = f1  f2 = f2  f3 = f3
  None = None
  Label <- TwoLabels
  Front <- ThreeFronts
  LabelOf <- Labels
  Terminal = {}
  MaxJoins = 2
  MaxFaults = 1
 
PROPERTY EveryAttachAnswered
CHECK_DEADLOCK FALSE
