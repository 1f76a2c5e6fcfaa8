CONSTANTS
  l1 = l1
  l2 = l2
  None = None
  Loops = {l1, l2}
  Threads = {}
  PipeCapacity = 1
  ReadSize = 1
  MaxPosts = 1
SPECIFICATION FairSpec
PROPERTIES ImplementsMailbox TaskSettles
