CONSTANTS
  f1 = f1
  f2 = f2
  b1 = b1
  b2 = b2
  b3 = b3
  Invalid = Invalid
  NoBlock = NoBlock
  Fds = {f1, f2}
  Blocks = {b1, b2, b3}
  MaxEvents = 2
  MaxAdds = 3
SPECIFICATION Spec
SYMMETRY Symmetry
INVARIANTS TypeOK NoDanglingEvent KernelInStep RetiredOnce
PROPERTIES HandlerIsRegistered
