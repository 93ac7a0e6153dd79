SPECIFICATION Spec
CONSTANTS
  FramesMax = 3
  StackMax = 5
  ArgsMax = 1
  FollowMax = 4
  Kinds = {"i32", "closure", "class", "enum"}
  o1 = o1
  o2 = o2
  Instances = {o1, o2}
  nobody = nobody
  Strays = {}
SYMMETRY Interchangeable
INVARIANTS TypeOK HeightIsCompiled ReceiverIsSelf
PROPERTIES InitializersAnswerInstance
