CONSTANTS
    I = I  S = S  T = T  H = H  P = P
    run = run  stop = stop  one = one  two = two
    irun = irun  srun = srun  sstop = sstop  trun = trun  tstop = tstop
    h1 = h1  h2 = h2  prun = prun
    Method = {irun, srun, sstop, trun, tstop, h1, h2, prun}
    SubSig = {run, stop}
    subSignature <- SubSignatures
    Class = {I, S, T, H, P}
    NoClass = NoClass
    declared <- Declared
    publicMtd = {irun, srun, trun, tstop, h1, h2, prun}
    concreteMtd = {srun, sstop, trun, tstop, h1, h2, prun}
    ServiceLists <- MCServiceLists
    Program <- MCProgram
    ServiceName = {one, two}
    helperLev = 3
    NoMethod = NoMethod
    Old = Old
    Torn = Torn
SPECIFICATION Spec
INVARIANTS
    TypeOK
    SummaryIsComplete
    DetailDropsNothing
    FilesOfOneRun
CHECK_DEADLOCK FALSE
