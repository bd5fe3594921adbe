CONSTANTS
  file1 = file1  file2 = file2  file3 = file3  proc1 = proc1  proc2 = proc2
  Processes = {proc1, proc2}
  Files = {file1, file2, file3}
  Owner <- MCOwner
  Faults = {}
SPECIFICATION Spec
PROPERTIES
  KeepsReadersOut
