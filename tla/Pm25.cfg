\* pm25_test_task and two coap_process tasks, a window of two samples.
CONSTANTS
  t1 = t1
  t2 = t2
  t3 = t3
  NoTask = NoTask
  Tasks <- Three
  Volts = {1}
  PM25_ADC_READINGS = 2
  MAX_ITEMS = 2
SPECIFICATION Spec
SYMMETRY Symmetry
INVARIANTS TypeOK OwnSampleCounted
